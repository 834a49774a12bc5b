---------------------------- MODULE LaunchProofs ----------------------------
(***************************************************************************)
(* Theorems about kept processes and services, through MCLaunch.           *)
(*                                                                         *)
(* Kept, for any number of owners and process instances and any faults: a  *)
(* program that runs has its record, a failed start leaves nothing, a late *)
(* record operation does no harm, adopt answers None truthfully, and what  *)
(* ended verifiedly stays ended.  The inductive invariant IndInv rests on  *)
(* the claim: whoever writes the store shares it, so what a task knows of  *)
(* the record stays true.  One lemma per action, one step per conjunct.    *)
(*                                                                         *)
(* Service, for any number of runners, owners and runs: a kept run is not  *)
(* replaced by a runner that may adopt it, a scoped one is never orphaned, *)
(* and both Kept and Service implement SingleRun.                          *)
(***************************************************************************)
EXTENDS MCLaunch, TLAPS


\* A call begins when nothing of the task's earlier calls is left.
LEMMA CallStep ==
  ASSUME IndInv, NEW t \in Task, NEW o \in {"start", "adopt", "list"}, Call(t, o)
  PROVE  IndInv'
<1> USE KeptAssumption DEF IndInv, Call, Idle, Goto
<1>1. TypeOK'
  BY DEF TypeOK, Record, NoRecord, RunState, Pc, Verified, Unverified
<1>2. ClaimExclusive' /\ ClaimHeld' /\ CallAlone'
  BY DEF TypeOK, ClaimExclusive, ClaimHeld, CallAlone
<1>3. RecordIsOfProcess' /\ LiveHasRecord'
  BY DEF TypeOK, RecordIsOfProcess, CallKnows, Knows, NoRecord, Record,
      LiveHasRecord, LateWorkIsSafe, RecordIsStale, Gone
<1>4. CallKnows'
  BY DEF TypeOK, CallKnows, Knows, RecordIsStale, Gone
<1>5. LateWorkIsSafe'
  BY DEF TypeOK, LateWorkIsSafe, RecordIsStale, Gone
<1>6. StartKnows' /\ FailedStartLeavesNothing'
  BY DEF TypeOK, CallAlone, StartKnows, FailedStartLeavesNothing, Gone
<1> QED BY <1>1, <1>2, <1>3, <1>4, <1>5, <1>6

\* A leader's death makes a record stale, never a live process unrecorded.
LEMMA DieStep ==
  ASSUME IndInv, NEW i \in Inst, Die(i)
  PROVE  IndInv'
<1> USE KeptAssumption DEF IndInv, Die, taskVars
<1>1. TypeOK'
  BY DEF TypeOK, Record, NoRecord, RunState, Pc, Verified, Unverified
<1>2. ClaimExclusive' /\ ClaimHeld' /\ CallAlone'
  BY DEF TypeOK, ClaimExclusive, ClaimHeld, CallAlone
<1>3. RecordIsOfProcess' /\ LiveHasRecord'
  BY DEF TypeOK, RecordIsOfProcess, LiveHasRecord
<1>4. CallKnows'
  BY DEF TypeOK, CallKnows, Knows, RecordIsStale, Gone
<1>5. LateWorkIsSafe'
  BY DEF TypeOK, LateWorkIsSafe, RecordIsStale, Gone
<1>6. StartKnows' /\ FailedStartLeavesNothing'
  BY DEF TypeOK, CallAlone, StartKnows, FailedStartLeavesNothing, Gone
<1> QED BY <1>1, <1>2, <1>3, <1>4, <1>5, <1>6

\* The sweep of a dead leader's group leaves the leader dead.
LEMMA SweepStep ==
  ASSUME IndInv, NEW i \in Inst, Sweep(i)
  PROVE  IndInv'
<1> USE KeptAssumption DEF IndInv, Sweep, taskVars
<1>1. TypeOK'
  BY DEF TypeOK, Record, NoRecord, RunState, Pc, Verified, Unverified
<1>2. ClaimExclusive' /\ ClaimHeld' /\ CallAlone'
  BY DEF TypeOK, ClaimExclusive, ClaimHeld, CallAlone
<1>3. RecordIsOfProcess' /\ LiveHasRecord'
  BY DEF TypeOK, RecordIsOfProcess, LiveHasRecord
<1>4. CallKnows'
  BY DEF TypeOK, CallKnows, Knows, RecordIsStale, Gone
<1>5. LateWorkIsSafe'
  BY DEF TypeOK, LateWorkIsSafe, RecordIsStale, Gone
<1>6. StartKnows' /\ FailedStartLeavesNothing'
  BY DEF TypeOK, CallAlone, StartKnows, FailedStartLeavesNothing, Gone
<1> QED BY <1>1, <1>2, <1>3, <1>4, <1>5, <1>6

\* A child refused at its gate never ran.
LEMMA GatedEofStep ==
  ASSUME IndInv, NEW i \in Inst, GatedEof(i)
  PROVE  IndInv'
<1> USE KeptAssumption DEF IndInv, GatedEof, Launching, taskVars
<1>1. TypeOK'
  BY DEF TypeOK, Record, NoRecord, RunState, Pc, Verified, Unverified
<1>2. ClaimExclusive' /\ ClaimHeld' /\ CallAlone'
  BY DEF TypeOK, ClaimExclusive, ClaimHeld, CallAlone
<1>3. RecordIsOfProcess' /\ LiveHasRecord'
  BY DEF TypeOK, RecordIsOfProcess, LiveHasRecord
<1>4. CallKnows'
  BY DEF TypeOK, CallKnows, Knows, RecordIsStale, Gone
<1>5. LateWorkIsSafe'
  BY DEF TypeOK, LateWorkIsSafe, RecordIsStale, Gone
<1>6. StartKnows' /\ FailedStartLeavesNothing'
  BY DEF TypeOK, CallAlone, StartKnows, FailedStartLeavesNothing, Gone
<1> QED BY <1>1, <1>2, <1>3, <1>4, <1>5, <1>6

\* The claim is granted to one task, when nobody shares one.
LEMMA ClaimStep ==
  ASSUME IndInv, NEW t \in Task, Claim(t)
  PROVE  IndInv'
<1> USE KeptAssumption DEF IndInv, Claim, Unclaimed, Share, Goto, Return,
    Unshare
<1>1. TypeOK'
  <2>1. refs' \in [Task -> SUBSET {"call", "commit", "work"}]
    BY DEF TypeOK
  <2>2. pc' \in [Task -> Pc]
    BY DEF TypeOK, Pc
  <2>3. result' \in [Task -> {"None", "Busy", "Error", "AlreadyRunning", "Listed"}
                           \cup Verified \cup Unverified]
    BY DEF TypeOK, Verified, Unverified
  <2> QED BY <2>1, <2>2, <2>3 DEF TypeOK
<1>2. ClaimExclusive' /\ ClaimHeld' /\ CallAlone'
  BY DEF TypeOK, ClaimExclusive, ClaimHeld, CallAlone
<1>3. RecordIsOfProcess' /\ LiveHasRecord'
  BY DEF TypeOK, RecordIsOfProcess, LiveHasRecord
<1>4. CallKnows'
  BY DEF TypeOK, CallKnows, Knows, RecordIsStale, Gone
<1>5. LateWorkIsSafe'
  BY DEF TypeOK, LateWorkIsSafe, RecordIsStale, Gone
<1>6. StartKnows' /\ FailedStartLeavesNothing'
  BY DEF TypeOK, CallAlone, StartKnows, FailedStartLeavesNothing, Gone
<1> QED BY <1>1, <1>2, <1>3, <1>4, <1>5, <1>6

\* What is read under the claim is what the store holds.
LEMMA ReadStep ==
  ASSUME IndInv, NEW t \in Task, Read(t)
  PROVE  IndInv'
<1> USE KeptAssumption DEF IndInv, Read, Goto, Return, Unshare
<1>1. TypeOK'
  <2>1. rec' \in [Task -> Record]
    BY DEF TypeOK, Record, NoRecord
  <2>2. refs' \in [Task -> SUBSET {"call", "commit", "work"}]
    BY DEF TypeOK
  <2>3. pc' \in [Task -> Pc]
    BY DEF TypeOK, Pc
  <2>4. result' \in [Task -> {"None", "Busy", "Error", "AlreadyRunning", "Listed"}
                           \cup Verified \cup Unverified]
    BY DEF TypeOK, Verified, Unverified
  <2> QED BY <2>1, <2>2, <2>3, <2>4 DEF TypeOK
<1>2. ClaimExclusive' /\ ClaimHeld' /\ CallAlone'
  BY DEF TypeOK, ClaimExclusive, ClaimHeld, CallAlone
<1>3. RecordIsOfProcess' /\ LiveHasRecord'
  BY DEF TypeOK, RecordIsOfProcess, LiveHasRecord
<1>4. CallKnows'
  BY DEF TypeOK, CallKnows, Knows, RecordIsStale, Gone
<1>5. LateWorkIsSafe'
  BY DEF TypeOK, LateWorkIsSafe, RecordIsStale, Gone
<1>6. StartKnows' /\ FailedStartLeavesNothing'
  BY DEF TypeOK, CallAlone, StartKnows, FailedStartLeavesNothing, Gone
<1> QED BY <1>1, <1>2, <1>3, <1>4, <1>5, <1>6

\* A failed read or attach gives the claim up and changes nothing else.
LEMMA CallErrorStep ==
  ASSUME IndInv, NEW t \in Task, CallError(t)
  PROVE  IndInv'
<1> USE KeptAssumption DEF IndInv, CallError, Fault, Goto, Return, Unshare
<1>1. TypeOK'
  BY DEF TypeOK, Pc
<1>2. ClaimExclusive' /\ ClaimHeld' /\ CallAlone'
  BY DEF TypeOK, ClaimExclusive, ClaimHeld, CallAlone
<1>3. RecordIsOfProcess' /\ LiveHasRecord'
  BY DEF TypeOK, RecordIsOfProcess, LiveHasRecord
<1>4. CallKnows'
  BY DEF TypeOK, CallKnows, Knows, RecordIsStale, Gone
<1>5. LateWorkIsSafe'
  BY DEF TypeOK, LateWorkIsSafe, RecordIsStale, Gone
<1>6. StartKnows' /\ FailedStartLeavesNothing'
  BY DEF TypeOK, CallAlone, StartKnows, FailedStartLeavesNothing, Gone
<1> QED BY <1>1, <1>2, <1>3, <1>4, <1>5, <1>6

\* A start goes on to launch over a stale record only.
LEMMA StartAttachStep ==
  ASSUME IndInv, NEW t \in Task, StartAttach(t)
  PROVE  IndInv'
<1> USE KeptAssumption DEF IndInv, StartAttach, Found, NotFound, Goto, Return,
    Unshare
<1>a. rec[t].inst \in Inst /\ (NotFound(rec[t].inst) => Gone(rec[t].inst))
  BY DEF TypeOK, Record, RunState, CallKnows, Knows, RecordIsOfProcess, Gone
<1>1. TypeOK'
  <2>1. refs' \in [Task -> SUBSET {"call", "commit", "work"}]
    BY DEF TypeOK
  <2>2. pc' \in [Task -> Pc]
    BY DEF TypeOK, Pc
  <2>3. result' \in [Task -> {"None", "Busy", "Error", "AlreadyRunning", "Listed"}
                           \cup Verified \cup Unverified]
    BY DEF TypeOK, Verified, Unverified
  <2> QED BY <2>1, <2>2, <2>3 DEF TypeOK
<1>2. ClaimExclusive' /\ ClaimHeld' /\ CallAlone'
  BY DEF TypeOK, ClaimExclusive, ClaimHeld, CallAlone
<1>3. RecordIsOfProcess' /\ LiveHasRecord'
  BY DEF TypeOK, RecordIsOfProcess, LiveHasRecord
<1>4. CallKnows'
  BY <1>a DEF TypeOK, ClaimExclusive, ClaimHeld, CallAlone, CallKnows, Knows,
      LateWorkIsSafe, RecordIsOfProcess, RecordIsStale, Gone, NoRecord, Record,
      LiveHasRecord
<1>5. LateWorkIsSafe'
  BY <1>a DEF TypeOK, ClaimExclusive, ClaimHeld, CallAlone, LateWorkIsSafe,
      CallKnows, Knows, RecordIsOfProcess, RecordIsStale, Gone, NoRecord, Record
<1>6. StartKnows' /\ FailedStartLeavesNothing'
  BY DEF TypeOK, CallAlone, StartKnows, FailedStartLeavesNothing, Gone
<1> QED BY <1>1, <1>2, <1>3, <1>4, <1>5, <1>6

\* The launch's commit closure shares the claim of its call.
LEMMA LaunchStep ==
  ASSUME IndInv, NEW t \in Task, Launch(t)
  PROVE  IndInv'
<1> USE KeptAssumption DEF IndInv, Launch, Share, Goto
<1>1. TypeOK'
  BY DEF TypeOK, Pc
<1>2. ClaimExclusive' /\ ClaimHeld' /\ CallAlone'
  BY DEF TypeOK, ClaimExclusive, ClaimHeld, CallAlone
<1>3. RecordIsOfProcess' /\ LiveHasRecord'
  BY DEF TypeOK, RecordIsOfProcess, LiveHasRecord
<1>4. CallKnows'
  BY DEF TypeOK, CallKnows, Knows, RecordIsStale, Gone
<1>5. LateWorkIsSafe'
  BY DEF TypeOK, LateWorkIsSafe, RecordIsStale, Gone
<1>6. StartKnows' /\ FailedStartLeavesNothing'
  BY DEF TypeOK, CallAlone, StartKnows, FailedStartLeavesNothing, Gone
<1> QED BY <1>1, <1>2, <1>3, <1>4, <1>5, <1>6

\* The child is fresh: no record, and no other launch, is about it.
LEMMA GateForkStep ==
  ASSUME IndInv, NEW t \in Task, GateFork(t)
  PROVE  IndInv'
<1> USE KeptAssumption DEF IndInv, GateFork, Fault, GateEnd, Unshare
<1>1. TypeOK'
  <2>1. run' \in [Inst -> RunState]
    BY DEF TypeOK, RunState
  <2>2. inst' \in [Task -> Inst \cup {NoInst}]
    BY DEF TypeOK
  <2>3. gate' \in [Task -> {"idle", "fork", "commit", "go", "ok", "failed"}]
    BY DEF TypeOK
  <2>4. refs' \in [Task -> SUBSET {"call", "commit", "work"}]
    BY DEF TypeOK
  <2>5. faults' \in 0..MaxFaults
    BY DEF TypeOK
  <2> QED BY <2>1, <2>2, <2>3, <2>4, <2>5 DEF TypeOK
<1>2. ClaimExclusive' /\ ClaimHeld' /\ CallAlone'
  BY DEF TypeOK, ClaimExclusive, ClaimHeld, CallAlone
<1>3. RecordIsOfProcess' /\ LiveHasRecord'
  BY DEF TypeOK, RecordIsOfProcess, CallKnows, Knows, NoRecord, Record,
      LiveHasRecord, LateWorkIsSafe, RecordIsStale, Gone
<1>4. CallKnows'
  BY DEF TypeOK, ClaimExclusive, ClaimHeld, CallAlone, CallKnows, Knows,
      LateWorkIsSafe, RecordIsOfProcess, RecordIsStale, Gone, NoRecord, Record,
      LiveHasRecord
<1>5. LateWorkIsSafe'
  BY DEF TypeOK, ClaimExclusive, ClaimHeld, CallAlone, LateWorkIsSafe,
      CallKnows, Knows, RecordIsOfProcess, RecordIsStale, Gone, NoRecord, Record
<1>6. StartKnows' /\ FailedStartLeavesNothing'
  BY DEF TypeOK, CallAlone, StartKnows, FailedStartLeavesNothing, Gone
<1> QED BY <1>1, <1>2, <1>3, <1>4, <1>5, <1>6

\* The commit replaces a stale record; the claim keeps every other writer out.
LEMMA GateCommitStep ==
  ASSUME IndInv, NEW t \in Task, GateCommit(t)
  PROVE  IndInv'
<1> USE KeptAssumption DEF IndInv, GateCommit, Fault, GateEnd, Killed, Gone,
    Unshare
<1>1. TypeOK'
  <2>1. store' \in Record
    BY DEF TypeOK, Record, NoRecord
  <2>2. run' \in [Inst -> RunState]
    BY DEF TypeOK, RunState
  <2>3. gate' \in [Task -> {"idle", "fork", "commit", "go", "ok", "failed"}]
    BY DEF TypeOK
  <2>4. refs' \in [Task -> SUBSET {"call", "commit", "work"}]
    BY DEF TypeOK
  <2>5. faults' \in 0..MaxFaults
    BY DEF TypeOK
  <2> QED BY <2>1, <2>2, <2>3, <2>4, <2>5 DEF TypeOK
<1>2. ClaimExclusive' /\ ClaimHeld' /\ CallAlone'
  BY DEF TypeOK, ClaimExclusive, ClaimHeld, CallAlone
<1>3. RecordIsOfProcess' /\ LiveHasRecord'
  BY DEF TypeOK, RecordIsOfProcess, CallKnows, Knows, NoRecord, Record,
      LiveHasRecord, LateWorkIsSafe, RecordIsStale, Gone
<1>4. CallKnows'
  <2> USE DEF TypeOK, CallKnows, RecordIsStale, Gone
  <2> SUFFICES ASSUME NEW u \in Task PROVE Knows(u)'
    OBVIOUS
  <2>1. \A i \in Inst : Gone(i) => Gone(i)'
    OBVIOUS
  <2>2. CASE u = t
    BY <2>1, <2>2 DEF Knows, CallAlone, Record
  <2>3. CASE u # t
    <3>1. refs[u] = {}
      BY <2>3 DEF ClaimExclusive, ClaimHeld
    <3> QED BY <2>1, <2>3, <3>1 DEF Knows, ClaimHeld, Record
  <2> QED BY <2>2, <2>3
<1>5. LateWorkIsSafe'
  BY DEF TypeOK, ClaimExclusive, ClaimHeld, CallAlone, LateWorkIsSafe,
      CallKnows, Knows, RecordIsOfProcess, RecordIsStale, Gone, NoRecord, Record
<1>6. StartKnows' /\ FailedStartLeavesNothing'
  BY DEF TypeOK, CallAlone, StartKnows, FailedStartLeavesNothing, Gone
<1> QED BY <1>1, <1>2, <1>3, <1>4, <1>5, <1>6

\* The child runs only if its record is still there.
LEMMA GateGoStep ==
  ASSUME IndInv, NEW t \in Task, GateGo(t)
  PROVE  IndInv'
<1> USE KeptAssumption DEF IndInv, GateGo, GateEnd, Killed, Gone
<1>1. TypeOK'
  <2>1. run' \in [Inst -> RunState]
    BY DEF TypeOK, RunState
  <2>2. gate' \in [Task -> {"idle", "fork", "commit", "go", "ok", "failed"}]
    BY DEF TypeOK
  <2> QED BY <2>1, <2>2 DEF TypeOK
<1>2. ClaimExclusive' /\ ClaimHeld' /\ CallAlone'
  BY DEF TypeOK, ClaimExclusive, ClaimHeld, CallAlone
<1>3. RecordIsOfProcess' /\ LiveHasRecord'
  BY DEF TypeOK, RecordIsOfProcess, CallKnows, Knows, NoRecord, Record,
      LiveHasRecord, LateWorkIsSafe, RecordIsStale, Gone
<1>4. CallKnows'
  <2> USE DEF TypeOK, CallKnows, RecordIsStale, Gone
  <2>1. \A i \in Inst : Gone(i) => Gone(i)'
    OBVIOUS
  <2>2. RecordIsStale => RecordIsStale'
    BY <2>1 DEF Record
  <2>3. run'[inst[t]] # "none"
    BY DEF Knows, RunState
  <2> SUFFICES ASSUME NEW u \in Task PROVE Knows(u)'
    OBVIOUS
  <2>4. CASE u = t
    BY <2>2, <2>3, <2>4 DEF Knows, CallAlone, Record
  <2>5. CASE u # t
    <3>1. gate[u] = "commit" => run'[inst[u]] # "running"
      BY DEF Knows
    <3> QED BY <2>1, <2>2, <2>5, <3>1 DEF Knows, Record
  <2> QED BY <2>4, <2>5
<1>5. LateWorkIsSafe'
  BY DEF TypeOK, ClaimExclusive, ClaimHeld, CallAlone, LateWorkIsSafe,
      CallKnows, Knows, RecordIsOfProcess, RecordIsStale, Gone, NoRecord, Record
<1>6. StartKnows' /\ FailedStartLeavesNothing'
  BY DEF TypeOK, CallAlone, StartKnows, FailedStartLeavesNothing, Gone
<1> QED BY <1>1, <1>2, <1>3, <1>4, <1>5, <1>6

\* A successful launch rewrites its own record, a failed one removes a stale one.
LEMMA LaunchReturnStep ==
  ASSUME IndInv, NEW t \in Task, LaunchReturn(t)
  PROVE  IndInv'
<1> USE KeptAssumption DEF IndInv, LaunchReturn, Queue, Share, Goto
<1>1. TypeOK'
  <2>1. gate' \in [Task -> {"idle", "fork", "commit", "go", "ok", "failed"}]
    BY DEF TypeOK
  <2>2. work' \in [Task -> {"none", "remove", "rewrite"}]
    BY DEF TypeOK
  <2>3. refs' \in [Task -> SUBSET {"call", "commit", "work"}]
    BY DEF TypeOK
  <2>4. pc' \in [Task -> Pc]
    BY DEF TypeOK, Pc
  <2> QED BY <2>1, <2>2, <2>3, <2>4 DEF TypeOK
<1>2. ClaimExclusive' /\ ClaimHeld' /\ CallAlone'
  BY DEF TypeOK, ClaimExclusive, ClaimHeld, CallAlone
<1>3. RecordIsOfProcess' /\ LiveHasRecord'
  BY DEF TypeOK, RecordIsOfProcess, LiveHasRecord
<1>4. CallKnows'
  BY DEF TypeOK, CallKnows, Knows, RecordIsStale, Gone
<1>5. LateWorkIsSafe'
  BY DEF TypeOK, ClaimExclusive, ClaimHeld, CallAlone, LateWorkIsSafe,
      CallKnows, Knows, RecordIsOfProcess, RecordIsStale, Gone, NoRecord, Record
<1>6. StartKnows' /\ FailedStartLeavesNothing'
  BY DEF TypeOK, CallAlone, StartKnows, FailedStartLeavesNothing, Gone
<1> QED BY <1>1, <1>2, <1>3, <1>4, <1>5, <1>6

\* adopt removes a record only after it has found the process gone.
LEMMA AdoptAttachStep ==
  ASSUME IndInv, NEW t \in Task, AdoptAttach(t)
  PROVE  IndInv'
<1> USE KeptAssumption DEF IndInv, AdoptAttach, Found, NotFound, Queue, Share,
    Goto
<1>a. rec[t].inst \in Inst /\ (NotFound(rec[t].inst) => Gone(rec[t].inst))
  BY DEF TypeOK, Record, RunState, CallKnows, Knows, RecordIsOfProcess, Gone
<1>1. TypeOK'
  <2>1. inst' \in [Task -> Inst \cup {NoInst}]
    BY <1>a DEF TypeOK
  <2>2. work' \in [Task -> {"none", "remove", "rewrite"}]
    BY DEF TypeOK
  <2>3. refs' \in [Task -> SUBSET {"call", "commit", "work"}]
    BY DEF TypeOK
  <2>4. pc' \in [Task -> Pc]
    BY DEF TypeOK, Pc
  <2> QED BY <2>1, <2>2, <2>3, <2>4 DEF TypeOK
<1>2. ClaimExclusive' /\ ClaimHeld' /\ CallAlone'
  BY DEF TypeOK, ClaimExclusive, ClaimHeld, CallAlone
<1>3. RecordIsOfProcess' /\ LiveHasRecord'
  BY DEF TypeOK, RecordIsOfProcess, LiveHasRecord
<1>4. CallKnows'
  BY <1>a DEF TypeOK, ClaimExclusive, ClaimHeld, CallAlone, CallKnows, Knows,
      LateWorkIsSafe, RecordIsOfProcess, RecordIsStale, Gone, NoRecord, Record,
      LiveHasRecord
<1>5. LateWorkIsSafe'
  BY <1>a DEF TypeOK, ClaimExclusive, ClaimHeld, CallAlone, LateWorkIsSafe,
      CallKnows, Knows, RecordIsOfProcess, RecordIsStale, Gone, NoRecord, Record
<1>6. StartKnows' /\ FailedStartLeavesNothing'
  BY DEF TypeOK, CallAlone, StartKnows, FailedStartLeavesNothing, Gone
<1> QED BY <1>1, <1>2, <1>3, <1>4, <1>5, <1>6

\* A listing takes a process for dead only if it is.
LEMMA ListAttachStep ==
  ASSUME IndInv, NEW t \in Task, ListAttach(t)
  PROVE  IndInv'
<1> USE KeptAssumption DEF IndInv, ListAttach, Found, NotFound, Goto, taskVars
<1>a. rec[t].inst \in Inst /\ (NotFound(rec[t].inst) => Gone(rec[t].inst))
  BY DEF TypeOK, Record, RunState, CallKnows, Knows, RecordIsOfProcess, Gone
<1>1. TypeOK'
  BY DEF TypeOK, Pc
<1>2. ClaimExclusive' /\ ClaimHeld' /\ CallAlone'
  BY DEF TypeOK, ClaimExclusive, ClaimHeld, CallAlone
<1>3. RecordIsOfProcess' /\ LiveHasRecord'
  BY DEF TypeOK, RecordIsOfProcess, LiveHasRecord
<1>4. CallKnows'
  BY <1>a DEF TypeOK, ClaimExclusive, ClaimHeld, CallAlone, CallKnows, Knows,
      LateWorkIsSafe, RecordIsOfProcess, RecordIsStale, Gone, NoRecord, Record,
      LiveHasRecord
<1>5. LateWorkIsSafe'
  BY <1>a DEF TypeOK, ClaimExclusive, ClaimHeld, CallAlone, LateWorkIsSafe,
      CallKnows, Knows, RecordIsOfProcess, RecordIsStale, Gone, NoRecord, Record
<1>6. StartKnows' /\ FailedStartLeavesNothing'
  BY DEF TypeOK, CallAlone, StartKnows, FailedStartLeavesNothing, Gone
<1> QED BY <1>1, <1>2, <1>3, <1>4, <1>5, <1>6

\* The listing's probe takes the claim like any other call.
LEMMA ListProbeStep ==
  ASSUME IndInv, NEW t \in Task, ListProbe(t)
  PROVE  IndInv'
<1> USE KeptAssumption DEF IndInv, ListProbe, Unclaimed, Share, Goto, Return,
    Unshare
<1>1. TypeOK'
  <2>1. refs' \in [Task -> SUBSET {"call", "commit", "work"}]
    BY DEF TypeOK
  <2>2. pc' \in [Task -> Pc]
    BY DEF TypeOK, Pc
  <2>3. result' \in [Task -> {"None", "Busy", "Error", "AlreadyRunning", "Listed"}
                           \cup Verified \cup Unverified]
    BY DEF TypeOK, Verified, Unverified
  <2> QED BY <2>1, <2>2, <2>3 DEF TypeOK
<1>2. ClaimExclusive' /\ ClaimHeld' /\ CallAlone'
  BY DEF TypeOK, ClaimExclusive, ClaimHeld, CallAlone
<1>3. RecordIsOfProcess' /\ LiveHasRecord'
  BY DEF TypeOK, RecordIsOfProcess, LiveHasRecord
<1>4. CallKnows'
  BY DEF TypeOK, CallKnows, Knows, RecordIsStale, Gone
<1>5. LateWorkIsSafe'
  BY DEF TypeOK, LateWorkIsSafe, RecordIsStale, Gone
<1>6. StartKnows' /\ FailedStartLeavesNothing'
  BY DEF TypeOK, CallAlone, StartKnows, FailedStartLeavesNothing, Gone
<1> QED BY <1>1, <1>2, <1>3, <1>4, <1>5, <1>6

\* A live entry's probe gives the claim up.
LEMMA ListLiveStep ==
  ASSUME IndInv, NEW t \in Task, ListLive(t)
  PROVE  IndInv'
<1> USE KeptAssumption DEF IndInv, ListLive, Goto, Return, Unshare
<1>1. TypeOK'
  BY DEF TypeOK, Pc
<1>2. ClaimExclusive' /\ ClaimHeld' /\ CallAlone'
  BY DEF TypeOK, ClaimExclusive, ClaimHeld, CallAlone
<1>3. RecordIsOfProcess' /\ LiveHasRecord'
  BY DEF TypeOK, RecordIsOfProcess, LiveHasRecord
<1>4. CallKnows'
  BY DEF TypeOK, CallKnows, Knows, RecordIsStale, Gone
<1>5. LateWorkIsSafe'
  BY DEF TypeOK, LateWorkIsSafe, RecordIsStale, Gone
<1>6. StartKnows' /\ FailedStartLeavesNothing'
  BY DEF TypeOK, CallAlone, StartKnows, FailedStartLeavesNothing, Gone
<1> QED BY <1>1, <1>2, <1>3, <1>4, <1>5, <1>6

\* The prune removes the record only if it is still the one found dead.
LEMMA ListRereadStep ==
  ASSUME IndInv, NEW t \in Task, ListReread(t)
  PROVE  IndInv'
<1> USE KeptAssumption DEF IndInv, ListReread, SameRecord, Found, NotFound,
    Queue, Share, Goto, Return, Unshare
<1>1. TypeOK'
  <2>1. work' \in [Task -> {"none", "remove", "rewrite"}]
    BY DEF TypeOK
  <2>2. refs' \in [Task -> SUBSET {"call", "commit", "work"}]
    BY DEF TypeOK
  <2>3. pc' \in [Task -> Pc]
    BY DEF TypeOK, Pc
  <2>4. result' \in [Task -> {"None", "Busy", "Error", "AlreadyRunning", "Listed"}
                           \cup Verified \cup Unverified]
    BY DEF TypeOK, Verified, Unverified
  <2> QED BY <2>1, <2>2, <2>3, <2>4 DEF TypeOK
<1>2. ClaimExclusive' /\ ClaimHeld' /\ CallAlone'
  BY DEF TypeOK, ClaimExclusive, ClaimHeld, CallAlone
<1>3. RecordIsOfProcess' /\ LiveHasRecord'
  BY DEF TypeOK, RecordIsOfProcess, LiveHasRecord
<1>4. CallKnows'
  BY DEF TypeOK, CallKnows, Knows, RecordIsStale, Gone
<1>5. LateWorkIsSafe'
  BY DEF TypeOK, ClaimExclusive, ClaimHeld, CallAlone, LateWorkIsSafe,
      CallKnows, Knows, RecordIsOfProcess, RecordIsStale, Gone, NoRecord, Record
<1>6. StartKnows' /\ FailedStartLeavesNothing'
  BY DEF TypeOK, CallAlone, StartKnows, FailedStartLeavesNothing, Gone
<1> QED BY <1>1, <1>2, <1>3, <1>4, <1>5, <1>6

\* exited begins to wait.
LEMMA ExitedCallStep ==
  ASSUME IndInv, NEW t \in Task, ExitedCall(t)
  PROVE  IndInv'
<1> USE KeptAssumption DEF IndInv, ExitedCall, Goto, taskVars
<1>1. TypeOK'
  BY DEF TypeOK, Pc
<1>2. ClaimExclusive' /\ ClaimHeld' /\ CallAlone'
  BY DEF TypeOK, ClaimExclusive, ClaimHeld, CallAlone
<1>3. RecordIsOfProcess' /\ LiveHasRecord'
  BY DEF TypeOK, RecordIsOfProcess, LiveHasRecord
<1>4. CallKnows'
  BY DEF TypeOK, CallKnows, Knows, RecordIsStale, Gone
<1>5. LateWorkIsSafe'
  BY DEF TypeOK, LateWorkIsSafe, RecordIsStale, Gone
<1>6. StartKnows' /\ FailedStartLeavesNothing'
  BY DEF TypeOK, CallAlone, StartKnows, FailedStartLeavesNothing, Gone
<1> QED BY <1>1, <1>2, <1>3, <1>4, <1>5, <1>6

\* exited removes the record after the exit was published.
LEMMA ExitedSeenStep ==
  ASSUME IndInv, NEW t \in Task, ExitedSeen(t)
  PROVE  IndInv'
<1> USE KeptAssumption DEF IndInv, ExitedSeen, Published, Queue, Share, Goto,
    taskVars
<1>1. TypeOK'
  BY DEF TypeOK, Pc
<1>2. ClaimExclusive' /\ ClaimHeld' /\ CallAlone'
  BY DEF TypeOK, ClaimExclusive, ClaimHeld, CallAlone
<1>3. RecordIsOfProcess' /\ LiveHasRecord'
  BY DEF TypeOK, RecordIsOfProcess, LiveHasRecord
<1>4. CallKnows'
  BY DEF TypeOK, CallKnows, Knows, RecordIsStale, Gone
<1>5. LateWorkIsSafe'
  BY DEF TypeOK, ClaimExclusive, ClaimHeld, CallAlone, LateWorkIsSafe,
      CallKnows, Knows, RecordIsOfProcess, RecordIsStale, Gone, NoRecord, Record
<1>6. StartKnows' /\ FailedStartLeavesNothing'
  BY DEF TypeOK, CallAlone, StartKnows, FailedStartLeavesNothing, Gone
<1> QED BY <1>1, <1>2, <1>3, <1>4, <1>5, <1>6

\* terminate of a process whose exit is published removes its record.
LEMMA TerminateCallStep ==
  ASSUME IndInv, NEW t \in Task, TerminateCall(t)
  PROVE  IndInv'
<1> USE KeptAssumption DEF IndInv, TerminateCall, Published, Finish, Queue,
    Share, Goto
<1>1. TypeOK'
  <2>1. work' \in [Task -> {"none", "remove", "rewrite"}]
    BY DEF TypeOK
  <2>2. refs' \in [Task -> SUBSET {"call", "commit", "work"}]
    BY DEF TypeOK
  <2>3. pc' \in [Task -> Pc]
    BY DEF TypeOK, Pc
  <2>4. result' \in [Task -> {"None", "Busy", "Error", "AlreadyRunning", "Listed"}
                           \cup Verified \cup Unverified]
    BY DEF TypeOK, Verified, Unverified
  <2> QED BY <2>1, <2>2, <2>3, <2>4 DEF TypeOK
<1>2. ClaimExclusive' /\ ClaimHeld' /\ CallAlone'
  BY DEF TypeOK, ClaimExclusive, ClaimHeld, CallAlone, Verified, Unverified
<1>3. RecordIsOfProcess' /\ LiveHasRecord'
  BY DEF TypeOK, RecordIsOfProcess, LiveHasRecord
<1>4. CallKnows'
  BY DEF TypeOK, CallKnows, Knows, RecordIsStale, Gone
<1>5. LateWorkIsSafe'
  BY DEF TypeOK, ClaimExclusive, ClaimHeld, CallAlone, LateWorkIsSafe,
      CallKnows, Knows, RecordIsOfProcess, RecordIsStale, Gone, NoRecord, Record
<1>6. StartKnows' /\ FailedStartLeavesNothing'
  BY DEF TypeOK, CallAlone, StartKnows, FailedStartLeavesNothing, Gone
<1> QED BY <1>1, <1>2, <1>3, <1>4, <1>5, <1>6

\* The force signal changes no record.
LEMMA TerminateForceStep ==
  ASSUME IndInv, NEW t \in Task, TerminateForce(t)
  PROVE  IndInv'
<1> USE KeptAssumption DEF IndInv, TerminateForce, Goto, taskVars
<1>1. TypeOK'
  BY DEF TypeOK, Pc
<1>2. ClaimExclusive' /\ ClaimHeld' /\ CallAlone'
  BY DEF TypeOK, ClaimExclusive, ClaimHeld, CallAlone
<1>3. RecordIsOfProcess' /\ LiveHasRecord'
  BY DEF TypeOK, RecordIsOfProcess, LiveHasRecord
<1>4. CallKnows'
  BY DEF TypeOK, CallKnows, Knows, RecordIsStale, Gone
<1>5. LateWorkIsSafe'
  BY DEF TypeOK, LateWorkIsSafe, RecordIsStale, Gone
<1>6. StartKnows' /\ FailedStartLeavesNothing'
  BY DEF TypeOK, CallAlone, StartKnows, FailedStartLeavesNothing, Gone
<1> QED BY <1>1, <1>2, <1>3, <1>4, <1>5, <1>6

\* terminate removes the record after the exit was published.
LEMMA TerminateExitStep ==
  ASSUME IndInv, NEW t \in Task, TerminateExit(t)
  PROVE  IndInv'
<1> USE KeptAssumption DEF IndInv, TerminateExit, Published, Finish, Queue,
    Share, Goto
<1>1. TypeOK'
  <2>1. work' \in [Task -> {"none", "remove", "rewrite"}]
    BY DEF TypeOK
  <2>2. refs' \in [Task -> SUBSET {"call", "commit", "work"}]
    BY DEF TypeOK
  <2>3. pc' \in [Task -> Pc]
    BY DEF TypeOK, Pc
  <2>4. result' \in [Task -> {"None", "Busy", "Error", "AlreadyRunning", "Listed"}
                           \cup Verified \cup Unverified]
    BY DEF TypeOK, Verified, Unverified
  <2> QED BY <2>1, <2>2, <2>3, <2>4 DEF TypeOK
<1>2. ClaimExclusive' /\ ClaimHeld' /\ CallAlone'
  BY DEF TypeOK, ClaimExclusive, ClaimHeld, CallAlone, Verified, Unverified
<1>3. RecordIsOfProcess' /\ LiveHasRecord'
  BY DEF TypeOK, RecordIsOfProcess, LiveHasRecord
<1>4. CallKnows'
  BY DEF TypeOK, CallKnows, Knows, RecordIsStale, Gone
<1>5. LateWorkIsSafe'
  BY DEF TypeOK, ClaimExclusive, ClaimHeld, CallAlone, LateWorkIsSafe,
      CallKnows, Knows, RecordIsOfProcess, RecordIsStale, Gone, NoRecord, Record
<1>6. StartKnows' /\ FailedStartLeavesNothing'
  BY DEF TypeOK, CallAlone, StartKnows, FailedStartLeavesNothing, Gone
<1> QED BY <1>1, <1>2, <1>3, <1>4, <1>5, <1>6

\* terminate that gives up leaves the record.
LEMMA TerminateTimeoutStep ==
  ASSUME IndInv, NEW t \in Task, TerminateTimeout(t)
  PROVE  IndInv'
<1> USE KeptAssumption DEF IndInv, TerminateTimeout, Goto, Return, Unshare
<1>1. TypeOK'
  BY DEF TypeOK, Record, NoRecord, RunState, Pc, Verified, Unverified
<1>2. ClaimExclusive' /\ ClaimHeld' /\ CallAlone'
  BY DEF TypeOK, ClaimExclusive, ClaimHeld, CallAlone
<1>3. RecordIsOfProcess' /\ LiveHasRecord'
  BY DEF TypeOK, RecordIsOfProcess, LiveHasRecord
<1>4. CallKnows'
  BY DEF TypeOK, CallKnows, Knows, RecordIsStale, Gone
<1>5. LateWorkIsSafe'
  BY DEF TypeOK, LateWorkIsSafe, RecordIsStale, Gone
<1>6. StartKnows' /\ FailedStartLeavesNothing'
  BY DEF TypeOK, CallAlone, StartKnows, FailedStartLeavesNothing, Gone
<1> QED BY <1>1, <1>2, <1>3, <1>4, <1>5, <1>6

\* A released handle leaves process and record.
LEMMA ReleaseStep ==
  ASSUME IndInv, NEW t \in Task, Release(t)
  PROVE  IndInv'
<1> USE KeptAssumption DEF IndInv, Release, Forget, Goto, Unshare
<1>1. TypeOK'
  BY DEF TypeOK, Record, NoRecord, RunState, Pc, Verified, Unverified
<1>2. ClaimExclusive' /\ ClaimHeld' /\ CallAlone'
  BY DEF TypeOK, ClaimExclusive, ClaimHeld, CallAlone
<1>3. RecordIsOfProcess' /\ LiveHasRecord'
  BY DEF TypeOK, RecordIsOfProcess, CallKnows, Knows, NoRecord, Record,
      LiveHasRecord, LateWorkIsSafe, RecordIsStale, Gone
<1>4. CallKnows'
  BY DEF TypeOK, CallKnows, Knows, RecordIsStale, Gone
<1>5. LateWorkIsSafe'
  BY DEF TypeOK, LateWorkIsSafe, RecordIsStale, Gone
<1>6. StartKnows' /\ FailedStartLeavesNothing'
  BY DEF TypeOK, CallAlone, StartKnows, FailedStartLeavesNothing, Gone
<1> QED BY <1>1, <1>2, <1>3, <1>4, <1>5, <1>6

\* The blocking record operation writes under the claim it shares.
LEMMA WorkStep ==
  ASSUME IndInv, NEW t \in Task, Work(t)
  PROVE  IndInv'
<1> USE KeptAssumption DEF IndInv, Work, Fault, AfterWork, WorkResult, Goto
<1>1. TypeOK'
  <2>1. store' \in Record
    BY DEF TypeOK, Record, NoRecord
  <2>2. work' \in [Task -> {"none", "remove", "rewrite"}]
    BY DEF TypeOK
  <2>3. refs' \in [Task -> SUBSET {"call", "commit", "work"}]
    BY DEF TypeOK
  <2>4. pc' \in [Task -> Pc]
    BY DEF TypeOK, Pc
  <2>5. result' \in [Task -> {"None", "Busy", "Error", "AlreadyRunning", "Listed"}
                           \cup Verified \cup Unverified]
    BY DEF TypeOK, Verified, Unverified
  <2>6. faults' \in 0..MaxFaults
    BY DEF TypeOK
  <2> QED BY <2>1, <2>2, <2>3, <2>4, <2>5, <2>6 DEF TypeOK
<1>2. ClaimExclusive' /\ ClaimHeld' /\ CallAlone'
  BY DEF TypeOK, ClaimExclusive, ClaimHeld, CallAlone
<1>3. RecordIsOfProcess'
  BY DEF TypeOK, RecordIsOfProcess, LateWorkIsSafe, NoRecord, Record
<1>4. LiveHasRecord'
  BY DEF TypeOK, CallKnows, Knows, LiveHasRecord, LateWorkIsSafe, RecordIsStale,
      Gone, NoRecord, Record
<1>5. CallKnows'
  BY DEF TypeOK, ClaimExclusive, ClaimHeld, CallAlone, CallKnows, Knows,
      LateWorkIsSafe, RecordIsOfProcess, RecordIsStale, Gone, NoRecord, Record,
      LiveHasRecord
<1>6. LateWorkIsSafe'
  <2>1. \A u \in Task : u # t => work[u] = "none"
    BY DEF ClaimExclusive, ClaimHeld
  <2> QED BY <2>1 DEF TypeOK, LateWorkIsSafe
<1>7. StartKnows' /\ FailedStartLeavesNothing'
  BY DEF TypeOK, ClaimHeld, CallAlone, StartKnows, Gone,
      FailedStartLeavesNothing, Verified, Unverified
<1> QED BY <1>1, <1>2, <1>3, <1>4, <1>5, <1>6, <1>7

\* A cancelled call leaves the claim to its blocking work.
LEMMA CancelStep ==
  ASSUME IndInv, NEW t \in Task, Cancel(t)
  PROVE  IndInv'
<1> USE KeptAssumption DEF IndInv, Cancel, Forget, Goto, Unshare
<1>1. TypeOK'
  <2>1. refs' \in [Task -> SUBSET {"call", "commit", "work"}]
    BY DEF TypeOK
  <2>2. op' \in [Task -> {"none", "start", "adopt", "list"}]
    BY DEF TypeOK
  <2>3. rec' \in [Task -> Record]
    BY DEF TypeOK, Record, NoRecord
  <2>4. pc' \in [Task -> Pc]
    BY DEF TypeOK, Pc
  <2>5. gate' \in [Task -> {"idle", "fork", "commit", "go", "ok", "failed"}]
    BY DEF TypeOK
  <2>6. result' \in [Task -> {"None", "Busy", "Error", "AlreadyRunning", "Listed"}
                           \cup Verified \cup Unverified]
    BY DEF TypeOK, Verified, Unverified
  <2> QED BY <2>1, <2>2, <2>3, <2>4, <2>5, <2>6 DEF TypeOK
<1>2. ClaimExclusive' /\ ClaimHeld' /\ CallAlone'
  BY DEF TypeOK, ClaimExclusive, ClaimHeld, CallAlone
<1>3. RecordIsOfProcess'
  BY DEF TypeOK, RecordIsOfProcess, CallKnows, Knows, NoRecord, Record
<1>4. LiveHasRecord'
  BY DEF LiveHasRecord
<1>5. CallKnows'
  BY DEF TypeOK, CallKnows, Knows, RecordIsStale, Gone
<1>6. LateWorkIsSafe'
  BY DEF TypeOK, LateWorkIsSafe, RecordIsStale, Gone
<1>7. StartKnows' /\ FailedStartLeavesNothing'
  BY DEF TypeOK, CallAlone, StartKnows, FailedStartLeavesNothing, Gone
<1> QED BY <1>1, <1>2, <1>3, <1>4, <1>5, <1>6, <1>7

\* The owner's death releases the claim and ends its blocking work.
LEMMA CrashStep ==
  ASSUME IndInv, NEW t \in Task, Crash(t)
  PROVE  IndInv'
<1> USE KeptAssumption DEF IndInv, Crash, Idle, Forget, Goto
<1>1. TypeOK'
  BY DEF TypeOK, Record, NoRecord, RunState, Pc, Verified, Unverified
<1>2. ClaimExclusive' /\ ClaimHeld' /\ CallAlone'
  BY DEF TypeOK, ClaimExclusive, ClaimHeld, CallAlone
<1>3. RecordIsOfProcess' /\ LiveHasRecord'
  BY DEF TypeOK, RecordIsOfProcess, CallKnows, Knows, NoRecord, Record,
      LiveHasRecord, LateWorkIsSafe, RecordIsStale, Gone
<1>4. CallKnows'
  BY DEF TypeOK, CallKnows, Knows, RecordIsStale, Gone
<1>5. LateWorkIsSafe'
  BY DEF TypeOK, LateWorkIsSafe, RecordIsStale, Gone
<1>6. StartKnows' /\ FailedStartLeavesNothing'
  BY DEF TypeOK, CallAlone, StartKnows, FailedStartLeavesNothing, Gone
<1> QED BY <1>1, <1>2, <1>3, <1>4, <1>5, <1>6

-----------------------------------------------------------------------------
\* The initial states satisfy the invariant.
LEMMA InitIndInv == Init => IndInv
BY KeptAssumption DEF Init, IndInv, TypeOK, Record, NoRecord, RunState, Pc,
  ClaimExclusive, ClaimHeld, CallAlone, RecordIsOfProcess, CallKnows, Knows,
  StartKnows, LiveHasRecord, LateWorkIsSafe, FailedStartLeavesNothing

\* Every step preserves the invariant.
LEMMA NextIndInv == IndInv /\ [Next]_vars => IndInv'
<1> SUFFICES ASSUME IndInv, [Next]_vars PROVE IndInv'
  OBVIOUS
<1>1. CASE UNCHANGED vars
  BY <1>1 DEF vars, IndInv, TypeOK, ClaimExclusive, ClaimHeld, CallAlone,
    RecordIsOfProcess, CallKnows, Knows, StartKnows, LiveHasRecord,
    LateWorkIsSafe, FailedStartLeavesNothing, RecordIsStale, Gone
<1>2. ASSUME NEW i \in Inst, Die(i) \/ Sweep(i) \/ GatedEof(i) PROVE IndInv'
  BY <1>2, DieStep, SweepStep, GatedEofStep
<1>3. ASSUME NEW t \in Task, GateStep(t) PROVE IndInv'
  BY <1>3, GateForkStep, GateCommitStep, GateGoStep DEF GateStep
<1>4. ASSUME NEW t \in Task, TaskStep(t) PROVE IndInv'
  BY <1>4, ClaimStep, ReadStep, CallErrorStep, StartAttachStep, LaunchStep,
      LaunchReturnStep, AdoptAttachStep, ListAttachStep, ListProbeStep,
      ListLiveStep, ListRereadStep, ExitedSeenStep, TerminateForceStep,
      TerminateExitStep, TerminateTimeoutStep DEF TaskStep
<1>5. ASSUME NEW t \in Task, Work(t) PROVE IndInv'
  BY <1>5, WorkStep
<1>6. ASSUME NEW t \in Task, OwnerStep(t) PROVE IndInv'
  BY <1>6, CallStep, ExitedCallStep, TerminateCallStep, ReleaseStep, CancelStep,
      CrashStep DEF OwnerStep
<1> QED BY <1>1, <1>2, <1>3, <1>4, <1>5, <1>6 DEF Next

\* IndInv is an inductive invariant of the kept processes under one name.
THEOREM KeptInvariant == Spec => []IndInv
BY InitIndInv, NextIndInv, PTL DEF Spec

\* A kept program that runs has its record in the store, whichever calls were
\* cancelled, whichever owners died and whichever operations failed.
THEOREM LiveProcessIsRecorded == Spec => []LiveHasRecord
<1>1. IndInv => LiveHasRecord
  BY DEF IndInv
<1> QED BY <1>1, KeptInvariant, PTL

\* A record operation that outlives its cancelled call meets no record but a
\* stale one or its own.
THEOREM LateWorkDoesNoHarm == Spec => []LateWorkIsSafe
<1>1. IndInv => LateWorkIsSafe
  BY DEF IndInv
<1> QED BY <1>1, KeptInvariant, PTL

\* A start that returns an error has left no process behind.
THEOREM FailedStartIsClean == Spec => []FailedStartLeavesNothing
<1>1. IndInv => FailedStartLeavesNothing
  BY DEF IndInv
<1> QED BY <1>1, KeptInvariant, PTL

-----------------------------------------------------------------------------
(* The action property of adopt. *)

\* Where adopt returns None, the record is stale or absent: it has just read
\* none, or its own removal has met a stale one.
LEMMA AdoptNoneOverStale ==
  ASSUME IndInv, Next, NEW t \in Task, op[t] = "adopt",
         pc[t] # "done", pc'[t] = "done", result'[t] = "None"
  PROVE  RecordIsStale
<1> USE DEF IndInv, TypeOK
<1>1. ASSUME NEW i \in Inst, Die(i) \/ Sweep(i) \/ GatedEof(i) PROVE FALSE
  BY <1>1 DEF Die, Sweep, GatedEof
<1>2. ASSUME NEW u \in Task, GateStep(u) PROVE FALSE
  BY <1>2 DEF GateStep, GateFork, GateCommit, GateGo
<1>3. ASSUME NEW u \in Task, TaskStep(u) PROVE RecordIsStale
  <2>1. CASE Read(u)
    BY <2>1 DEF Read, Goto, Return, RecordIsStale
  <2>2. CASE Claim(u) \/ CallError(u) \/ StartAttach(u) \/ TerminateTimeout(u)
    BY <2>2 DEF Claim, CallError, StartAttach, TerminateTimeout, Goto, Return
  <2>3. CASE Launch(u) \/ LaunchReturn(u) \/ AdoptAttach(u) \/ ListAttach(u)
    BY <2>3 DEF Launch, LaunchReturn, AdoptAttach, ListAttach, Goto
  <2>4. CASE ListProbe(u) \/ ListLive(u) \/ ListReread(u)
    BY <2>4 DEF ListProbe, ListLive, ListReread, CallAlone, Goto, Return
  <2>5. CASE ExitedSeen(u) \/ TerminateForce(u) \/ TerminateExit(u)
    BY <2>5 DEF ExitedSeen, TerminateForce, TerminateExit, Finish, Goto
  <2> QED BY <1>3, <2>1, <2>2, <2>3, <2>4, <2>5 DEF TaskStep
<1>4. ASSUME NEW u \in Task, Work(u) PROVE RecordIsStale
  <2>1. u = t
    BY <1>4 DEF Work, Goto
  <2>2. pc[t] = "pruning"
    BY <1>4, <2>1 DEF Work, Goto, AfterWork, WorkResult, CallAlone, Verified,
        Unverified
  <2> QED BY <1>4, <2>1, <2>2 DEF Work, CallAlone, LateWorkIsSafe
<1>5. ASSUME NEW u \in Task, OwnerStep(u) PROVE FALSE
  BY <1>5 DEF OwnerStep, Call, ExitedCall, TerminateCall, Release, Cancel,
      Crash,
    Finish, Forget, Goto
<1> QED BY <1>1, <1>2, <1>3, <1>4, <1>5 DEF Next

\* adopt answers None only when no kept program runs and no child at its gate
\* can still be let through.
THEOREM AdoptNoneIsTrue == Spec => AdoptNoneMeansGone
<1>1. ASSUME IndInv, Next, NEW t \in Task, op[t] = "adopt",
             pc[t] # "done", pc'[t] = "done", result'[t] = "None"
      PROVE  /\ \A i \in Inst : run[i] # "running"
             /\ \A u \in Task : gate[u] = "go" => Gone(inst[u])
  <2>1. RecordIsStale
    BY <1>1, AdoptNoneOverStale
  <2>2. \A i \in Inst : run[i] # "running"
    BY <1>1, <2>1, KeptAssumption DEF IndInv, LiveHasRecord, RecordIsStale, Gone
  <2>3. \A u \in Task : gate[u] = "go" => Gone(inst[u])
    BY <1>1, <2>1 DEF IndInv, CallKnows, Knows, RecordIsStale
  <2> QED BY <2>2, <2>3
<1>2. IndInv /\ [Next]_vars =>
        [\A t \in Task :
           op[t] = "adopt" /\ pc[t] # "done" /\ pc'[t] = "done" /\ result'[t] = "None"
           => /\ \A i \in Inst : run[i] # "running"
              /\ \A u \in Task : gate[u] = "go" => Gone(inst[u])]_vars
  BY <1>1
<1> QED BY <1>2, KeptInvariant, PTL DEF Spec, AdoptNoneMeansGone

-----------------------------------------------------------------------------
(* The refinement of SingleRun: Running and Ended change only where a leader *)
(* starts its program or ends, and LiveHasRecord makes the start exclusive.  *)

\* Calls, record operations, cancellations and crashes start and end nothing.
LEMMA OtherStepsStutter ==
  ASSUME NEW t \in Task, TaskStep(t) \/ Work(t) \/ OwnerStep(t)
  PROVE  UNCHANGED run
<1>1. CASE TaskStep(t)
  BY <1>1 DEF TaskStep, Claim, Read, CallError, StartAttach, Launch,
    LaunchReturn, AdoptAttach, ListAttach, ListProbe, ListLive, ListReread,
    ExitedSeen, TerminateForce, TerminateExit, TerminateTimeout
<1>2. CASE Work(t)
  BY <1>2 DEF Work
<1>3. CASE OwnerStep(t)
  BY <1>3 DEF OwnerStep, Call, ExitedCall, TerminateCall, Release, Cancel, Crash
<1> QED BY <1>1, <1>2, <1>3

\* A leader that has not ended ends: End of the abstract run.
LEMMA DeathIsEnd ==
  ASSUME TypeOK, NEW i \in Inst, ~Gone(i), run' = [run EXCEPT ![i] = "dead"]
  PROVE  OneRun!End(i)
<1>1. i \notin Ended
  BY DEF Ended
<1>2. Running' = Running \ {i}
  BY DEF TypeOK, Running
<1>3. Ended' = Ended \cup {i}
  BY DEF TypeOK, Ended, Gone
<1> QED BY <1>1, <1>2, <1>3 DEF OneRun!End

\* A step that keeps every leader's standing is a stutter of the abstract run.
LEMMA SameStanding ==
  ASSUME \A i \in Inst : /\ run'[i] = "running" <=> run[i] = "running"
                         /\ Gone(i)' <=> Gone(i)
  PROVE  UNCHANGED <<Running, Ended>>
BY DEF Running, Ended

\* Killed either finds the child gone or ends it.
LEMMA KilledIsEnd ==
  ASSUME TypeOK, NEW i \in Inst, Killed(i)
  PROVE  OneRun!End(i) \/ UNCHANGED <<Running, Ended>>
<1>1. CASE Gone(i)
  <2>1. run' = run
    BY <1>1 DEF Killed, TypeOK
  <2> QED BY <2>1, SameStanding DEF Gone
<1>2. CASE ~Gone(i)
  <2>1. run' = [run EXCEPT ![i] = "dead"]
    BY <1>2 DEF Killed
  <2> QED BY <1>2, <2>1, DeathIsEnd
<1> QED BY <1>1, <1>2

\* The go byte lets a child run only while no other program of the name does:
\* its record is in the store, and whoever runs has its record there.
LEMMA GoIsStart ==
  ASSUME IndInv, NEW t \in Task, gate[t] = "go",
         run' = [run EXCEPT ![inst[t]] = IF Gone(inst[t]) THEN @ ELSE "running"]
  PROVE  OneRun!Start(inst[t]) \/ UNCHANGED <<Running, Ended>>
<1>1. inst[t] \in Inst
  BY KeptAssumption DEF IndInv, TypeOK, CallKnows, Knows
<1>2. CASE Gone(inst[t]) \/ run[inst[t]] = "running"
  <2>1. run' = run
    BY <1>1, <1>2 DEF IndInv, TypeOK, Gone
  <2> QED BY <2>1, SameStanding DEF Gone
<1>3. CASE ~Gone(inst[t]) /\ run[inst[t]] # "running"
  <2>1. store.inst = inst[t]
    BY <1>3 DEF IndInv, CallKnows, Knows
  <2>2. Running = {}
    BY <1>3, <2>1 DEF IndInv, LiveHasRecord, Running
  <2>3. inst[t] \notin Ended
    BY <1>3 DEF Ended
  <2>4. run' = [run EXCEPT ![inst[t]] = "running"]
    BY <1>3
  <2>5. Running' = {inst[t]}
    BY <1>1, <2>2, <2>4 DEF IndInv, TypeOK, Running
  <2>6. Ended' = Ended
    BY <1>1, <1>3, <2>4 DEF IndInv, TypeOK, Ended, Gone
  <2> QED BY <2>2, <2>3, <2>5, <2>6 DEF OneRun!Start
<1> QED BY <1>2, <1>3

\* Every step of the kept processes is a step of the abstract run or a stutter.
LEMMA StepRefines ==
  IndInv /\ [Next]_vars => [OneRun!Next]_<<Running, Ended>>
<1> SUFFICES ASSUME IndInv, [Next]_vars
             PROVE  \/ \E i \in Inst : OneRun!Start(i) \/ OneRun!End(i)
                    \/ UNCHANGED <<Running, Ended>>
  BY DEF OneRun!Next
<1>0. TypeOK
  BY DEF IndInv
<1>1. CASE UNCHANGED run
  BY <1>1, SameStanding DEF Gone
<1>2. CASE UNCHANGED vars
  BY <1>1, <1>2 DEF vars
<1>3. ASSUME NEW i \in Inst, Die(i) \/ GatedEof(i) PROVE OneRun!End(i)
  BY <1>0, <1>3, DeathIsEnd DEF Die, GatedEof, Gone
<1>4. ASSUME NEW i \in Inst, Sweep(i) PROVE UNCHANGED <<Running, Ended>>
  BY <1>0, <1>4, SameStanding DEF Sweep, Gone, TypeOK
<1>5. ASSUME NEW t \in Task, GateStep(t)
      PROVE  \/ \E i \in Inst : OneRun!Start(i) \/ OneRun!End(i)
             \/ UNCHANGED <<Running, Ended>>
  <2>1. CASE GateFork(t)
    <3>1. UNCHANGED run \/ \E i \in Inst : /\ run[i] = "none"
                                           /\ run' = [run EXCEPT ![i] = "gated"]
      BY <2>1 DEF GateFork
    <3>2. CASE \E i \in Inst : run[i] = "none" /\ run' = [run EXCEPT ![i] = "gated"]
      BY <1>0, <3>2, SameStanding DEF Gone, TypeOK
    <3> QED BY <1>1, <3>1, <3>2
  <2>2. CASE GateCommit(t)
    <3>1. UNCHANGED run \/ Killed(inst[t])
      BY <2>2 DEF GateCommit
    <3>2. inst[t] \in Inst
      BY <2>2, KeptAssumption DEF GateCommit, IndInv, TypeOK, CallKnows, Knows
    <3> QED BY <1>0, <1>1, <3>1, <3>2, KilledIsEnd
  <2>3. CASE GateGo(t)
    <3>1. inst[t] \in Inst
      BY <2>3, KeptAssumption DEF GateGo, IndInv, TypeOK, CallKnows, Knows
    <3>2. CASE Killed(inst[t])
      BY <1>0, <3>1, <3>2, KilledIsEnd
    <3>3. CASE run' = [run EXCEPT ![inst[t]] = IF Gone(inst[t]) THEN @ ELSE "running"]
      BY <2>3, <3>1, <3>3, GoIsStart DEF GateGo
    <3> QED BY <2>3, <3>2, <3>3 DEF GateGo
  <2> QED BY <1>5, <2>1, <2>2, <2>3 DEF GateStep
<1>6. ASSUME NEW t \in Task, TaskStep(t) \/ Work(t) \/ OwnerStep(t)
      PROVE  UNCHANGED <<Running, Ended>>
  BY <1>1, <1>6, OtherStepsStutter, SameStanding DEF Gone
<1> QED BY <1>2, <1>3, <1>4, <1>5, <1>6 DEF Next

\* The kept processes of a name implement SingleRun: whatever is cancelled,
\* crashes or fails, one program of the name runs at a time and none twice.
THEOREM KeptImplementsSingleRun == Spec => KeepsOneRun
<1>1. Init => OneRun!Init
  BY DEF Init, OneRun!Init, Running, Ended, Gone
<1> QED BY <1>1, StepRefines, KeptInvariant, PTL DEF Spec, KeepsOneRun, OneRun!Spec

-----------------------------------------------------------------------------
(* A verified end: EndInv is inductive with IndInv. *)

\* A leader that was started stays started, one whose group was swept, swept.
RunsForward ==
  \A i \in Inst : /\ run[i] # "none" => run'[i] # "none"
                  /\ run[i] = "swept" => run'[i] = "swept"

LEMMA NextRuns == IndInv /\ [Next]_vars => RunsForward
<1> SUFFICES ASSUME IndInv, [Next]_vars PROVE RunsForward
  OBVIOUS
<1> USE DEF RunsForward, IndInv, TypeOK
<1>1. CASE UNCHANGED run
  BY <1>1
<1>2. ASSUME NEW i \in Inst, Die(i) \/ Sweep(i) \/ GatedEof(i) PROVE RunsForward
  BY <1>2 DEF Die, Sweep, GatedEof
<1>3. ASSUME NEW t \in Task, GateStep(t) PROVE RunsForward
  BY <1>3 DEF GateStep, GateFork, GateCommit, GateGo, Killed, Gone
<1>4. ASSUME NEW t \in Task, TaskStep(t) \/ Work(t) \/ OwnerStep(t) PROVE RunsForward
  BY <1>1, <1>4, OtherStepsStutter
<1> QED BY <1>1, <1>2, <1>3, <1>4 DEF Next, vars

\* A step that forks and commits nothing keeps EndInv, if the verified results
\* are kept or given for a swept group, and return over no record.
LEMMA EndFrames ==
  ASSUME IndInv, EndInv, RunsForward,
         store'.inst # NoInst => store'.inst = store.inst,
         \A u \in Task :
           /\ gate'[u] = "commit" => gate[u] = "commit" /\ inst'[u] = inst[u]
           /\ rec'[u].inst \in {rec[u].inst, store.inst, NoInst}
           /\ inst'[u] \in {inst[u], rec[u].inst, NoInst}
           /\ result'[u] \in Verified =>
                \/ /\ pc'[u] = "finishing" /\ inst'[u] # NoInst
                   /\ run'[inst'[u]] = "swept"
                \/ /\ pc'[u] \in {"finishing", "done"}
                   /\ pc'[u] = "done" => pc[u] = "done" \/ store'.inst = NoInst
                   /\ result[u] = result'[u] /\ inst'[u] = inst[u]
  PROVE  EndInv'
<1> USE KeptAssumption DEF IndInv, TypeOK
<1>1. /\ store.inst \in Inst \cup {NoInst}
      /\ \A u \in Task : rec[u].inst \in Inst \cup {NoInst} /\ inst[u] \in Inst \cup {NoInst}
  BY DEF Record
<1>2. \A t \in Task : gate'[t] = "commit" =>
        /\ store'.inst # inst'[t]
        /\ \A u \in Task : rec'[u].inst # inst'[t] /\ (u # t => inst'[u] # inst'[t])
  <2> SUFFICES ASSUME NEW t \in Task, gate'[t] = "commit", NEW u \in Task
               PROVE  /\ store'.inst # inst[t] /\ rec'[u].inst # inst[t]
                      /\ u # t => inst'[u] # inst[t]
    OBVIOUS
  <2>1. gate[t] = "commit" /\ inst[t] # NoInst
    BY DEF CallKnows, Knows
  <2> QED BY <2>1 DEF EndInv
<1>3. \A t \in Task : inst'[t] # NoInst => run'[inst'[t]] # "none"
  BY <1>1 DEF RunsForward, EndInv, RecordIsOfProcess
<1>4. \A t \in Task : result'[t] \in Verified =>
        pc'[t] \in {"finishing", "done"} /\ inst'[t] # NoInst /\ run'[inst'[t]] = "swept"
  BY <1>1 DEF RunsForward, EndInv
<1>5. VerifiedEndIsClean'
  BY DEF EndInv, VerifiedEndIsClean, RunsForward
<1> QED BY <1>2, <1>3, <1>4, <1>5 DEF EndInv

\* A forked child is new to every record and call.
LEMMA ForkEnds ==
  ASSUME IndInv, EndInv, RunsForward, NEW t \in Task, GateFork(t)
  PROVE  EndInv'
<1> USE KeptAssumption DEF IndInv, TypeOK
<1>1. CASE UNCHANGED <<run, inst>> /\ GateEnd(t, "failed")
  BY <1>1, EndFrames DEF GateFork, GateEnd, EndInv
<1>2. ASSUME NEW i \in Inst, run[i] = "none", run' = [run EXCEPT ![i] = "gated"],
             inst' = [inst EXCEPT ![t] = i], gate' = [gate EXCEPT ![t] = "commit"]
      PROVE  EndInv'
  <2>1. /\ UNCHANGED <<store, rec, pc, result>> /\ gate[t] = "fork"
        /\ inst[t] = NoInst /\ "commit" \in refs[t]
    BY DEF GateFork, StartKnows, ClaimHeld
  <2>2. /\ store.inst # i /\ \A u \in Task : rec[u].inst # i /\ inst[u] # i
    BY <1>2 DEF RecordIsOfProcess, EndInv
  <2>3. \A u \in Task : inst'[u] = IF u = t THEN i ELSE inst[u]
    BY <1>2
  <2>4. \A u \in Task : gate'[u] = "commit" => u = t
    BY <1>2, <2>1 DEF ClaimExclusive, ClaimHeld
  <2>5. result[t] \notin Verified
    BY <2>1 DEF EndInv
  <2>6. \A u \in Task : gate'[u] = "commit" =>
          /\ store'.inst # inst'[u]
          /\ \A w \in Task : rec'[w].inst # inst'[u] /\ (w # u => inst'[w] # inst'[u])
    BY <2>1, <2>2, <2>3, <2>4
  <2>7. \A u \in Task : inst'[u] # NoInst => run'[inst'[u]] # "none"
    BY <1>2, <2>3 DEF EndInv, RunsForward
  <2>8. \A u \in Task : result'[u] \in Verified =>
          /\ pc'[u] \in {"finishing", "done"} /\ inst'[u] # NoInst
          /\ run'[inst'[u]] = "swept"
    BY <2>1, <2>3, <2>5 DEF EndInv, RunsForward
  <2>9. VerifiedEndIsClean'
    BY <2>1, <2>3, <2>5 DEF EndInv, VerifiedEndIsClean, RunsForward
  <2> QED BY <2>6, <2>7, <2>8, <2>9 DEF EndInv
<1> QED BY <1>1, <1>2 DEF GateFork

\* A commit names an instance that no verified call has ended.
LEMMA CommitEnds ==
  ASSUME IndInv, EndInv, RunsForward, NEW t \in Task, GateCommit(t)
  PROVE  EndInv'
<1> USE KeptAssumption DEF IndInv, TypeOK
<1>1. /\ UNCHANGED <<rec, pc, inst, result>> /\ gate[t] = "commit"
      /\ store'.inst \in {store.inst, inst[t]}
  BY DEF GateCommit
<1>2. \A u \in Task : gate'[u] # "commit"
  <2>1. \A u \in Task : gate[u] = "commit" => u = t
    BY <1>1 DEF ClaimExclusive, ClaimHeld
  <2>2. gate'[t] # "commit" /\ \A u \in Task : u # t => gate'[u] = gate[u]
    BY DEF GateCommit, GateEnd
  <2> QED BY <2>1, <2>2
<1>3. \A u \in Task : inst[u] # NoInst => run'[inst[u]] # "none"
  BY DEF EndInv, RunsForward
<1>4. \A u \in Task : result[u] \in Verified =>
        pc[u] \in {"finishing", "done"} /\ inst[u] # NoInst /\ run'[inst[u]] = "swept"
  BY DEF EndInv, RunsForward
<1>5. VerifiedEndIsClean'
  <2> SUFFICES ASSUME NEW u \in Task, pc[u] = "done", result[u] \in Verified
               PROVE  run'[inst[u]] = "swept" /\ store'.inst # inst[u]
    BY <1>1 DEF VerifiedEndIsClean
  <2>1. u # t
    BY <1>1 DEF CallAlone
  <2> QED BY <1>1, <1>4, <2>1 DEF EndInv, VerifiedEndIsClean
<1> QED BY <1>1, <1>2, <1>3, <1>4, <1>5 DEF EndInv

\* The other steps of a call.  Finish looks at the group before it answers.
LEMMA TaskEnds ==
  ASSUME IndInv, EndInv, RunsForward, NEW t \in Task, TaskStep(t)
  PROVE  EndInv'
<1> USE KeptAssumption DEF IndInv, TypeOK
<1>1. \A u \in Task : result[u] \in Verified => pc[u] \in {"finishing", "done"}
  BY DEF EndInv
<1>2. CASE Claim(t) \/ CallError(t) \/ StartAttach(t) \/ TerminateTimeout(t) \/ ListLive(t)
  <2>1. /\ UNCHANGED <<store, rec, inst, gate>>
        /\ \A u \in Task : u # t => pc'[u] = pc[u] /\ result'[u] = result[u]
        /\ result'[t] \notin Verified
    BY <1>1, <1>2 DEF Claim, CallError, StartAttach, TerminateTimeout, ListLive, Return,
       Goto, Verified
  <2> QED BY <1>1, <2>1, EndFrames
<1>3. CASE ListProbe(t) \/ ListAttach(t) \/ ListReread(t)
  <2>1. /\ UNCHANGED <<store, rec, inst, gate>>
        /\ \A u \in Task : u # t => pc'[u] = pc[u] /\ result'[u] = result[u]
        /\ result'[t] \notin Verified
    BY <1>1, <1>3 DEF ListProbe, ListAttach, ListReread, Queue, Return, Goto, Verified,
       taskVars
  <2> QED BY <1>1, <2>1, EndFrames
<1>4. CASE Read(t)
  <2>1. /\ UNCHANGED <<store, inst, gate>>
        /\ \A u \in Task : u # t => pc'[u] = pc[u] /\ result'[u] = result[u]
        /\ result'[t] \notin Verified
        /\ \A u \in Task : rec'[u] = IF u = t THEN store ELSE rec[u]
    BY <1>1, <1>4 DEF Read, Return, Goto, Verified
  <2> QED BY <1>1, <2>1, EndFrames
<1>5. CASE Launch(t) \/ LaunchReturn(t) \/ ExitedSeen(t) \/ TerminateForce(t)
  <2>1. /\ UNCHANGED <<store, rec, inst, result>>
        /\ \A u \in Task : u # t => pc'[u] = pc[u]
        /\ result[t] \notin Verified
        /\ \A u \in Task : gate'[u] = "commit" => gate[u] = "commit"
    BY <1>1, <1>5 DEF Launch, LaunchReturn, ExitedSeen, TerminateForce, Goto, taskVars
  <2> QED BY <1>1, <2>1, EndFrames
<1>6. CASE AdoptAttach(t)
  <2>1. /\ UNCHANGED <<store, rec, gate, result>>
        /\ \A u \in Task : u # t => pc'[u] = pc[u] /\ inst'[u] = inst[u]
        /\ result[t] \notin Verified /\ pc[t] = "attach"
        /\ inst'[t] \in {inst[t], rec[t].inst}
    BY <1>1, <1>6 DEF AdoptAttach, Goto
  <2>2. gate[t] # "commit"
    BY <2>1 DEF CallAlone
  <2> QED BY <1>1, <2>1, <2>2, EndFrames
<1>7. CASE TerminateExit(t)
  <2>1. /\ UNCHANGED <<store, rec, inst, gate, run>>
        /\ \A u \in Task : u # t => pc'[u] = pc[u] /\ result'[u] = result[u]
        /\ pc[t] \in {"grace", "force"} /\ pc'[t] = "finishing" /\ Published(inst[t])
        /\ result'[t] \in Verified => run[inst[t]] # "straggling"
    BY <1>7 DEF TerminateExit, Finish, Goto, Verified
  <2>2. inst[t] # NoInst
    BY <2>1 DEF CallKnows, Knows
  <2> QED BY <1>1, <2>1, <2>2, EndFrames DEF Published
<1> QED BY <1>2, <1>3, <1>4, <1>5, <1>6, <1>7 DEF TaskStep

\* A removal under "finishing" that succeeds leaves no record; one that fails
\* makes the result unverified.  A rewrite names what the store names.
LEMMA WorkEnds ==
  ASSUME IndInv, EndInv, RunsForward, NEW t \in Task, Work(t)
  PROVE  EndInv'
<1> USE KeptAssumption DEF IndInv, TypeOK
<1>1. /\ UNCHANGED <<rec, inst, gate>> /\ work[t] # "none"
      /\ \A u \in Task : u # t => pc'[u] = pc[u] /\ result'[u] = result[u]
      /\ pc'[t] = AfterWork(t)
  BY DEF Work, Goto
<1>2. store'.inst # NoInst => store'.inst = store.inst
  BY <1>1 DEF Work, LateWorkIsSafe, NoRecord
<1>3. result'[t] \in Verified =>
        /\ result'[t] = result[t]
        /\ pc[t] = "finishing" => store' = NoRecord
  <2>1. work[t] = "rewrite" => pc[t] # "finishing"
    BY DEF CallAlone
  <2> QED BY <1>1, <2>1 DEF Work, WorkResult, Verified
<1>4. result[t] \in Verified => pc[t] \in {"finishing", "done"}
  BY DEF EndInv
<1>5. pc[t] = "finishing" => pc'[t] = "done"
  BY <1>1 DEF AfterWork
<1>6. pc[t] = "done" => pc'[t] = "done"
  BY <1>1 DEF AfterWork
<1>7. \A u \in Task : result[u] \in Verified => pc[u] \in {"finishing", "done"}
  BY DEF EndInv
<1> QED BY <1>1, <1>2, <1>3, <1>4, <1>5, <1>6, <1>7, EndFrames DEF NoRecord

\* What the program does with its handle or its future, and its death.
LEMMA OwnerEnds ==
  ASSUME IndInv, EndInv, RunsForward, NEW t \in Task, OwnerStep(t)
  PROVE  EndInv'
<1> USE KeptAssumption DEF IndInv, TypeOK
<1>1. \A u \in Task : result[u] \in Verified => pc[u] \in {"finishing", "done"}
  BY DEF EndInv
<1>2. CASE TerminateCall(t)
  <2>1. /\ UNCHANGED <<store, rec, inst, gate, run>>
        /\ \A u \in Task : u # t => pc'[u] = pc[u] /\ result'[u] = result[u]
        /\ pc[t] = "held"
        /\ result'[t] \in Verified =>
             pc'[t] = "finishing" /\ Published(inst[t]) /\ run[inst[t]] # "straggling"
    BY <1>1, <1>2 DEF TerminateCall, Finish, Goto, Verified
  <2>2. inst[t] # NoInst
    BY <2>1 DEF CallKnows, Knows
  <2> QED BY <1>1, <2>1, <2>2, EndFrames DEF Published
<1>3. CASE ExitedCall(t)
  <2>1. /\ UNCHANGED <<store, rec, inst, gate, result>> /\ result[t] \notin Verified
        /\ \A u \in Task : u # t => pc'[u] = pc[u]
    BY <1>1, <1>3 DEF ExitedCall, Goto, taskVars
  <2> QED BY <1>1, <2>1, EndFrames
<1>4. CASE \/ \E o \in {"start", "adopt", "list"} : Call(t, o)
           \/ Release(t) \/ Cancel(t) \/ Crash(t)
  <2>1. /\ UNCHANGED store
        /\ \A u \in Task : u # t => /\ pc'[u] = pc[u] /\ result'[u] = result[u]
                                    /\ rec'[u] = rec[u] /\ inst'[u] = inst[u]
                                    /\ gate'[u] = gate[u]
    BY <1>4 DEF Call, Release, Cancel, Crash, Forget, Goto
  <2>2. /\ result'[t] \notin Verified
        /\ rec'[t].inst \in {rec[t].inst, NoInst} /\ inst'[t] \in {inst[t], NoInst}
        /\ gate'[t] = "commit" => gate[t] = "commit" /\ inst'[t] = inst[t]
    <3>1. CASE \E o \in {"start", "adopt", "list"} : Call(t, o)
      BY <3>1 DEF Call, Idle, NoRecord, Verified
    <3>2. CASE Release(t) \/ Cancel(t)
      BY <1>1, <3>2 DEF Release, Cancel, Forget, NoRecord, Verified
    <3>3. CASE Crash(t)
      BY <3>3 DEF Crash, Forget, NoRecord, Verified
    <3> QED BY <1>4, <3>1, <3>2, <3>3
  <2> QED BY <1>1, <2>1, <2>2, EndFrames
<1> QED BY <1>2, <1>3, <1>4 DEF OwnerStep

LEMMA NextEndInv == IndInv /\ EndInv /\ [Next]_vars => EndInv'
<1> SUFFICES ASSUME IndInv, EndInv, [Next]_vars PROVE EndInv'
  OBVIOUS
<1>1. RunsForward
  BY NextRuns
<1>2. \A u \in Task : result[u] \in Verified => pc[u] \in {"finishing", "done"}
  BY DEF EndInv
<1>3. CASE UNCHANGED <<store, rec, inst, gate, result, pc>>
  BY <1>1, <1>2, <1>3, EndFrames
<1>4. CASE UNCHANGED vars
  BY <1>3, <1>4 DEF vars
<1>5. ASSUME NEW i \in Inst, Die(i) \/ Sweep(i) \/ GatedEof(i) PROVE EndInv'
  BY <1>3, <1>5 DEF Die, Sweep, GatedEof, taskVars
<1>6. ASSUME NEW t \in Task, GateStep(t) PROVE EndInv'
  <2>1. CASE GateGo(t)
    <3>1. /\ UNCHANGED <<store, rec, inst, result, pc>>
          /\ \A u \in Task : gate'[u] = "commit" => gate[u] = "commit"
      BY <2>1 DEF GateGo, GateEnd, IndInv, TypeOK
    <3> QED BY <1>1, <1>2, <3>1, EndFrames
  <2> QED BY <1>1, <1>6, <2>1, ForkEnds, CommitEnds DEF GateStep
<1>7. ASSUME NEW t \in Task, TaskStep(t) \/ Work(t) \/ OwnerStep(t) PROVE EndInv'
  BY <1>1, <1>7, TaskEnds, WorkEnds, OwnerEnds
<1> QED BY <1>4, <1>5, <1>6, <1>7 DEF Next

\* A termination that returns a verified outcome has seen the leader gone and
\* its group empty, and no launch, rewrite or failed removal of another call
\* brings the record of that process back, then or later.
THEOREM VerifiedEndStaysClean == Spec => []VerifiedEndIsClean
<1>1. Init => EndInv
  BY DEF Init, EndInv, VerifiedEndIsClean, Verified
<1>2. IndInv /\ EndInv /\ [Next]_vars => EndInv'
  BY NextEndInv
<1>3. EndInv => VerifiedEndIsClean
  BY DEF EndInv
<1> QED BY <1>1, <1>2, <1>3, KeptInvariant, PTL DEF Spec

-----------------------------------------------------------------------------
(* Services, kept (k is TRUE) and scoped.  RunIsHeld ties the run of a runner *)
(* to where it is in its loop and to the claim, OneRunner makes runners of an *)
(* owner exclusive until a final status is published, and RecordLeads makes   *)
(* those of a kept name exclusive: one lemma per action, one step per         *)
(* conjunct of the invariant that Service calls IndInv.                       *)

\* The exit of a leader leaves its record and its holder.
LEMMA ServiceExit ==
  ASSUME NEW CONSTANT k \in BOOLEAN, Services(k)!IndInv,
         NEW i \in Run, Services(k)!Exit(i)
  PROVE  Services(k)!IndInv'
<1> USE LaunchAssumption DEF Services!IndInv, Services!TypeOK, Services!Exit,
        Services!Goto, Services!publish, Services!is_final, Services!Final,
        Services!world, Services!removal, Services!loop
<1>1. Services(k)!TypeOK'
  BY DEF Services!Status, Services!ServiceStop, Services!ServiceStopped,
     Services!RunIsHeld, Services!OneRunner, Services!Wait
<1>2. Services(k)!RunIsHeld'
  BY DEF Services!RunIsHeld
<1>3. Services(k)!OneRunner'
  BY DEF Services!OneRunner, Services!RunIsHeld
<1>4. Services(k)!MayAdoptFirst'
  BY DEF Services!MayAdoptFirst
<1>5. Services(k)!RecordLeads'
  BY DEF Services!RecordLeads, Services!LiveRunIsRecorded, Services!RunIsHeld
<1>6. Services(k)!NoOrphan'
  BY DEF Services!NoOrphan, Services!Alive, Services!RunIsHeld
<1>7. Services(k)!MatchingRunIsNotReplaced'
  BY DEF Services!MatchingRunIsNotReplaced, Services!MayAdoptFirst,
     Services!RunIsHeld
<1>8. Services(k)!VerifiedStopIsClean'
  BY DEF Services!VerifiedStopIsClean, Services!Alive, Services!RunIsHeld,
     Services!RecordLeads, Services!LiveRunIsRecorded
<1> QED BY <1>1, <1>2, <1>3, <1>4, <1>5, <1>6, <1>7, <1>8

\* A sweep finds a leader that is gone already.
LEMMA ServiceSweep ==
  ASSUME NEW CONSTANT k \in BOOLEAN, Services(k)!IndInv,
         NEW i \in Run, Services(k)!Sweep(i)
  PROVE  Services(k)!IndInv'
<1> USE LaunchAssumption DEF Services!IndInv, Services!TypeOK, Services!Sweep,
        Services!Goto, Services!publish, Services!is_final, Services!Final,
        Services!world, Services!removal, Services!loop
<1>1. Services(k)!TypeOK'
  BY DEF Services!Status, Services!ServiceStop, Services!ServiceStopped,
     Services!RunIsHeld, Services!OneRunner, Services!Wait
<1>2. Services(k)!RunIsHeld'
  BY DEF Services!RunIsHeld
<1>3. Services(k)!OneRunner'
  BY DEF Services!OneRunner, Services!RunIsHeld
<1>4. Services(k)!MayAdoptFirst'
  BY DEF Services!MayAdoptFirst
<1>5. Services(k)!RecordLeads'
  BY DEF Services!RecordLeads, Services!LiveRunIsRecorded, Services!RunIsHeld
<1>6. Services(k)!NoOrphan'
  BY DEF Services!NoOrphan, Services!Alive, Services!RunIsHeld
<1>7. Services(k)!MatchingRunIsNotReplaced'
  BY DEF Services!MatchingRunIsNotReplaced, Services!MayAdoptFirst,
     Services!RunIsHeld
<1>8. Services(k)!VerifiedStopIsClean'
  BY DEF Services!VerifiedStopIsClean, Services!Alive, Services!RunIsHeld,
     Services!RecordLeads, Services!LiveRunIsRecorded
<1> QED BY <1>1, <1>2, <1>3, <1>4, <1>5, <1>6, <1>7, <1>8

\* A service is admitted when its owner has no runner that goes on.
LEMMA ServiceAdmit ==
  ASSUME NEW CONSTANT k \in BOOLEAN, Services(k)!IndInv,
         NEW r \in Task, NEW o \in IF k THEN Owner ELSE ScopedOwner, Services(k)!ServiceStart(r, o)
  PROVE  Services(k)!IndInv'
<1> USE LaunchAssumption DEF Services!IndInv, Services!TypeOK,
        Services!ServiceStart, Services!Goto, Services!publish, Services!is_final,
        Services!Final, Services!world, Services!removal, Services!loop, Services!InUse
<1>1. Services(k)!TypeOK'
  BY DEF Services!Status, Services!ServiceStop, Services!ServiceStopped,
     Services!RunIsHeld, Services!OneRunner, Services!Wait
<1>2. Services(k)!RunIsHeld'
  BY DEF Services!RunIsHeld
<1>3. Services(k)!OneRunner'
  BY DEF Services!OneRunner, Services!RunIsHeld
<1>4. Services(k)!MayAdoptFirst'
  BY DEF Services!MayAdoptFirst
<1>5. Services(k)!RecordLeads'
  BY DEF Services!RecordLeads, Services!LiveRunIsRecorded, Services!RunIsHeld
<1>6. Services(k)!NoOrphan'
  BY DEF Services!NoOrphan, Services!Alive, Services!RunIsHeld
<1>7. Services(k)!MatchingRunIsNotReplaced'
  BY DEF Services!MatchingRunIsNotReplaced, Services!MayAdoptFirst,
     Services!RunIsHeld
<1>8. Services(k)!VerifiedStopIsClean'
  BY DEF Services!VerifiedStopIsClean, Services!Alive, Services!RunIsHeld,
     Services!RecordLeads, Services!LiveRunIsRecorded
<1> QED BY <1>1, <1>2, <1>3, <1>4, <1>5, <1>6, <1>7, <1>8

\* A stop is only noted.
LEMMA ServiceHandleStop ==
  ASSUME NEW CONSTANT k \in BOOLEAN, Services(k)!IndInv,
         NEW r \in Task, NEW how \in Services(k)!ServiceStop, Services(k)!HandleStop(r, how)
  PROVE  Services(k)!IndInv'
<1> USE LaunchAssumption DEF Services!IndInv, Services!TypeOK,
        Services!HandleStop, Services!Goto, Services!publish, Services!is_final,
        Services!Final, Services!world, Services!removal, Services!loop
<1>1. Services(k)!TypeOK'
  BY DEF Services!Status, Services!ServiceStop, Services!ServiceStopped,
     Services!RunIsHeld, Services!OneRunner, Services!Wait
<1>2. Services(k)!RunIsHeld'
  BY DEF Services!RunIsHeld
<1>3. Services(k)!OneRunner'
  BY DEF Services!OneRunner, Services!RunIsHeld
<1>4. Services(k)!MayAdoptFirst'
  BY DEF Services!MayAdoptFirst
<1>5. Services(k)!RecordLeads'
  BY DEF Services!RecordLeads, Services!LiveRunIsRecorded, Services!RunIsHeld
<1>6. Services(k)!NoOrphan'
  BY DEF Services!NoOrphan, Services!Alive, Services!RunIsHeld
<1>7. Services(k)!MatchingRunIsNotReplaced'
  BY DEF Services!MatchingRunIsNotReplaced, Services!MayAdoptFirst,
     Services!RunIsHeld
<1>8. Services(k)!VerifiedStopIsClean'
  BY DEF Services!VerifiedStopIsClean, Services!Alive, Services!RunIsHeld,
     Services!RecordLeads, Services!LiveRunIsRecorded
<1> QED BY <1>1, <1>2, <1>3, <1>4, <1>5, <1>6, <1>7, <1>8

\* A runner that backs off has no run.
LEMMA ServiceBackoff ==
  ASSUME NEW CONSTANT k \in BOOLEAN, Services(k)!IndInv,
         NEW r \in Task, Services(k)!Backoff(r)
  PROVE  Services(k)!IndInv'
<1> USE LaunchAssumption DEF Services!IndInv, Services!TypeOK, Services!Backoff,
        Services!Goto, Services!publish, Services!is_final, Services!Final,
        Services!world, Services!removal, Services!loop, Services!Asked
<1>1. Services(k)!TypeOK'
  BY DEF Services!Status, Services!ServiceStop, Services!ServiceStopped,
     Services!RunIsHeld, Services!OneRunner, Services!Wait
<1>2. Services(k)!RunIsHeld'
  BY DEF Services!RunIsHeld
<1>3. Services(k)!OneRunner'
  BY DEF Services!OneRunner, Services!RunIsHeld
<1>4. Services(k)!MayAdoptFirst'
  BY DEF Services!MayAdoptFirst
<1>5. Services(k)!RecordLeads'
  BY DEF Services!RecordLeads, Services!LiveRunIsRecorded, Services!RunIsHeld
<1>6. Services(k)!NoOrphan'
  BY DEF Services!NoOrphan, Services!Alive, Services!RunIsHeld
<1>7. Services(k)!MatchingRunIsNotReplaced'
  BY DEF Services!MatchingRunIsNotReplaced, Services!MayAdoptFirst,
     Services!RunIsHeld
<1>8. Services(k)!VerifiedStopIsClean'
  BY DEF Services!VerifiedStopIsClean, Services!Alive, Services!RunIsHeld,
     Services!RecordLeads, Services!LiveRunIsRecorded
<1> QED BY <1>1, <1>2, <1>3, <1>4, <1>5, <1>6, <1>7, <1>8

\* A launch that is asked for or fails leaves all runs alone.
LEMMA ServiceLaunch ==
  ASSUME NEW CONSTANT k \in BOOLEAN, Services(k)!IndInv,
         NEW r \in Task, Services(k)!Launch(r)
  PROVE  Services(k)!IndInv'
<1> USE LaunchAssumption DEF Services!IndInv, Services!TypeOK, Services!Launch,
        Services!Goto, Services!publish, Services!is_final, Services!Final,
        Services!world, Services!removal, Services!loop, Services!Asked, Services!Finish,
        Services!Failed, Services!gives_up
<1>1. Services(k)!TypeOK'
  BY DEF Services!Status, Services!ServiceStop, Services!ServiceStopped,
     Services!RunIsHeld, Services!OneRunner, Services!Wait
<1>2. Services(k)!RunIsHeld'
  BY DEF Services!RunIsHeld
<1>3. Services(k)!OneRunner'
  BY DEF Services!OneRunner, Services!RunIsHeld
<1>4. Services(k)!MayAdoptFirst'
  BY DEF Services!MayAdoptFirst
<1>5. Services(k)!RecordLeads'
  BY DEF Services!RecordLeads, Services!LiveRunIsRecorded, Services!RunIsHeld
<1>6. Services(k)!NoOrphan'
  BY DEF Services!NoOrphan, Services!Alive, Services!RunIsHeld
<1>7. Services(k)!MatchingRunIsNotReplaced'
  BY DEF Services!MatchingRunIsNotReplaced, Services!MayAdoptFirst,
     Services!RunIsHeld
<1>8. Services(k)!VerifiedStopIsClean'
  BY DEF Services!VerifiedStopIsClean, Services!Alive, Services!RunIsHeld,
     Services!RecordLeads, Services!LiveRunIsRecorded
<1> QED BY <1>1, <1>2, <1>3, <1>4, <1>5, <1>6, <1>7, <1>8

\* The claim is free, so nobody holds the run that the record names.
LEMMA ServiceAdopt ==
  ASSUME NEW CONSTANT k \in BOOLEAN, Services(k)!IndInv,
         NEW r \in Task, Services(k)!Adopt(r)
  PROVE  Services(k)!IndInv'
<1> USE LaunchAssumption DEF Services!IndInv, Services!TypeOK, Services!Adopt,
        Services!Goto, Services!publish, Services!is_final, Services!Final,
        Services!world, Services!removal, Services!loop, Services!StartFailed, Services!LaunchUsed, Services!Failed,
        Services!gives_up, Services!Started, Services!Matches,
        Services!Unclaimed, Services!RecordIsStale
<1>1. Services(k)!TypeOK'
  <2>1. life' \in [Run -> {"none", "running", "exited", "left", "gone"}]
    BY DEF Services!RunIsHeld
  <2>2. fate' \in [Run -> {"none", "held", "ended", "unverified", "released",
                            "crashed"}]
    BY DEF Services!RunIsHeld
  <2>3. recorded' \in Run \cup {Nobody} /\ claim' \in Task \cup {Nobody}
    BY DEF Services!RunIsHeld
  <2>4. /\ runnerPc' \in [Task -> {"off", "backoff", "launching", "adopting",
                       "replacing", "spawning", "waiting", "ready", "ending",
                       "finishing", "done"}]
        /\ status' \in [Task -> Services(k)!Status]
    BY DEF Services!Status
  <2>5. failures' \in [Task -> 0..((IF k THEN MaxFailures ELSE ScopedFailures) + 1)]
    BY DEF Services!OneRunner
  <2>6. held' \in [Task -> Run \cup {Nobody}] /\ stopped' \in [Task -> Services(k)!ServiceStopped]
    BY DEF Services!ServiceStopped
  <2>7. /\ mark' \in [Run -> (IF k THEN Fp ELSE ScopedFp) \cup {Nobody}]
        /\ fp' \in [Task -> (IF k THEN Fp ELSE ScopedFp) \cup {Nobody}]
        /\ home' \in [Task -> (IF k THEN Owner ELSE ScopedOwner) \cup {Nobody}]
        /\ mayAdopt' \in [Task -> BOOLEAN] /\ had' \in [Task -> BOOLEAN]
        /\ forgets' \in [Task -> SUBSET Services(k)!Wait] /\ seen' \in [Task -> BOOLEAN]
        /\ stop' \in [Task -> {"open"} \cup Services(k)!ServiceStop]
    OBVIOUS
  <2> QED BY <2>1, <2>2, <2>3, <2>4, <2>5, <2>6, <2>7
<1>2. Services(k)!RunIsHeld'
  BY DEF Services!RunIsHeld
<1>3. Services(k)!OneRunner'
  BY DEF Services!OneRunner, Services!RunIsHeld
<1>4. Services(k)!MayAdoptFirst'
  BY DEF Services!MayAdoptFirst
<1>5. Services(k)!RecordLeads'
  BY DEF Services!RecordLeads, Services!LiveRunIsRecorded, Services!RunIsHeld
<1>6. Services(k)!NoOrphan'
  BY DEF Services!NoOrphan, Services!Alive, Services!RunIsHeld
<1>7. Services(k)!MatchingRunIsNotReplaced'
  BY DEF Services!MatchingRunIsNotReplaced, Services!MayAdoptFirst,
     Services!RunIsHeld
<1>8. Services(k)!VerifiedStopIsClean'
  BY DEF Services!VerifiedStopIsClean, Services!Alive, Services!RunIsHeld,
     Services!RecordLeads, Services!LiveRunIsRecorded
<1> QED BY <1>1, <1>2, <1>3, <1>4, <1>5, <1>6, <1>7, <1>8

\* A replaced run was the recorded one.
LEMMA ServiceReplace ==
  ASSUME NEW CONSTANT k \in BOOLEAN, Services(k)!IndInv,
         NEW r \in Task, Services(k)!Replace(r)
  PROVE  Services(k)!IndInv'
<1> USE LaunchAssumption DEF Services!IndInv, Services!TypeOK, Services!Replace,
        Services!Goto, Services!publish, Services!is_final, Services!Final,
        Services!world, Services!removal, Services!loop, Services!End, Services!DropRun,
        Services!StartFailed, Services!LaunchUsed, Services!Failed, Services!gives_up
<1>1. Services(k)!TypeOK'
  <2>1. life' \in [Run -> {"none", "running", "exited", "left", "gone"}]
    BY DEF Services!RunIsHeld
  <2>2. fate' \in [Run -> {"none", "held", "ended", "unverified", "released",
                            "crashed"}]
    BY DEF Services!RunIsHeld
  <2>3. recorded' \in Run \cup {Nobody} /\ claim' \in Task \cup {Nobody}
    BY DEF Services!RunIsHeld
  <2>4. /\ runnerPc' \in [Task -> {"off", "backoff", "launching", "adopting",
                       "replacing", "spawning", "waiting", "ready", "ending",
                       "finishing", "done"}]
        /\ status' \in [Task -> Services(k)!Status]
    BY DEF Services!Status
  <2>5. failures' \in [Task -> 0..((IF k THEN MaxFailures ELSE ScopedFailures) + 1)]
    BY DEF Services!OneRunner
  <2>6. held' \in [Task -> Run \cup {Nobody}] /\ stopped' \in [Task -> Services(k)!ServiceStopped]
    BY DEF Services!ServiceStopped
  <2>7. /\ mark' \in [Run -> (IF k THEN Fp ELSE ScopedFp) \cup {Nobody}]
        /\ fp' \in [Task -> (IF k THEN Fp ELSE ScopedFp) \cup {Nobody}]
        /\ home' \in [Task -> (IF k THEN Owner ELSE ScopedOwner) \cup {Nobody}]
        /\ mayAdopt' \in [Task -> BOOLEAN] /\ had' \in [Task -> BOOLEAN]
        /\ forgets' \in [Task -> SUBSET Services(k)!Wait] /\ seen' \in [Task -> BOOLEAN]
        /\ stop' \in [Task -> {"open"} \cup Services(k)!ServiceStop]
    OBVIOUS
  <2> QED BY <2>1, <2>2, <2>3, <2>4, <2>5, <2>6, <2>7
<1>2. Services(k)!RunIsHeld'
  BY DEF Services!RunIsHeld
<1>3. Services(k)!OneRunner'
  BY DEF Services!OneRunner, Services!RunIsHeld
<1>4. Services(k)!MayAdoptFirst'
  BY DEF Services!MayAdoptFirst
<1>5. Services(k)!RecordLeads'
  BY DEF Services!RecordLeads, Services!LiveRunIsRecorded, Services!RunIsHeld
<1>6. Services(k)!NoOrphan'
  BY DEF Services!NoOrphan, Services!Alive, Services!RunIsHeld
<1>7. Services(k)!MatchingRunIsNotReplaced'
  BY DEF Services!MatchingRunIsNotReplaced, Services!MayAdoptFirst,
     Services!RunIsHeld
<1>8. Services(k)!VerifiedStopIsClean'
  BY DEF Services!VerifiedStopIsClean, Services!Alive, Services!RunIsHeld,
     Services!RecordLeads, Services!LiveRunIsRecorded
<1> QED BY <1>1, <1>2, <1>3, <1>4, <1>5, <1>6, <1>7, <1>8

\* A new run is recorded before anyone else can look for it.
LEMMA ServiceSpawn ==
  ASSUME NEW CONSTANT k \in BOOLEAN, Services(k)!IndInv,
         NEW r \in Task, Services(k)!Spawn(r)
  PROVE  Services(k)!IndInv'
<1> USE LaunchAssumption DEF Services!IndInv, Services!TypeOK, Services!Spawn,
        Services!Goto, Services!publish, Services!is_final, Services!Final,
        Services!world, Services!removal, Services!loop, Services!NewRun, Services!Started,
        Services!Unclaimed, Services!RecordIsStale, Services!StartFailed,
        Services!LaunchUsed, Services!Failed, Services!gives_up
<1>1. Services(k)!TypeOK'
  <2>1. life' \in [Run -> {"none", "running", "exited", "left", "gone"}]
    BY DEF Services!RunIsHeld
  <2>2. fate' \in [Run -> {"none", "held", "ended", "unverified", "released",
                            "crashed"}]
    BY DEF Services!RunIsHeld
  <2>3. recorded' \in Run \cup {Nobody} /\ claim' \in Task \cup {Nobody}
    BY DEF Services!RunIsHeld
  <2>4. /\ runnerPc' \in [Task -> {"off", "backoff", "launching", "adopting",
                       "replacing", "spawning", "waiting", "ready", "ending",
                       "finishing", "done"}]
        /\ status' \in [Task -> Services(k)!Status]
    BY DEF Services!Status
  <2>5. failures' \in [Task -> 0..((IF k THEN MaxFailures ELSE ScopedFailures) + 1)]
    BY DEF Services!OneRunner
  <2>6. held' \in [Task -> Run \cup {Nobody}] /\ stopped' \in [Task -> Services(k)!ServiceStopped]
    BY DEF Services!ServiceStopped
  <2>7. /\ mark' \in [Run -> (IF k THEN Fp ELSE ScopedFp) \cup {Nobody}]
        /\ fp' \in [Task -> (IF k THEN Fp ELSE ScopedFp) \cup {Nobody}]
    OBVIOUS
  <2>8. /\ home' \in [Task -> (IF k THEN Owner ELSE ScopedOwner) \cup {Nobody}]
        /\ mayAdopt' \in [Task -> BOOLEAN] /\ had' \in [Task -> BOOLEAN]
        /\ stop' \in [Task -> {"open"} \cup Services(k)!ServiceStop]
    OBVIOUS
  <2>9. forgets' \in [Task -> SUBSET Services(k)!Wait] /\ seen' \in [Task -> BOOLEAN]
    OBVIOUS
  <2> QED BY <2>1, <2>2, <2>3, <2>4, <2>5, <2>6, <2>7, <2>8, <2>9
<1>2. Services(k)!RunIsHeld'
  BY DEF Services!RunIsHeld
<1>3. Services(k)!OneRunner'
  BY DEF Services!OneRunner, Services!RunIsHeld
<1>4. Services(k)!MayAdoptFirst'
  BY DEF Services!MayAdoptFirst
<1>5. Services(k)!RecordLeads'
  BY DEF Services!RecordLeads, Services!LiveRunIsRecorded, Services!RunIsHeld
<1>6. Services(k)!NoOrphan'
  BY DEF Services!NoOrphan, Services!Alive, Services!RunIsHeld
<1>7. Services(k)!MatchingRunIsNotReplaced'
  BY DEF Services!MatchingRunIsNotReplaced, Services!MayAdoptFirst,
     Services!RunIsHeld
<1>8. Services(k)!VerifiedStopIsClean'
  BY DEF Services!VerifiedStopIsClean, Services!Alive, Services!RunIsHeld,
     Services!RecordLeads, Services!LiveRunIsRecorded
<1> QED BY <1>1, <1>2, <1>3, <1>4, <1>5, <1>6, <1>7, <1>8

\* The exit is seen of a run that is gone: the record names it or nothing, so
\* nothing runs when the removal starts.
LEMMA ServiceExitSeen ==
  ASSUME NEW CONSTANT k \in BOOLEAN, Services(k)!IndInv,
         NEW r \in Task, Services(k)!ExitSeen(r)
  PROVE  Services(k)!IndInv'
<1> USE LaunchAssumption DEF Services!IndInv, Services!TypeOK,
        Services!ExitSeen, Services!is_final, Services!Final, Services!loop,
        Services!Asked, Services!Wait
<1>1. Services(k)!TypeOK'
  BY DEF Services!Status, Services!ServiceStop, Services!ServiceStopped,
     Services!RunIsHeld, Services!OneRunner, Services!Wait
<1>2. Services(k)!RunIsHeld'
  BY DEF Services!RunIsHeld
<1>3. Services(k)!OneRunner'
  BY DEF Services!OneRunner, Services!RunIsHeld
<1>4. Services(k)!MayAdoptFirst'
  BY DEF Services!MayAdoptFirst
<1>5. Services(k)!RecordLeads'
  BY DEF Services!RecordLeads, Services!LiveRunIsRecorded, Services!RunIsHeld
<1>6. Services(k)!NoOrphan'
  BY DEF Services!NoOrphan, Services!Alive, Services!RunIsHeld
<1>7. Services(k)!MatchingRunIsNotReplaced'
  BY DEF Services!MatchingRunIsNotReplaced, Services!MayAdoptFirst,
     Services!RunIsHeld
<1>8. Services(k)!VerifiedStopIsClean'
  BY DEF Services!VerifiedStopIsClean, Services!Alive, Services!RunIsHeld,
     Services!RecordLeads, Services!LiveRunIsRecorded
<1> QED BY <1>1, <1>2, <1>3, <1>4, <1>5, <1>6, <1>7, <1>8

\* Nothing runs while a removal does, so it removes the record of no live run.
LEMMA ServiceForgetEnd ==
  ASSUME NEW CONSTANT k \in BOOLEAN, Services(k)!IndInv, NEW r \in Task,
         NEW p \in Services(k)!Wait, Services(k)!ForgetEnd(r, p)
  PROVE  Services(k)!IndInv'
<1> USE LaunchAssumption DEF Services!IndInv, Services!TypeOK,
        Services!ForgetEnd, Services!is_final, Services!Final, Services!loop
<1>1. Services(k)!TypeOK'
  BY DEF Services!Status, Services!ServiceStop, Services!ServiceStopped,
     Services!RunIsHeld, Services!OneRunner, Services!Wait
<1>2. Services(k)!RunIsHeld'
  BY DEF Services!RunIsHeld
<1>3. Services(k)!OneRunner'
  BY DEF Services!OneRunner, Services!RunIsHeld
<1>4. Services(k)!MayAdoptFirst'
  BY DEF Services!MayAdoptFirst
<1>5. Services(k)!RecordLeads'
  BY DEF Services!RecordLeads, Services!LiveRunIsRecorded, Services!RunIsHeld
<1>6. Services(k)!NoOrphan'
  BY DEF Services!NoOrphan, Services!Alive, Services!RunIsHeld
<1>7. Services(k)!MatchingRunIsNotReplaced'
  BY DEF Services!MatchingRunIsNotReplaced, Services!MayAdoptFirst,
     Services!RunIsHeld
<1>8. Services(k)!VerifiedStopIsClean'
  BY DEF Services!VerifiedStopIsClean, Services!Alive, Services!RunIsHeld,
     Services!RecordLeads, Services!LiveRunIsRecorded
<1> QED BY <1>1, <1>2, <1>3, <1>4, <1>5, <1>6, <1>7, <1>8

\* A wait that ends, or is given up, leaves its removal to the thread.
LEMMA ServiceUntilReady ==
  ASSUME NEW CONSTANT k \in BOOLEAN, Services(k)!IndInv,
         NEW r \in Task, Services(k)!UntilReady(r)
  PROVE  Services(k)!IndInv'
<1> USE LaunchAssumption DEF Services!IndInv, Services!TypeOK,
        Services!UntilReady, Services!Goto, Services!publish, Services!is_final,
        Services!Final, Services!world, Services!removal, Services!loop, Services!Asked,
        Services!Finish, Services!Waited
<1>1. Services(k)!TypeOK'
  BY DEF Services!Status, Services!ServiceStop, Services!ServiceStopped,
     Services!RunIsHeld, Services!OneRunner, Services!Wait
<1>2. Services(k)!RunIsHeld'
  BY DEF Services!RunIsHeld
<1>3. Services(k)!OneRunner'
  BY DEF Services!OneRunner, Services!RunIsHeld
<1>4. Services(k)!MayAdoptFirst'
  BY DEF Services!MayAdoptFirst
<1>5. Services(k)!RecordLeads'
  BY DEF Services!RecordLeads, Services!LiveRunIsRecorded, Services!RunIsHeld
<1>6. Services(k)!NoOrphan'
  BY DEF Services!NoOrphan, Services!Alive, Services!RunIsHeld
<1>7. Services(k)!MatchingRunIsNotReplaced'
  BY DEF Services!MatchingRunIsNotReplaced, Services!MayAdoptFirst,
     Services!RunIsHeld
<1>8. Services(k)!VerifiedStopIsClean'
  BY DEF Services!VerifiedStopIsClean, Services!Alive, Services!RunIsHeld,
     Services!RecordLeads, Services!LiveRunIsRecorded
<1> QED BY <1>1, <1>2, <1>3, <1>4, <1>5, <1>6, <1>7, <1>8

\* So does the wait for the exit of a run that was ready.
LEMMA ServiceRunning ==
  ASSUME NEW CONSTANT k \in BOOLEAN, Services(k)!IndInv,
         NEW r \in Task, Services(k)!Running(r)
  PROVE  Services(k)!IndInv'
<1> USE LaunchAssumption DEF Services!IndInv, Services!TypeOK, Services!Running,
        Services!Goto, Services!publish, Services!is_final, Services!Final,
        Services!world, Services!removal, Services!loop, Services!Asked, Services!Finish,
        Services!Waited, Services!Exited
<1>1. Services(k)!TypeOK'
  BY DEF Services!Status, Services!ServiceStop, Services!ServiceStopped,
     Services!RunIsHeld, Services!OneRunner, Services!Wait
<1>2. Services(k)!RunIsHeld'
  BY DEF Services!RunIsHeld
<1>3. Services(k)!OneRunner'
  BY DEF Services!OneRunner, Services!RunIsHeld
<1>4. Services(k)!MayAdoptFirst'
  BY DEF Services!MayAdoptFirst
<1>5. Services(k)!RecordLeads'
  BY DEF Services!RecordLeads, Services!LiveRunIsRecorded, Services!RunIsHeld
<1>6. Services(k)!NoOrphan'
  BY DEF Services!NoOrphan, Services!Alive, Services!RunIsHeld
<1>7. Services(k)!MatchingRunIsNotReplaced'
  BY DEF Services!MatchingRunIsNotReplaced, Services!MayAdoptFirst,
     Services!RunIsHeld
<1>8. Services(k)!VerifiedStopIsClean'
  BY DEF Services!VerifiedStopIsClean, Services!Alive, Services!RunIsHeld,
     Services!RecordLeads, Services!LiveRunIsRecorded
<1> QED BY <1>1, <1>2, <1>3, <1>4, <1>5, <1>6, <1>7, <1>8

\* A failed wait changes the runner only.
LEMMA ServiceWaitFailed ==
  ASSUME NEW CONSTANT k \in BOOLEAN, Services(k)!IndInv,
         NEW r \in Task, Services(k)!WaitFailed(r)
  PROVE  Services(k)!IndInv'
<1> USE LaunchAssumption DEF Services!IndInv, Services!TypeOK,
        Services!WaitFailed, Services!Goto, Services!publish, Services!is_final,
        Services!Final, Services!world, Services!removal, Services!loop, Services!Asked
<1>1. Services(k)!TypeOK'
  BY DEF Services!Status, Services!ServiceStop, Services!ServiceStopped,
     Services!RunIsHeld, Services!OneRunner, Services!Wait
<1>2. Services(k)!RunIsHeld'
  BY DEF Services!RunIsHeld
<1>3. Services(k)!OneRunner'
  BY DEF Services!OneRunner, Services!RunIsHeld
<1>4. Services(k)!MayAdoptFirst'
  BY DEF Services!MayAdoptFirst
<1>5. Services(k)!RecordLeads'
  BY DEF Services!RecordLeads, Services!LiveRunIsRecorded, Services!RunIsHeld
<1>6. Services(k)!NoOrphan'
  BY DEF Services!NoOrphan, Services!Alive, Services!RunIsHeld
<1>7. Services(k)!MatchingRunIsNotReplaced'
  BY DEF Services!MatchingRunIsNotReplaced, Services!MayAdoptFirst,
     Services!RunIsHeld
<1>8. Services(k)!VerifiedStopIsClean'
  BY DEF Services!VerifiedStopIsClean, Services!Alive, Services!RunIsHeld,
     Services!RecordLeads, Services!LiveRunIsRecorded
<1> QED BY <1>1, <1>2, <1>3, <1>4, <1>5, <1>6, <1>7, <1>8

\* A failed run is ended by its runner, which then has none.
LEMMA ServiceEndFailed ==
  ASSUME NEW CONSTANT k \in BOOLEAN, Services(k)!IndInv,
         NEW r \in Task, Services(k)!EndFailed(r)
  PROVE  Services(k)!IndInv'
<1> USE LaunchAssumption DEF Services!IndInv, Services!TypeOK, Services!EndFailed,
        Services!Goto, Services!publish, Services!is_final, Services!Final,
        Services!world, Services!removal, Services!loop, Services!End, Services!DropRun,
        Services!Failed, Services!gives_up
<1>1. Services(k)!TypeOK'
  <2>1. life' \in [Run -> {"none", "running", "exited", "left", "gone"}]
    BY DEF Services!RunIsHeld
  <2>2. fate' \in [Run -> {"none", "held", "ended", "unverified", "released",
                            "crashed"}]
    BY DEF Services!RunIsHeld
  <2>3. recorded' \in Run \cup {Nobody} /\ claim' \in Task \cup {Nobody}
    BY DEF Services!RunIsHeld
  <2>4. /\ runnerPc' \in [Task -> {"off", "backoff", "launching", "adopting",
                       "replacing", "spawning", "waiting", "ready", "ending",
                       "finishing", "done"}]
        /\ status' \in [Task -> Services(k)!Status]
    BY DEF Services!Status
  <2>5. failures' \in [Task -> 0..((IF k THEN MaxFailures ELSE ScopedFailures) + 1)]
    BY DEF Services!OneRunner
  <2>6. held' \in [Task -> Run \cup {Nobody}] /\ stopped' \in [Task -> Services(k)!ServiceStopped]
    BY DEF Services!ServiceStopped
  <2>7. /\ mark' \in [Run -> (IF k THEN Fp ELSE ScopedFp) \cup {Nobody}]
        /\ fp' \in [Task -> (IF k THEN Fp ELSE ScopedFp) \cup {Nobody}]
        /\ home' \in [Task -> (IF k THEN Owner ELSE ScopedOwner) \cup {Nobody}]
        /\ mayAdopt' \in [Task -> BOOLEAN] /\ had' \in [Task -> BOOLEAN]
        /\ forgets' \in [Task -> SUBSET Services(k)!Wait] /\ seen' \in [Task -> BOOLEAN]
        /\ stop' \in [Task -> {"open"} \cup Services(k)!ServiceStop]
    OBVIOUS
  <2> QED BY <2>1, <2>2, <2>3, <2>4, <2>5, <2>6, <2>7
<1>2. Services(k)!RunIsHeld'
  BY DEF Services!RunIsHeld
<1>3. Services(k)!OneRunner'
  BY DEF Services!OneRunner, Services!RunIsHeld
<1>4. Services(k)!MayAdoptFirst'
  BY DEF Services!MayAdoptFirst
<1>5. Services(k)!RecordLeads'
  BY DEF Services!RecordLeads, Services!LiveRunIsRecorded, Services!RunIsHeld
<1>6. Services(k)!NoOrphan'
  BY DEF Services!NoOrphan, Services!Alive, Services!RunIsHeld
<1>7. Services(k)!MatchingRunIsNotReplaced'
  BY DEF Services!MatchingRunIsNotReplaced, Services!MayAdoptFirst,
     Services!RunIsHeld
<1>8. Services(k)!VerifiedStopIsClean'
  BY DEF Services!VerifiedStopIsClean, Services!Alive, Services!RunIsHeld,
     Services!RecordLeads, Services!LiveRunIsRecorded
<1> QED BY <1>1, <1>2, <1>3, <1>4, <1>5, <1>6, <1>7, <1>8

\* A final status is published with the run let go.
LEMMA ServiceFinishing ==
  ASSUME NEW CONSTANT k \in BOOLEAN, Services(k)!IndInv,
         NEW r \in Task, Services(k)!Finishing(r)
  PROVE  Services(k)!IndInv'
<1> USE LaunchAssumption DEF Services!IndInv, Services!TypeOK, Services!Finishing,
        Services!Goto, Services!publish, Services!is_final, Services!Final,
        Services!world, Services!removal, Services!loop, Services!Return, Services!How,
        Services!End, Services!DropRun
<1>1. Services(k)!TypeOK'
  <2>1. life' \in [Run -> {"none", "running", "exited", "left", "gone"}]
    BY DEF Services!RunIsHeld
  <2>2. fate' \in [Run -> {"none", "held", "ended", "unverified", "released",
                            "crashed"}]
    BY DEF Services!RunIsHeld
  <2>3. recorded' \in Run \cup {Nobody} /\ claim' \in Task \cup {Nobody}
    BY DEF Services!RunIsHeld
  <2>4. /\ runnerPc' \in [Task -> {"off", "backoff", "launching", "adopting",
                       "replacing", "spawning", "waiting", "ready", "ending",
                       "finishing", "done"}]
        /\ status' \in [Task -> Services(k)!Status]
    BY DEF Services!Status
  <2>5. failures' \in [Task -> 0..((IF k THEN MaxFailures ELSE ScopedFailures) + 1)]
    BY DEF Services!OneRunner
  <2>6. held' \in [Task -> Run \cup {Nobody}] /\ stopped' \in [Task -> Services(k)!ServiceStopped]
    BY DEF Services!ServiceStopped
  <2>7. /\ mark' \in [Run -> (IF k THEN Fp ELSE ScopedFp) \cup {Nobody}]
        /\ fp' \in [Task -> (IF k THEN Fp ELSE ScopedFp) \cup {Nobody}]
        /\ home' \in [Task -> (IF k THEN Owner ELSE ScopedOwner) \cup {Nobody}]
        /\ mayAdopt' \in [Task -> BOOLEAN] /\ had' \in [Task -> BOOLEAN]
        /\ forgets' \in [Task -> SUBSET Services(k)!Wait] /\ seen' \in [Task -> BOOLEAN]
        /\ stop' \in [Task -> {"open"} \cup Services(k)!ServiceStop]
    OBVIOUS
  <2> QED BY <2>1, <2>2, <2>3, <2>4, <2>5, <2>6, <2>7
<1>2. Services(k)!RunIsHeld'
  BY DEF Services!RunIsHeld
<1>3. Services(k)!OneRunner'
  BY DEF Services!OneRunner, Services!RunIsHeld
<1>4. Services(k)!MayAdoptFirst'
  BY DEF Services!MayAdoptFirst
<1>5. Services(k)!RecordLeads'
  BY DEF Services!RecordLeads, Services!LiveRunIsRecorded, Services!RunIsHeld
<1>6. Services(k)!NoOrphan'
  BY DEF Services!NoOrphan, Services!Alive, Services!RunIsHeld
<1>7. Services(k)!MatchingRunIsNotReplaced'
  BY DEF Services!MatchingRunIsNotReplaced, Services!MayAdoptFirst,
     Services!RunIsHeld
<1>8. Services(k)!VerifiedStopIsClean'
  BY DEF Services!VerifiedStopIsClean, Services!Alive, Services!RunIsHeld,
     Services!RecordLeads, Services!LiveRunIsRecorded
<1> QED BY <1>1, <1>2, <1>3, <1>4, <1>5, <1>6, <1>7, <1>8

\* A crash leaves the run and its record to the next owner.
LEMMA ServiceCrash ==
  ASSUME NEW CONSTANT k \in BOOLEAN, Services(k)!IndInv,
         NEW r \in Task, Services(k)!Crash(r)
  PROVE  Services(k)!IndInv'
<1> USE LaunchAssumption DEF Services!IndInv, Services!TypeOK, Services!Crash,
        Services!Goto, Services!publish, Services!is_final, Services!Final,
        Services!world, Services!removal, Services!loop, Services!DropRun,
        Services!Waited
<1>1. Services(k)!TypeOK'
  BY DEF Services!Status, Services!ServiceStop, Services!ServiceStopped,
     Services!RunIsHeld, Services!OneRunner, Services!Wait
<1>2. Services(k)!RunIsHeld'
  BY DEF Services!RunIsHeld
<1>3. Services(k)!OneRunner'
  BY DEF Services!OneRunner, Services!RunIsHeld
<1>4. Services(k)!MayAdoptFirst'
  BY DEF Services!MayAdoptFirst
<1>5. Services(k)!RecordLeads'
  BY DEF Services!RecordLeads, Services!LiveRunIsRecorded, Services!RunIsHeld
<1>6. Services(k)!NoOrphan'
  BY DEF Services!NoOrphan, Services!Alive, Services!RunIsHeld
<1>7. Services(k)!MatchingRunIsNotReplaced'
  BY DEF Services!MatchingRunIsNotReplaced, Services!MayAdoptFirst,
     Services!RunIsHeld
<1>8. Services(k)!VerifiedStopIsClean'
  BY DEF Services!VerifiedStopIsClean, Services!Alive, Services!RunIsHeld,
     Services!RecordLeads, Services!LiveRunIsRecorded
<1> QED BY <1>1, <1>2, <1>3, <1>4, <1>5, <1>6, <1>7, <1>8

\* A runner that has not started holds nothing, and nothing has run.
LEMMA ServiceInit ==
  ASSUME NEW CONSTANT k \in BOOLEAN, Services(k)!Init
  PROVE  Services(k)!IndInv
<1> USE LaunchAssumption DEF Services!Init
<1>1. Services(k)!TypeOK
  BY DEF Services!TypeOK, Services!Status, Services!ServiceStopped
<1>2. Services(k)!RunIsHeld /\ Services(k)!OneRunner
  BY DEF Services!RunIsHeld, Services!OneRunner, Services!is_final, Services!Final
<1>3. Services(k)!MayAdoptFirst /\ Services(k)!RecordLeads
  BY DEF Services!MayAdoptFirst, Services!RecordLeads, Services!LiveRunIsRecorded
<1>4. /\ Services(k)!NoOrphan
      /\ Services(k)!MatchingRunIsNotReplaced
      /\ Services(k)!VerifiedStopIsClean
  BY DEF Services!NoOrphan, Services!MatchingRunIsNotReplaced,
     Services!VerifiedStopIsClean, Services!Alive
<1> QED BY <1>1, <1>2, <1>3, <1>4 DEF Services!IndInv

LEMMA ServiceStutter ==
  ASSUME NEW CONSTANT k \in BOOLEAN, Services(k)!IndInv, UNCHANGED serviceVars
  PROVE  Services(k)!IndInv'
BY DEF serviceVars, Services!IndInv, Services!TypeOK, Services!RunIsHeld,
   Services!OneRunner, Services!MayAdoptFirst, Services!RecordLeads,
   Services!LiveRunIsRecorded, Services!NoOrphan, Services!MatchingRunIsNotReplaced,
   Services!VerifiedStopIsClean, Services!Alive, Services!is_final

\* Every step of a service keeps the invariant.
LEMMA ServiceNext ==
  ASSUME NEW CONSTANT k \in BOOLEAN, Services(k)!IndInv, Services(k)!Next
  PROVE  Services(k)!IndInv'
<1>1. CASE \E i \in Run : Services(k)!Exit(i) \/ Services(k)!Sweep(i)
  BY <1>1, ServiceExit, ServiceSweep
<1>2. CASE \E r \in Task : Services(k)!RunnerStep(r)
  BY <1>2, ServiceBackoff, ServiceAdopt, ServiceReplace, ServiceSpawn,
     ServiceExitSeen, ServiceUntilReady, ServiceRunning, ServiceEndFailed, ServiceFinishing
     DEF Services!RunnerStep
<1>3. CASE \E r \in Task : \/ Services(k)!Launch(r) \/ Services(k)!WaitFailed(r)
                           \/ Services(k)!Crash(r)
  BY <1>3, ServiceLaunch, ServiceWaitFailed, ServiceCrash
<1>4. CASE \E r \in Task, o \in IF k THEN Owner ELSE ScopedOwner :
             Services(k)!ServiceStart(r, o)
  BY <1>4, ServiceAdmit
<1>5. CASE \E r \in Task, how \in Services(k)!ServiceStop :
             Services(k)!HandleStop(r, how)
  BY <1>5, ServiceHandleStop
<1>6. CASE \E r \in Task, p \in Services(k)!Wait : Services(k)!ForgetEnd(r, p)
  BY <1>6, ServiceForgetEnd
<1> QED BY <1>1, <1>2, <1>3, <1>4, <1>5, <1>6 DEF Services!Next

\* The services of a name, kept or scoped, whichever the part is.
ServicesHold ==
  /\ part = "served" => Services(TRUE)!IndInv
  /\ part = "scoped" => Services(FALSE)!IndInv

\* A runner's run, its handle's claim and its name's record agree at any time, and
\* nothing runs while a removal shares the claim, with any number of runners,
\* owners and runs, whatever is stopped, given up, fails or crashes.
THEOREM ServicesInvariant == LaunchSpec => []ServicesHold
<1>1. LaunchInit => ServicesHold
  <2>1. LaunchInit => Services(TRUE)!Init /\ Services(FALSE)!Init
    BY DEF LaunchInit, Services!Init
  <2> QED BY <2>1, ServiceInit DEF ServicesHold
<1>2. ServicesHold /\ [LaunchNext]_allVars => ServicesHold'
  <2> SUFFICES ASSUME ServicesHold, [LaunchNext]_allVars PROVE ServicesHold'
    OBVIOUS
  <2>1. part' = part
    BY DEF LaunchNext, Ends, allVars
  <2>2. CASE UNCHANGED serviceVars
    BY <2>1, <2>2, ServiceStutter DEF ServicesHold
  <2>3. CASE part = "served" /\ Services(TRUE)!Next
    BY <2>1, <2>3, ServiceNext DEF ServicesHold
  <2>4. CASE part = "scoped" /\ Services(FALSE)!Next
    BY <2>1, <2>4, ServiceNext DEF ServicesHold
  <2> QED BY <2>2, <2>3, <2>4 DEF LaunchNext, Ends, allVars
<1> QED BY <1>1, <1>2, PTL DEF LaunchSpec

\* What a final status means follows from the program counters, and from what a
\* removal says of the runs.
LEMMA FinalLetsGo ==
  ASSUME NEW CONSTANT k \in BOOLEAN, Services(k)!IndInv
  PROVE  Services(k)!FinalMeansLetGo
BY DEF Services!FinalMeansLetGo, Services!IndInv, Services!OneRunner,
   Services!RunIsHeld, Services!RecordLeads, Services!TypeOK

\* A kept service ends no run that it may adopt, though its earlier attempts
\* failed; a verified stop leaves neither process nor record; when a final status
\* is seen, the run is let go, and the claim too or shared by a removal under
\* which nothing runs; and a removal that nobody waits for takes the record of no
\* live run.
THEOREM ServedRunsStayKept == LaunchSpec => []ServedRunsAreKept
<1>1. ServicesHold => ServedRunsAreKept
  BY FinalLetsGo DEF ServicesHold, ServedRunsAreKept, Services!IndInv,
     Services!RecordLeads
<1> QED BY <1>1, ServicesInvariant, PTL

\* A scoped run that lives and was not let go has a runner, whatever stop
\* arrives while it starts, and its owner has no other.
THEOREM ScopedRunsStaySupervised == LaunchSpec => []ScopedRunsAreSupervised
<1>1. ASSUME Services(FALSE)!IndInv PROVE Services(FALSE)!OneSupervisedRun
  BY <1>1 DEF Services!IndInv, Services!OneSupervisedRun, Services!RunIsHeld,
     Services!OneRunner
<1>2. ServicesHold => ScopedRunsAreSupervised
  BY <1>1, FinalLetsGo DEF ServicesHold, ScopedRunsAreSupervised, Services!IndInv
<1> QED BY <1>2, ServicesInvariant, PTL

-----------------------------------------------------------------------------
(* The runs of a kept service implement SingleRun, too. *)

\* A leader starts when none runs; or one that started ends, or was at its end.
LifeStep ==
  \/ UNCHANGED life
  \/ \E i \in Run : /\ life[i] = "none"
                    /\ life' = [life EXCEPT ![i] = "running"]
                    /\ \A j \in Run : life[j] # "running"
  \/ \E i \in Run, end \in {"exited", "left", "gone"} :
       /\ life[i] # "none"
       /\ life' = [life EXCEPT ![i] = end]

\* A termination ends a leader that its runner holds.
LEMMA EndIsLifeStep ==
  ASSUME Services(TRUE)!IndInv, NEW r \in Task, NEW ok \in BOOLEAN,
         held[r] # Nobody, Services(TRUE)!End(held[r], ok)
  PROVE  LifeStep
<1>1. held[r] \in Run /\ life[held[r]] # "none"
  BY DEF Services!IndInv, Services!TypeOK, Services!RunIsHeld
<1> QED BY <1>1 DEF Services!End, LifeStep

LEMMA ServiceLifeStep ==
  ASSUME Services(TRUE)!IndInv, Services(TRUE)!Next
  PROVE  LifeStep
<1>1. ASSUME NEW i \in Run, Services(TRUE)!Exit(i) PROVE LifeStep
  BY <1>1 DEF Services!Exit, LifeStep
<1>2. ASSUME NEW i \in Run, Services(TRUE)!Sweep(i) PROVE LifeStep
  BY <1>2 DEF Services!Sweep, LifeStep
<1>3. ASSUME NEW r \in Task, Services(TRUE)!Spawn(r) PROVE LifeStep
  <2>1. \/ UNCHANGED life
        \/ /\ Services(TRUE)!RecordIsStale
           /\ \E i \in Run : Services(TRUE)!NewRun(r, i)
    BY <1>3 DEF Services!Spawn
  <2>2. Services(TRUE)!RecordIsStale => \A j \in Run : life[j] # "running"
    BY LaunchAssumption DEF Services!RecordIsStale, Services!IndInv,
       Services!RecordLeads, Services!LiveRunIsRecorded
  <2> QED BY <2>1, <2>2 DEF Services!NewRun, LifeStep
<1>4. ASSUME NEW r \in Task,
             Services(TRUE)!Replace(r) \/ Services(TRUE)!EndFailed(r)
      PROVE  LifeStep
  <2>1. held[r] # Nobody
    BY <1>4 DEF Services!Replace, Services!EndFailed, Services!IndInv,
       Services!RunIsHeld
  <2>2. \E ok \in BOOLEAN : Services(TRUE)!End(held[r], ok)
    BY <1>4 DEF Services!Replace, Services!EndFailed
  <2> QED BY <2>1, <2>2, EndIsLifeStep
<1>5. ASSUME NEW r \in Task, Services(TRUE)!Finishing(r) PROVE LifeStep
  <2>1. \/ UNCHANGED life
        \/ held[r] # Nobody /\ \E ok \in BOOLEAN : Services(TRUE)!End(held[r], ok)
    BY <1>5 DEF Services!Finishing
  <2> QED BY <2>1, EndIsLifeStep DEF LifeStep
<1>6. ASSUME NEW r \in Task,
             \/ Services(TRUE)!Backoff(r) \/ Services(TRUE)!Adopt(r)
             \/ Services(TRUE)!ExitSeen(r)
             \/ \E p \in Services(TRUE)!Wait : Services(TRUE)!ForgetEnd(r, p)
             \/ Services(TRUE)!UntilReady(r) \/ Services(TRUE)!Running(r)
             \/ Services(TRUE)!Launch(r) \/ Services(TRUE)!WaitFailed(r)
             \/ Services(TRUE)!Crash(r)
             \/ \E o \in Owner : Services(TRUE)!ServiceStart(r, o)
             \/ \E how \in Services(TRUE)!ServiceStop : Services(TRUE)!HandleStop(r, how)
      PROVE  LifeStep
  BY <1>6 DEF LifeStep, Services!Backoff, Services!Adopt, Services!ExitSeen, Services!ForgetEnd,
     Services!UntilReady, Services!Running, Services!Launch, Services!WaitFailed, Services!Crash,
     Services!ServiceStart, Services!HandleStop, Services!world, Services!removal
<1> QED BY <1>1, <1>2, <1>3, <1>4, <1>5, <1>6 DEF Services!Next, Services!RunnerStep

\* Such a step is Start or End of the abstract run, or a stutter.
LEMMA LifeStepRefines ==
  ASSUME Services(TRUE)!TypeOK, part = "served", part' = part, LifeStep
  PROVE  \/ \E i \in Run : ServiceRun!Start(i) \/ ServiceRun!End(i)
         \/ UNCHANGED <<ServedRunning, ServedEnded>>
<1> USE DEF Services!TypeOK
<1>1. CASE UNCHANGED life
  BY <1>1 DEF ServedRunning, ServedEnded
<1>2. ASSUME NEW i \in Run, life[i] = "none", life' = [life EXCEPT ![i] = "running"],
             \A j \in Run : life[j] # "running"
      PROVE  ServiceRun!Start(i)
  <2>1. ServedRunning = {} /\ i \notin ServedEnded
    BY <1>2 DEF ServedRunning, ServedEnded
  <2>2. ServedRunning' = {i}
    BY <1>2 DEF ServedRunning
  <2>3. ServedEnded' = ServedEnded
    BY <1>2 DEF ServedEnded
  <2> QED BY <2>1, <2>2, <2>3 DEF ServiceRun!Start
<1>3. ASSUME NEW i \in Run, NEW end \in {"exited", "left", "gone"}, life[i] # "none",
             life' = [life EXCEPT ![i] = end]
      PROVE  ServiceRun!End(i) \/ UNCHANGED <<ServedRunning, ServedEnded>>
  <2>1. CASE life[i] = "running"
    <3>1. i \notin ServedEnded
      BY <2>1 DEF ServedEnded
    <3>2. ServedRunning' = ServedRunning \ {i}
      BY <1>3 DEF ServedRunning
    <3>3. ServedEnded' = ServedEnded \cup {i}
      BY <1>3 DEF ServedEnded
    <3> QED BY <3>1, <3>2, <3>3 DEF ServiceRun!End
  <2>2. CASE life[i] # "running"
    <3>1. life[i] \in {"exited", "left", "gone"}
      BY <1>3, <2>2
    <3>2. ServedRunning' = ServedRunning
      BY <1>3, <2>2 DEF ServedRunning
    <3>3. ServedEnded' = ServedEnded
      BY <1>3, <3>1 DEF ServedEnded
    <3> QED BY <3>2, <3>3
  <2> QED BY <2>1, <2>2
<1> QED BY <1>1, <1>2, <1>3 DEF LifeStep

\* The runs of a kept service implement SingleRun: whichever owners supervise
\* the name, crash, adopt or replace, one run of it is alive at a time, and a
\* run that ended does not come back.
THEOREM ServiceImplementsSingleRun == LaunchSpec => ServiceKeepsOneRun
<1>1. LaunchInit => ServiceRun!Init
  BY DEF LaunchInit, Services!Init, ServiceRun!Init, ServedRunning, ServedEnded
<1>2. ServicesHold /\ [LaunchNext]_allVars =>
        [ServiceRun!Next]_<<ServedRunning, ServedEnded>>
  <2> SUFFICES ASSUME ServicesHold, [LaunchNext]_allVars
               PROVE  \/ \E i \in Run : ServiceRun!Start(i) \/ ServiceRun!End(i)
                      \/ UNCHANGED <<ServedRunning, ServedEnded>>
    BY DEF ServiceRun!Next
  <2>1. part' = part
    BY DEF LaunchNext, Ends, allVars
  <2>2. CASE part # "served"
    BY <2>1, <2>2 DEF ServedRunning, ServedEnded
  <2>3. CASE UNCHANGED serviceVars
    BY <2>1, <2>3 DEF ServedRunning, ServedEnded, serviceVars
  <2>4. CASE part = "served" /\ Services(TRUE)!Next
    <3>1. Services(TRUE)!IndInv
      BY <2>4 DEF ServicesHold
    <3>2. LifeStep
      BY <2>4, <3>1, ServiceLifeStep
    <3>3. Services(TRUE)!TypeOK
      BY <3>1 DEF Services!IndInv
    <3> QED BY <2>1, <2>4, <3>2, <3>3, LifeStepRefines
  <2> QED BY <2>2, <2>3, <2>4 DEF LaunchNext, Ends, allVars
<1> QED BY <1>1, <1>2, ServicesInvariant, PTL
        DEF LaunchSpec, ServiceKeepsOneRun, ServiceRun!Spec
=============================================================================
