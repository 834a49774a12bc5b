-------------------------------- MODULE Kept --------------------------------
(***************************************************************************)
(* Kept processes under one name: KeptProcesses and KeptProcess            *)
(* (shepherd-app/src/kept.rs) over the record store and the gated launch   *)
(* of shepherd-infra/src/kept.  Names do not interact.                     *)
(*                                                                         *)
(* A task is one call of an owner, and the handle it may end with.  Owners *)
(* die at any moment (Crash).  A task may be cancelled at any await, but   *)
(* what it moved to a blocking thread runs on: the gated launch (gate) and *)
(* one write or removal of the record (work).  The claim on the name is    *)
(* reference counted, shared by the call, the launch's commit closure and  *)
(* the store operation; it ends with the last reference or the owner.      *)
(***************************************************************************)
EXTENDS Naturals

CONSTANTS
  Task,           \* calls in progress at once, each in an owner of its own
  Inst, NoInst,   \* process instances: pid, start token and boot
  MaxFaults       \* bound on failed store, identity and fork calls

ASSUME KeptAssumption == NoInst \notin Inst /\ MaxFaults \in Nat

VARIABLES
  store,          \* the record in <name>.json
  run,            \* run[i]: the life of the group leader i
  refs,           \* refs[t]: who shares t's claim
  op, pc,         \* the call t is inside of, and where
  rec,            \* the record t has read
  inst,           \* the instance t has launched, or has a handle on
  gate,           \* gated_spawn
  work,           \* the record operation t has moved to a blocking thread
  result,         \* what t's last call returned
  faults

vars == <<store, run, refs, op, pc, rec, inst, gate, work, result, faults>>
taskVars == <<op, rec, inst, gate, result>>

Record == [inst : Inst \cup {NoInst}, exe : {"None", "Some"}]
NoRecord == [inst |-> NoInst, exe |-> "None"]

RunState == {"none", "gated", "running", "dead", "swept", "straggling"}
Gone(i) == run[i] \in {"dead", "swept", "straggling"}
\* The exit is published after the sweep of the process group.
Published(i) == run[i] \in {"swept", "straggling"}

\* launcher.attach(record) may find the process: the owner that watches it
\* takes a dead leader for alive until its watcher has reaped it.
Found(i) == run[i] \in {"gated", "running", "dead"}
\* Mutant: a child that has not yet run its program counts as gone.
NotRunning(i) == run[i] # "running"
\* launcher.attach(record) may find it gone.
NotFound(i) == run[i] \notin {"gated", "running"}

Fault == faults < MaxFaults /\ faults' = faults + 1

Init ==
  /\ store = NoRecord
  /\ run = [i \in Inst |-> "none"]
  /\ refs = [t \in Task |-> {}]
  /\ op = [t \in Task |-> "none"]
  /\ pc = [t \in Task |-> "idle"]
  /\ rec = [t \in Task |-> NoRecord]
  /\ inst = [t \in Task |-> NoInst]
  /\ gate = [t \in Task |-> "idle"]
  /\ work = [t \in Task |-> "none"]
  /\ result = [t \in Task |-> "None"]
  /\ faults = 0

-----------------------------------------------------------------------------
(* The processes. *)

\* The leader exits by itself, on a signal, or is killed before it ran.
Die(i) ==
  /\ run[i] \in {"gated", "running"}
  /\ run' = [run EXCEPT ![i] = "dead"]
  /\ UNCHANGED <<store, refs, pc, taskVars, work, faults>>

\* The launch of i is under way, and keeps the gate open.
Launching(t, i) == inst[t] = i /\ gate[t] \in {"commit", "go"}

\* The watcher of an owner, which a launch starts at its end, sweeps the group
\* and publishes, with or without stragglers.
Sweep(i) ==
  /\ run[i] = "dead"
  /\ \E t \in Task : inst[t] = i /\ ~Launching(t, i)
  /\ \E end \in {"swept", "straggling"} : run' = [run EXCEPT ![i] = end]
  /\ UNCHANGED <<store, refs, pc, taskVars, work, faults>>

\* Mutant: the child keeps its copy of the owner's end of the gate.
GatedForever(i) == FALSE /\ UNCHANGED vars

\* A gated child reads EOF when its owner is gone, and exits.
GatedEof(i) ==
  /\ run[i] = "gated"
  /\ \A t \in Task : ~Launching(t, i)
  /\ run' = [run EXCEPT ![i] = "dead"]
  /\ UNCHANGED <<store, refs, pc, taskVars, work, faults>>

-----------------------------------------------------------------------------
(* Steps shared by the calls. *)

Goto(t, l) == pc' = [pc EXCEPT ![t] = l]
Share(t, r) == refs' = [refs EXCEPT ![t] = @ \cup {r}]
Unshare(t, r) == refs' = [refs EXCEPT ![t] = @ \ {r}]

\* The call returns and drops its reference to the claim.
Return(t, res) ==
  /\ Goto(t, "done")
  /\ result' = [result EXCEPT ![t] = res]
  /\ Unshare(t, "call")

Idle(t) ==
  /\ pc[t] \in {"idle", "done"}
  /\ refs[t] = {}
  /\ gate[t] = "idle"
  /\ work[t] = "none"

Call(t, o) ==
  /\ Idle(t)
  /\ op' = [op EXCEPT ![t] = o]
  /\ Goto(t, IF o = "list" THEN "read" ELSE "claim")
  /\ rec' = [rec EXCEPT ![t] = NoRecord]
  /\ inst' = [inst EXCEPT ![t] = NoInst]
  /\ result' = [result EXCEPT ![t] = "None"]
  /\ UNCHANGED <<store, run, refs, gate, work, faults>>

Unclaimed == \A t \in Task : refs[t] = {}

\* claim: retried until another holder lets go, or the deadline.
Claim(t) ==
  /\ pc[t] = "claim"
  /\ \/ /\ Unclaimed
        /\ Share(t, "call")
        /\ Goto(t, "read")
        /\ UNCHANGED result
     \/ ~Unclaimed /\ Return(t, "Busy")
  /\ UNCHANGED <<store, run, op, rec, inst, gate, work, faults>>

\* store.read, under the claim except for list.
Read(t) ==
  /\ pc[t] = "read"
  /\ rec' = [rec EXCEPT ![t] = store]
  /\ \/ store.inst # NoInst /\ Goto(t, "attach") /\ UNCHANGED <<refs, result>>
     \/ store.inst = NoInst /\ op[t] = "start" /\ Goto(t, "launch")
        /\ UNCHANGED <<refs, result>>
     \/ store.inst = NoInst /\ op[t] # "start" /\ Return(t, "None")
  /\ UNCHANGED <<store, run, op, inst, gate, work, faults>>

\* A store or identity error ends the call.
CallError(t) ==
  /\ pc[t] \in {"claim", "read", "attach", "probeLive", "probeDead", "reread"}
  /\ Fault
  /\ Return(t, "Error")
  /\ UNCHANGED <<store, run, op, rec, inst, gate, work>>

\* Mutant: a removal does not share the claim.
QueueUnclaimed(t, w) ==
  /\ work[t] = "none"
  /\ work' = [work EXCEPT ![t] = w]
  /\ refs' = refs

\* A record operation on a blocking thread, which shares the claim.
Queue(t, w) ==
  /\ work[t] = "none"
  /\ work' = [work EXCEPT ![t] = w]
  /\ Share(t, "work")

-----------------------------------------------------------------------------
(* start: attach to the previous record, then the gated launch. *)

StartAttach(t) ==
  /\ pc[t] = "attach"
  /\ op[t] = "start"
  /\ \/ Found(rec[t].inst) /\ Return(t, "AlreadyRunning")
     \/ /\ NotFound(rec[t].inst)
        /\ Goto(t, "launch")
        /\ UNCHANGED <<refs, result>>
  /\ UNCHANGED <<store, run, op, rec, inst, gate, work, faults>>

Launch(t) ==
  /\ pc[t] = "launch"
  /\ gate' = [gate EXCEPT ![t] = "fork"]
  /\ Share(t, "commit")
  /\ Goto(t, "launching")
  /\ UNCHANGED <<store, run, op, rec, inst, work, result, faults>>

\* How gated_spawn ends: nobody reads it once the call was cancelled.
GateEnd(t, end) ==
  gate' = [gate EXCEPT ![t] = IF pc[t] = "launching" THEN end ELSE "idle"]

\* The child reports its pid and waits for the go byte; or there is none (a
\* fault, or no more processes).
GateFork(t) ==
  /\ gate[t] = "fork"
  /\ \/ \E i \in Inst :
          /\ run[i] = "none"
          /\ run' = [run EXCEPT ![i] = "gated"]
          /\ inst' = [inst EXCEPT ![t] = i]
          /\ gate' = [gate EXCEPT ![t] = "commit"]
          /\ UNCHANGED <<refs, faults>>
     \/ /\ Fault \/ (UNCHANGED faults /\ \A i \in Inst : run[i] # "none")
        /\ GateEnd(t, "failed")
        /\ Unshare(t, "commit")
        /\ UNCHANGED <<run, inst>>
  /\ UNCHANGED <<store, op, pc, rec, work, result>>

\* Mutant: the launch fails without waiting for the child's end.
KilledLater(i) == run' = run
\* The child of a failed launch is refused at the gate, and its end awaited.
Killed(i) == run' = [run EXCEPT ![i] = IF Gone(i) THEN @ ELSE "dead"]

\* commit: the record is replaced by rename; a failed sync of the directory
\* leaves it visible.  On failure the child is told to abort.
GateCommit(t) ==
  LET new == [inst |-> inst[t], exe |-> "None"] IN
  /\ gate[t] = "commit"
  /\ \/ /\ store' = new
        /\ gate' = [gate EXCEPT ![t] = "go"]
        /\ UNCHANGED <<run, faults>>
     \/ /\ Fault
        /\ store' \in {store, new}
        /\ Killed(inst[t])
        /\ GateEnd(t, "failed")
  /\ Unshare(t, "commit")
  /\ UNCHANGED <<op, pc, rec, inst, work, result>>

\* The go byte, and exec or its failure.  A child killed meanwhile may look
\* like either.
GateGo(t) ==
  /\ gate[t] = "go"
  /\ \/ /\ run' = [run EXCEPT ![inst[t]] = IF Gone(inst[t]) THEN @ ELSE "running"]
        /\ GateEnd(t, "ok")
     \/ /\ Killed(inst[t])
        /\ GateEnd(t, "failed")
  /\ UNCHANGED <<store, refs, op, pc, rec, inst, work, result, faults>>

\* The launch returns: the record gets its executable, or is removed.
LaunchReturn(t) ==
  /\ pc[t] = "launching"
  /\ gate' = [gate EXCEPT ![t] = "idle"]
  /\ \/ gate[t] = "ok" /\ Queue(t, "rewrite") /\ Goto(t, "rewriting")
     \/ gate[t] = "failed" /\ Queue(t, "remove") /\ Goto(t, "undoing")
  /\ UNCHANGED <<store, run, op, rec, inst, result, faults>>

-----------------------------------------------------------------------------
(* adopt, and the listing's prune. *)

AdoptAttach(t) ==
  /\ pc[t] = "attach"
  /\ op[t] = "adopt"
  /\ \/ /\ Found(rec[t].inst)
        /\ inst' = [inst EXCEPT ![t] = rec[t].inst]
        /\ Goto(t, "held")
        /\ UNCHANGED <<refs, work>>
     \/ /\ NotFound(rec[t].inst)
        /\ Queue(t, "remove")
        /\ Goto(t, "pruning")
        /\ UNCHANGED inst
  /\ UNCHANGED <<store, run, op, rec, gate, result, faults>>

ListAttach(t) ==
  /\ pc[t] = "attach"
  /\ op[t] = "list"
  /\ \/ Found(rec[t].inst) /\ Goto(t, "probeLive")
     \/ NotFound(rec[t].inst) /\ Goto(t, "probeDead")
  /\ UNCHANGED <<store, run, refs, taskVars, work, faults>>

\* store.lock, once: a live entry is listed as held or not, a dead one nobody
\* holds is examined again.
ListProbe(t) ==
  /\ pc[t] \in {"probeLive", "probeDead"}
  /\ \/ ~Unclaimed /\ Return(t, IF pc[t] = "probeLive" THEN "Listed" ELSE "None")
     \/ /\ Unclaimed
        /\ Share(t, "call")
        /\ Goto(t, IF pc[t] = "probeLive" THEN "listing" ELSE "reread")
        /\ UNCHANGED result
  /\ UNCHANGED <<store, run, op, rec, inst, gate, work, faults>>

ListLive(t) ==
  /\ pc[t] = "listing"
  /\ Return(t, "Listed")
  /\ UNCHANGED <<store, run, op, rec, inst, gate, work, faults>>

\* Mutant: what was dead before the claim is removed, whatever is there now.
SameRecordAlways(t) == TRUE
\* An owner may have restarted the process meanwhile.
SameRecord(t) == store = rec[t]

ListReread(t) ==
  /\ pc[t] = "reread"
  /\ \/ SameRecord(t) /\ Queue(t, "remove") /\ Goto(t, "pruning") /\ UNCHANGED result
     \/ /\ ~SameRecord(t)
        /\ \/ Return(t, "None") /\ (store.inst # NoInst => NotFound(store.inst))
           \/ /\ store.inst # NoInst
              /\ Found(store.inst)
              /\ Return(t, "Listed")
        /\ UNCHANGED work
  /\ UNCHANGED <<store, run, op, rec, inst, gate, faults>>

-----------------------------------------------------------------------------
(* The handle: exited, terminate, release. *)

ExitedCall(t) ==
  /\ pc[t] = "held"
  /\ Goto(t, "exiting")
  /\ UNCHANGED <<store, run, refs, taskVars, work, faults>>

ExitedSeen(t) ==
  /\ pc[t] = "exiting"
  /\ Published(inst[t])
  /\ Queue(t, "remove")
  /\ Goto(t, "forgetting")
  /\ UNCHANGED <<store, run, taskVars, faults>>

\* Mutant: a leader that has ended is a clean end, whatever it left behind.
FinishUnswept(t, outcome) ==
  /\ result' = [result EXCEPT ![t] = outcome]
  /\ Queue(t, "remove")
  /\ Goto(t, "finishing")

\* finish: stragglers make the outcome unverified; the record goes anyway.
Finish(t, outcome) ==
  /\ result' = [result EXCEPT ![t] =
                  IF run[inst[t]] = "straggling" THEN "WaitTimedOut" ELSE outcome]
  /\ Queue(t, "remove")
  /\ Goto(t, "finishing")

\* terminate sends the graceful signal, unless the exit is already published.
TerminateCall(t) ==
  /\ pc[t] = "held"
  /\ \/ /\ ~Published(inst[t])
        /\ Goto(t, "grace")
        /\ UNCHANGED <<refs, work, result>>
     \/ /\ Published(inst[t])
        /\ Finish(t, "ExitedNaturally")
  /\ UNCHANGED <<store, run, op, rec, inst, gate, faults>>

\* The force signal, after the grace period or a failed graceful signal.
TerminateForce(t) ==
  /\ pc[t] = "grace"
  /\ Goto(t, "force")
  /\ UNCHANGED <<store, run, refs, taskVars, work, faults>>

TerminateExit(t) ==
  /\ pc[t] \in {"grace", "force"}
  /\ Published(inst[t])
  /\ \/ pc[t] = "grace" /\ Finish(t, "GracefulSuccess")
     \/ pc[t] = "force" /\ Finish(t, "ForcedRequired")
  /\ UNCHANGED <<store, run, op, rec, inst, gate, faults>>

TerminateTimeout(t) ==
  /\ pc[t] = "force"
  /\ Return(t, "WaitTimedOut")
  /\ UNCHANGED <<store, run, op, rec, inst, gate, work, faults>>

\* The locals of a call that will not return.
Forget(t) ==
  /\ Goto(t, "idle")
  /\ op' = [op EXCEPT ![t] = "none"]
  /\ rec' = [rec EXCEPT ![t] = NoRecord]
  /\ result' = [result EXCEPT ![t] = "None"]

\* release, or the drop of the handle.
Release(t) ==
  /\ pc[t] = "held"
  /\ Forget(t)
  /\ Unshare(t, "call")
  /\ UNCHANGED <<store, run, inst, gate, work, faults>>

-----------------------------------------------------------------------------
(* The blocking record operation, and the call that waits for it. *)

\* A failed rewrite or forget only warns; a cancelled call is not there.
AfterWork(t) ==
  CASE pc[t] \in {"rewriting", "forgetting"} -> "held"
    [] pc[t] \in {"pruning", "undoing", "finishing"} -> "done"
    [] OTHER -> pc[t]

WorkResult(t, ok) ==
  CASE pc[t] = "undoing" -> "Error"
    [] pc[t] = "pruning" /\ ~ok -> "Error"
    [] pc[t] = "finishing" /\ ~ok -> "ReapFailed"
    [] OTHER -> result[t]

Work(t) ==
  LET new == IF work[t] = "rewrite"
             THEN [inst |-> inst[t], exe |-> "Some"] ELSE NoRecord
  IN
  /\ work[t] # "none"
  /\ \E ok \in BOOLEAN :
       /\ \/ ok /\ store' = new /\ UNCHANGED faults
          \/ ~ok /\ Fault /\ store' \in {store, new}
       /\ Goto(t, AfterWork(t))
       /\ result' = [result EXCEPT ![t] = WorkResult(t, ok)]
       /\ refs' = [refs EXCEPT ![t] = @ \ (IF AfterWork(t) = "done"
                                          THEN {"work", "call"} ELSE {"work"})]
  /\ work' = [work EXCEPT ![t] = "none"]
  /\ UNCHANGED <<run, op, rec, inst, gate>>

\* The future is dropped at an await, with the handle it owns; exited only
\* borrows its handle.
Cancel(t) ==
  /\ \/ /\ pc[t] \in {"exiting", "forgetting"}
        /\ Goto(t, "held")
        /\ UNCHANGED <<refs, op, rec, result>>
     \/ /\ pc[t] \notin {"idle", "done", "held", "exiting", "forgetting"}
        /\ Forget(t)
        /\ Unshare(t, "call")
  /\ gate' = [gate EXCEPT ![t] = IF @ \in {"ok", "failed"} THEN "idle" ELSE @]
  /\ UNCHANGED <<store, run, inst, work, faults>>

\* The owner dies: the kernel drops its claim, blocking threads end.
Crash(t) ==
  /\ ~Idle(t)
  /\ Forget(t)
  /\ refs' = [refs EXCEPT ![t] = {}]
  /\ inst' = [inst EXCEPT ![t] = NoInst]
  /\ gate' = [gate EXCEPT ![t] = "idle"]
  /\ work' = [work EXCEPT ![t] = "none"]
  /\ UNCHANGED <<store, run, faults>>

-----------------------------------------------------------------------------
GateStep(t) == GateFork(t) \/ GateCommit(t) \/ GateGo(t)

TaskStep(t) ==
  \/ Claim(t) \/ Read(t) \/ CallError(t)
  \/ StartAttach(t) \/ Launch(t) \/ LaunchReturn(t)
  \/ AdoptAttach(t) \/ ListAttach(t) \/ ListProbe(t) \/ ListLive(t) \/ ListReread(t)
  \/ ExitedSeen(t) \/ TerminateForce(t) \/ TerminateExit(t) \/ TerminateTimeout(t)

\* What the embedding program chooses to do with its handle or its future.
OwnerStep(t) ==
  \/ \E o \in {"start", "adopt", "list"} : Call(t, o)
  \/ ExitedCall(t) \/ TerminateCall(t) \/ Release(t) \/ Cancel(t) \/ Crash(t)

Next ==
  \/ \E i \in Inst : Die(i) \/ Sweep(i) \/ GatedEof(i)
  \/ \E t \in Task : GateStep(t) \/ TaskStep(t) \/ Work(t) \/ OwnerStep(t)

Spec == Init /\ [][Next]_vars

(***************************************************************************)
(* Fairness: the runtime polls every ready task and its blocking threads   *)
(* end; a gated child reads its socket.  Nothing makes an owner call,      *)
(* cancel or crash, or a kept process exit.                                *)
(***************************************************************************)
Fairness ==
  /\ \A i \in Inst : WF_vars(GatedEof(i)) /\ WF_vars(Sweep(i))
  /\ \A t \in Task :
       WF_vars(GateStep(t)) /\ WF_vars(TaskStep(t)) /\ WF_vars(Work(t))

FairSpec == Spec /\ Fairness

-----------------------------------------------------------------------------
(* Properties. *)

Verified == {"ExitedNaturally", "GracefulSuccess", "ForcedRequired"}
Unverified == {"WaitTimedOut", "ReapFailed"}
Pc == {"idle", "claim", "read", "attach", "launch", "launching", "rewriting",
       "undoing", "pruning", "probeLive", "probeDead", "listing", "reread", "held",
       "exiting", "forgetting", "grace", "force", "finishing", "done"}

\* Every variable has its type.
TypeOK ==
  /\ store \in Record
  /\ run \in [Inst -> RunState]
  /\ refs \in [Task -> SUBSET {"call", "commit", "work"}]
  /\ op \in [Task -> {"none", "start", "adopt", "list"}]
  /\ pc \in [Task -> Pc]
  /\ rec \in [Task -> Record]
  /\ inst \in [Task -> Inst \cup {NoInst}]
  /\ gate \in [Task -> {"idle", "fork", "commit", "go", "ok", "failed"}]
  /\ work \in [Task -> {"none", "remove", "rewrite"}]
  /\ result \in [Task -> {"None", "Busy", "Error", "AlreadyRunning", "Listed"}
                         \cup Verified \cup Unverified]
  /\ faults \in 0..MaxFaults

\* A kept program that runs has its record in the store, whichever calls were
\* cancelled and whichever owners died ("a live kept process always has one;
\* it is removed only after the process is confirmed gone").  So no two run.
LiveHasRecord == \A i \in Inst : run[i] = "running" => store.inst = i

\* No record, or the record of a process whose leader has ended.
RecordIsStale == store.inst = NoInst \/ Gone(store.inst)

\* A removal under way on a blocking thread, its call cancelled or not, meets no
\* record but a stale one, and a rewrite none but its own: the claim it shares
\* keeps a later start out until it is done.
LateWorkIsSafe ==
  \A t \in Task :
    /\ work[t] = "remove" => RecordIsStale
    /\ work[t] = "rewrite" => inst[t] # NoInst /\ store.inst = inst[t]

\* One claim at a time.
ClaimExclusive ==
  \A t, u \in Task : refs[t] # {} /\ refs[u] # {} => t = u

\* Where a call works under the claim, its own or its blocking thread's.
ClaimHeld ==
  \A t \in Task :
    /\ pc[t] \in {"launch", "launching", "rewriting", "undoing", "held", "exiting",
                  "forgetting", "grace", "force", "reread"} => "call" \in refs[t]
    /\ pc[t] \in {"read", "attach"} /\ op[t] # "list" => "call" \in refs[t]
    /\ gate[t] \in {"fork", "commit"} => "commit" \in refs[t]
    /\ work[t] # "none" => "work" \in refs[t]
    /\ gate[t] \in {"ok", "failed"} => pc[t] = "launching"

\* A task's call and the blocking work it leaves behind: no new call begins
\* before that work has ended.
CallAlone ==
  \A t \in Task :
    /\ gate[t] # "idle" => pc[t] \in {"launching", "idle"} /\ work[t] = "none"
    /\ work[t] # "none" =>
         pc[t] \in {"rewriting", "undoing", "pruning", "forgetting", "finishing",
                   "held", "exiting", "grace", "force", "idle", "done"}
    /\ work[t] = "rewrite" => pc[t] \in {"rewriting", "idle"}
    /\ pc[t] \in {"probeLive", "probeDead", "listing", "reread"} => op[t] = "list"
    /\ pc[t] = "pruning" => op[t] # "start"
    /\ pc[t] = "finishing" => result[t] \in Verified \cup Unverified

\* A record names a process that was started.
RecordIsOfProcess ==
  /\ store.inst # NoInst => run[store.inst] # "none"
  /\ \A t \in Task : rec[t].inst # NoInst => run[rec[t].inst] # "none"

\* What a call knows of the record and of its process at each point.
Knows(t) ==
  /\ pc[t] = "attach" => rec[t].inst # NoInst
  /\ pc[t] = "attach" /\ op[t] # "list" => store.inst = rec[t].inst
  /\ pc[t] \in {"probeDead", "reread"} => rec[t].inst # NoInst /\ Gone(rec[t].inst)
  /\ pc[t] = "launch" \/ gate[t] \in {"fork", "commit"} => RecordIsStale
  /\ gate[t] \in {"commit", "go", "ok"} => inst[t] # NoInst /\ run[inst[t]] # "none"
  /\ gate[t] = "commit" => run[inst[t]] # "running"
  /\ gate[t] = "go" => Gone(inst[t]) \/ store.inst = inst[t]
  /\ gate[t] = "go" /\ pc[t] = "launching" => store.inst = inst[t]
  /\ gate[t] = "ok" => store.inst = inst[t]
  /\ gate[t] = "failed" => RecordIsStale
  /\ pc[t] \in {"rewriting", "held", "exiting", "forgetting", "grace", "force"} =>
       inst[t] # NoInst /\ store.inst \in {inst[t], NoInst}

CallKnows == \A t \in Task : Knows(t)

\* A start that fails leaves no process behind, not even one held at the gate
\* ("On any error no process is left running").
FailedStartLeavesNothing ==
  \A t \in Task :
    op[t] = "start" /\ pc[t] = "done" /\ result[t] = "Error" /\ inst[t] # NoInst
      => Gone(inst[t])

\* What a start knows of the child it forks: there is none before the fork, and
\* none alive once the launch has failed.
StartKnows ==
  \A t \in Task :
    /\ op[t] = "start" /\ pc[t] \in {"claim", "read", "attach"} => inst[t] = NoInst
    /\ pc[t] = "launch" \/ gate[t] = "fork" => inst[t] = NoInst
    /\ gate[t] = "failed" \/ pc[t] = "undoing" => inst[t] = NoInst \/ Gone(inst[t])

\* The record changes hands only under the claim, and is given up only when
\* its process is gone.
IndInv ==
  /\ TypeOK /\ ClaimExclusive /\ ClaimHeld /\ CallAlone /\ RecordIsOfProcess
  /\ CallKnows /\ StartKnows
  /\ LiveHasRecord /\ LateWorkIsSafe /\ FailedStartLeavesNothing

\* A verified termination: the leader is gone, its group is empty, and no
\* late write brings the record back.
VerifiedEndIsClean ==
  \A t \in Task :
    pc[t] = "done" /\ result[t] \in Verified =>
      run[inst[t]] = "swept" /\ store.inst # inst[t]

\* What a verified end rests on, with IndInv: until its commit, no record and no
\* other call names a forked child, so an instance that was swept is never
\* committed again; a verified result is given for a swept group only.
EndInv ==
  /\ \A t \in Task : gate[t] = "commit" =>
       /\ store.inst # inst[t]
       /\ \A u \in Task : rec[u].inst # inst[t] /\ (u # t => inst[u] # inst[t])
  /\ \A t \in Task : inst[t] # NoInst => run[inst[t]] # "none"
  /\ \A t \in Task : result[t] \in Verified =>
       pc[t] \in {"finishing", "done"} /\ inst[t] # NoInst /\ run[inst[t]] = "swept"
  /\ VerifiedEndIsClean

\* adopt answers None only when nothing under the name runs, or is still to be
\* let through its gate by a cancelled start.
AdoptNoneMeansGone ==
  [][\A t \in Task :
       op[t] = "adopt" /\ pc[t] # "done" /\ pc'[t] = "done" /\ result'[t] = "None"
       => /\ \A i \in Inst : run[i] # "running"
          /\ \A u \in Task : gate[u] = "go" => Gone(inst[u])]_vars

\* A child held at the gate runs its program or exits, also when its owner
\* dies.
GateResolves == \A i \in Inst : run[i] = "gated" ~> run[i] # "gated"

\* A start returns, though other owners keep the claim.
StartReturns ==
  \A t \in Task :
    op[t] = "start" /\ pc[t] = "claim" ~> pc[t] \in {"held", "done", "idle"}

\* The promise of a kept name: one run at a time, and none twice.
Running == {i \in Inst : run[i] = "running"}
Ended == {i \in Inst : Gone(i)}
OneRun == INSTANCE SingleRun WITH running <- Running, ended <- Ended

\* Whatever is cancelled, crashes or fails, and however calls of several owners
\* interleave, the kept processes of a name implement SingleRun.
KeepsOneRun == OneRun!Spec

\* A termination that is not verified leaves the record in place.
RecordKeptUnlessVerified ==
  \A t \in Task :
    pc[t] = "done" /\ result[t] \in Unverified => store.inst = inst[t]
=============================================================================
