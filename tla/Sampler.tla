------------------------------ MODULE Sampler ------------------------------
(***************************************************************************)
(* The shared statistics sampler: the coordinator task of the supervisor   *)
(* (start_sampler), the bounded pool of native observations               *)
(* (backend/sampling.rs), one observation of the Unix backend              *)
(* (sample_sync), the cache that stats reads, and the monitor that ends a  *)
(* process and evicts it from the cache.  A native observation cannot be   *)
(* cancelled: it outlives the timeout, the abort and the coordinator that  *)
(* asked for it, and the process it looks at.                              *)
(***************************************************************************)
EXTENDS Naturals, FiniteSets

CONSTANTS
  Proc,         \* supervised processes
  Reader,       \* threads that run native observations
  NoProc,
  Permits       \* capacity of the pool

VARIABLES
  proc,         \* registry: "new", "live", "reaped"
  os,           \* "none", "running", "reaped", "recycled"
  slots,        \* State.children of the backend
  cpu,          \* State.cpu_samples
  mon,          \* monitor task: "none", "wait", "record", "evict", "done"
  coordinator,  \* "off", "on", "aborted", "ended"
  active,       \* observations the coordinator waits for
  aborted,      \* and those it has aborted
  obs,          \* observation: "none", "sample", "capacity", "native", "answer"
  answer,
  flag,         \* ChildSlot.sampling: a native observation is under way
  of, at, val,  \* a reader: its process, its step and what it has read
  samples       \* the cache: "none", "own", "strange", "error"

procVars == <<proc, os, slots, mon>>
coordVars == <<coordinator, active, aborted, obs, answer>>
readVars == <<of, at, val>>
vars == <<procVars, cpu, coordVars, flag, readVars, samples>>

Live == {p \in Proc : proc[p] = "live"}

Init ==
  /\ proc = [p \in Proc |-> "new"]
  /\ os = [p \in Proc |-> "none"]
  /\ slots = {}
  /\ cpu = {}
  /\ mon = [p \in Proc |-> "none"]
  /\ coordinator = "off"
  /\ active = {}
  /\ aborted = {}
  /\ obs = [p \in Proc |-> "none"]
  /\ answer = [p \in Proc |-> "none"]
  /\ flag = {}
  /\ of = [r \in Reader |-> NoProc]
  /\ at = [r \in Reader |-> "idle"]
  /\ val = [r \in Reader |-> "none"]
  /\ samples = [p \in Proc |-> "none"]

----------------------------------------------------------------------------
(* A process and its monitor. *)

\* The end of spawn_owned: attach, start_monitor, start_sampler.
Attach(p) ==
  /\ proc[p] = "new" /\ coordinator \in {"off", "on"}
  /\ proc' = [proc EXCEPT ![p] = "live"]
  /\ os' = [os EXCEPT ![p] = "running"]
  /\ slots' = slots \union {p}
  /\ mon' = [mon EXCEPT ![p] = "wait"]
  /\ coordinator' = "on"
  /\ UNCHANGED <<cpu, active, aborted, obs, answer, flag, readVars, samples>>

\* The process ends and the backend's waiter task reaps it.
Reap(p) ==
  /\ os[p] = "running"
  /\ os' = [os EXCEPT ![p] = "reaped"]
  /\ UNCHANGED <<proc, slots, mon, cpu, coordVars, flag, readVars, samples>>

\* The kernel gives its number to an unrelated process.
Recycle(p) ==
  /\ os[p] = "reaped"
  /\ os' = [os EXCEPT ![p] = "recycled"]
  /\ UNCHANGED <<proc, slots, mon, cpu, coordVars, flag, readVars, samples>>

\* wait returns the exit: slot and CPU baseline are removed together.
Wait(p) ==
  /\ mon[p] = "wait" /\ os[p] \in {"reaped", "recycled"}
  /\ mon' = [mon EXCEPT ![p] = "record"]
  /\ slots' = slots \ {p}
  /\ cpu' = cpu \ {p}
  /\ UNCHANGED <<proc, os, coordVars, flag, readVars, samples>>

\* wait fails: the slot stays, the process is recorded as unverified.
WaitFails(p) ==
  /\ mon[p] = "wait"
  /\ mon' = [mon EXCEPT ![p] = "record"]
  /\ UNCHANGED <<proc, os, slots, cpu, coordVars, flag, readVars, samples>>

\* The monitor records the end under the registry lock,
Record(p) ==
  /\ mon[p] = "record"
  /\ mon' = [mon EXCEPT ![p] = "evict"]
  /\ proc' = [proc EXCEPT ![p] = "reaped"]
  /\ UNCHANGED <<os, slots, cpu, coordVars, flag, readVars, samples>>

\* and removes the sample after it.
Evict(p) ==
  /\ mon[p] = "evict"
  /\ mon' = [mon EXCEPT ![p] = "done"]
  /\ samples' = [samples EXCEPT ![p] = "none"]
  /\ UNCHANGED <<proc, os, slots, cpu, coordVars, flag, readVars>>

----------------------------------------------------------------------------
(* The coordinator. *)

\* ticker.tick: abort what is no longer live, observe what is not observed.
Tick ==
  /\ coordinator = "on"
  /\ aborted' = aborted \union (active \ Live)
  /\ active' = active \union Live
  /\ obs' = [p \in Proc |-> IF p \in Live \ active THEN "sample" ELSE obs[p]]
  /\ UNCHANGED <<procVars, cpu, coordinator, answer, flag, readVars, samples>>

\* An observation is over with the answer a, or dropped without one (next =
\* "none"); one that still waits for capacity gives its slot's flag back, one
\* that waits for a reader leaves it running.
Leave(p, next, a) ==
  /\ obs' = [obs EXCEPT ![p] = next]
  /\ answer' = [answer EXCEPT ![p] = a]
  /\ flag' = IF obs[p] = "capacity" THEN flag \ {p} ELSE flag

\* UnixProcessBackend::sample, and the flag that SamplingPool::run takes.
SampleStart(p) ==
  /\ obs[p] = "sample"
  /\ IF p \in slots /\ p \notin flag
     THEN /\ flag' = flag \union {p}
          /\ obs' = [obs EXCEPT ![p] = "capacity"]
          /\ UNCHANGED answer
     ELSE Leave(p, "answer", "error")
  /\ UNCHANGED <<procVars, cpu, coordinator, active, aborted, readVars, samples>>

Busy == {r \in Reader : at[r] # "idle"}

\* acquire_owned, and spawn_blocking in the same poll.
Acquire(p, r) ==
  /\ obs[p] = "capacity" /\ at[r] = "idle"
  /\ Cardinality(Busy) < Permits
  /\ obs' = [obs EXCEPT ![p] = "native"]
  /\ of' = [of EXCEPT ![r] = p]
  /\ at' = [at EXCEPT ![r] = "check"]
  /\ UNCHANGED <<procVars, cpu, coordinator, active, aborted, answer, flag, val,
                 samples>>

\* A timeout on the wait for capacity alone.
TimeoutQueued(p) ==
  /\ obs[p] = "capacity"
  /\ Leave(p, "answer", "error")
  /\ UNCHANGED <<procVars, cpu, coordinator, active, aborted, readVars, samples>>

\* One second passes.
Timeout(p) ==
  /\ obs[p] \in {"sample", "capacity", "native"}
  /\ Leave(p, "answer", "error")
  /\ UNCHANGED <<procVars, cpu, coordinator, active, aborted, readVars, samples>>

\* The abort reaches the observation: no result is used.
Aborted(p) ==
  /\ coordinator = "on" /\ p \in aborted /\ obs[p] # "none"
  /\ Leave(p, "none", "none")
  /\ active' = active \ {p}
  /\ aborted' = aborted \ {p}
  /\ UNCHANGED <<procVars, cpu, coordinator, readVars, samples>>

\* Storing a result without looking at the registry again.
CollectBlindly(p) ==
  /\ coordinator = "on" /\ obs[p] = "answer" /\ p \notin aborted
  /\ Leave(p, "none", "none")
  /\ active' = active \ {p}
  /\ samples' = [samples EXCEPT ![p] = answer[p]]
  /\ UNCHANGED <<procVars, cpu, coordinator, aborted, readVars>>

\* pending.next: the result enters the cache if the process is still live.
Collect(p) ==
  /\ coordinator = "on" /\ obs[p] = "answer" /\ p \notin aborted
  /\ Leave(p, "none", "none")
  /\ active' = active \ {p}
  /\ samples' = IF p \in Live THEN [samples EXCEPT ![p] = answer[p]] ELSE samples
  /\ UNCHANGED <<procVars, cpu, coordinator, aborted, readVars>>

\* shutdown aborts the coordinator once every scope is verified.
Shutdown ==
  /\ coordinator = "on" /\ Live = {}
  /\ coordinator' = "aborted"
  /\ UNCHANGED <<procVars, cpu, active, aborted, obs, answer, flag, readVars,
                 samples>>

\* The coordinator ends and drops its observations; shutdown joins it.
CoordinatorEnds ==
  /\ coordinator = "aborted"
  /\ coordinator' = "ended"
  /\ active' = {} /\ aborted' = {}
  /\ obs' = [p \in Proc |-> "none"]
  /\ answer' = [p \in Proc |-> "none"]
  /\ flag' = flag \ {p \in Proc : obs[p] = "capacity"}
  /\ UNCHANGED <<procVars, cpu, readVars, samples>>

----------------------------------------------------------------------------
(* A native observation (sample_sync). *)

\* identity_still_matches: the number still belongs to the process.
Identity(p) == os[p] = "running"

\* The reader is done; its result goes to whoever still waits for it, and the
\* flag and the permit are given back.
Finish(r, v) ==
  LET p == of[r] IN
  /\ of' = [of EXCEPT ![r] = NoProc]
  /\ at' = [at EXCEPT ![r] = "idle"]
  /\ val' = [val EXCEPT ![r] = "none"]
  /\ flag' = flag \ {p}
  /\ IF obs[p] = "native"
     THEN /\ obs' = [obs EXCEPT ![p] = "answer"]
          /\ answer' = [answer EXCEPT ![p] = v]
     ELSE UNCHANGED <<obs, answer>>
  /\ UNCHANGED <<coordinator, active, aborted>>

Go(r, step) ==
  /\ at' = [at EXCEPT ![r] = step]
  /\ UNCHANGED <<of, coordVars, flag>>

Check(r) ==
  /\ at[r] = "check"
  /\ \/ Identity(of[r]) /\ Go(r, "read") /\ UNCHANGED val
     \/ Finish(r, "error")
  /\ UNCHANGED <<procVars, cpu, samples>>

\* sample_process and the CPU ticks: whatever has the number now.
Read(r) ==
  /\ at[r] = "read"
  /\ \/ /\ os[of[r]] \in {"running", "recycled"}
        /\ val' = [val EXCEPT ![r] =
                     IF os[of[r]] = "running" THEN "own" ELSE "strange"]
        /\ Go(r, "insert")
     \/ Finish(r, "error")
  /\ UNCHANGED <<procVars, cpu, samples>>

\* The CPU baseline is stored if the slot is still registered.
Insert(r) ==
  /\ at[r] = "insert"
  /\ IF of[r] \in slots
     THEN /\ cpu' = cpu \union {of[r]}
          /\ Go(r, "recheck") /\ UNCHANGED val
     ELSE Finish(r, "error") /\ UNCHANGED cpu
  /\ UNCHANGED <<procVars, samples>>

Recheck(r) ==
  /\ at[r] = "recheck"
  /\ Finish(r, IF Identity(of[r]) THEN val[r] ELSE "error")
  /\ UNCHANGED <<procVars, cpu, samples>>

----------------------------------------------------------------------------
Next ==
  \/ \E p \in Proc : \/ Attach(p) \/ Reap(p) \/ Recycle(p) \/ Wait(p)
                     \/ WaitFails(p) \/ Record(p) \/ Evict(p)
                     \/ SampleStart(p) \/ Timeout(p) \/ Aborted(p) \/ Collect(p)
  \/ \E p \in Proc, r \in Reader : Acquire(p, r)
  \/ \E r \in Reader : Check(r) \/ Read(r) \/ Insert(r) \/ Recheck(r)
  \/ Tick \/ Shutdown \/ CoordinatorEnds

Spec == Init /\ [][Next]_vars

\* The coordinator is scheduled, its ticker and its timeouts fire, the monitor
\* goes on once it has its wait; native observations may hang for ever.
Fairness ==
  /\ WF_vars(Tick)
  /\ \A p \in Proc : /\ WF_vars(Timeout(p)) /\ WF_vars(Aborted(p))
                     /\ WF_vars(Collect(p))
                     /\ WF_vars(Record(p)) /\ WF_vars(Evict(p))
  /\ WF_vars(CoordinatorEnds)

FairSpec == Spec /\ Fairness

----------------------------------------------------------------------------
(* Properties. *)

TypeOK ==
  /\ proc \in [Proc -> {"new", "live", "reaped"}]
  /\ os \in [Proc -> {"none", "running", "reaped", "recycled"}]
  /\ slots \subseteq Proc /\ cpu \subseteq Proc /\ flag \subseteq Proc
  /\ mon \in [Proc -> {"none", "wait", "record", "evict", "done"}]
  /\ coordinator \in {"off", "on", "aborted", "ended"}
  /\ active \subseteq Proc /\ aborted \subseteq Proc
  /\ obs \in [Proc -> {"none", "sample", "capacity", "native", "answer"}]
  /\ answer \in [Proc -> {"none", "own", "strange", "error"}]
  /\ of \in [Reader -> Proc \union {NoProc}]
  /\ at \in [Reader -> {"idle", "check", "read", "insert", "recheck"}]
  /\ val \in [Reader -> {"none", "own", "strange"}]
  /\ samples \in [Proc -> {"none", "own", "strange", "error"}]

\* A sample that completes after the end of its process never enters the cache:
\* once the monitor has evicted a process, its entry stays empty.
NoResurrectedSample ==
  \A p \in Proc : mon[p] = "done" => samples[p] = "none"

\* The cache never holds what was read from another process that got the number,
\* at whatever moment of the observation the number changed hands.
SampleIsOwn == \A p \in Proc : samples[p] # "strange"

\* The backend's CPU baselines never outlive the slots they belong to.
BaselineHasSlot == cpu \subseteq slots

\* There is at most one native observation per child, also after timeouts,
\* aborts and new ticks, while earlier ones still run.
OneObservationPerChild ==
  \A q, r \in Reader : of[q] = of[r] /\ of[q] # NoProc => q = r

\* What the cache, the baselines and the pool promise.
SampleIsTrue ==
  NoResurrectedSample /\ SampleIsOwn /\ BaselineHasSlot /\ OneObservationPerChild

----------------------------------------------------------------------------
(* The inductive invariant behind it. *)

\* The monitor's step says what the registry and the kernel say of its process,
\* and only a process that was started has a slot.
MonitorFollows ==
  \A p \in Proc :
    /\ mon[p] = "none" <=> proc[p] = "new"
    /\ mon[p] \in {"wait", "record"} <=> proc[p] = "live"
    /\ proc[p] = "new" <=> os[p] = "none"
    /\ p \in slots => os[p] # "none"

\* An observation that waits for a reader has the flag of its slot and nobody
\* reads for it.
QueuedHasFlag ==
  \A p \in Proc : obs[p] = "capacity" =>
    p \in flag /\ os[p] # "none" /\ \A r \in Reader : of[r] # p

\* A reader at work has its process, which has been started, and its flag; what
\* it has read while the number was the process's own is the process's own.
ReaderHasFlag ==
  \A r \in Reader :
    /\ at[r] = "idle" <=> of[r] = NoProc
    /\ of[r] \in Proc => of[r] \in flag /\ os[of[r]] # "none"
    /\ at[r] \in {"insert", "recheck"} /\ os[of[r]] = "running" => val[r] = "own"

\* No answer that waits to be collected is a stranger's.
AnswerIsOwn == \A p \in Proc : answer[p] # "strange"

IndInv ==
  /\ TypeOK /\ SampleIsTrue
  /\ MonitorFollows /\ QueuedHasFlag /\ ReaderHasFlag /\ AnswerIsOwn

----------------------------------------------------------------------------
(* Progress. *)

\* Every live process gets an answer into the cache, if only an error, or ends,
\* though its native observations may never return.
EverySampled ==
  \A p \in Proc :
    (proc[p] = "live" /\ coordinator = "on")
      ~> (samples[p] # "none" \/ proc[p] # "live")
=============================================================================
