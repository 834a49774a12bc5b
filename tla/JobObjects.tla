----------------------------- MODULE JobObjects -----------------------------
(***************************************************************************)
(* The Windows backend (backend/windows.rs): one Job Object per scope.  A  *)
(* root is created suspended, assigned to its scope's job and only then    *)
(* resumed, so that everything it starts is in the job; the kernel ends a  *)
(* job's members when its last handle closes (KILL_ON_JOB_CLOSE).  A root  *)
(* has a waiter task that publishes its exit and survives a failed wait;   *)
(* the exit counts as a kill when the backend ordered one and the root     *)
(* ended with the backend's own exit code.                                 *)
(*   Steps that hold the state mutex are one action, except where another  *)
(* thread can tell: the mutex is held across assignment and resumption,    *)
(* and across the kill flags and the termination, while waiter tasks and   *)
(* the kernel go on.  spawn and cleanup_scope of one scope exclude each    *)
(* other, and no spawn follows a cleanup (module Supervisor).              *)
(***************************************************************************)
EXTENDS Naturals, FiniteSets

CONSTANTS
  Scope,
  Proc,
  Caller,       \* callers of wait
  Code,         \* codes a program ends with by itself
  NoScope,
  NoProc,
  MaxFail       \* bound: failures of native calls

VARIABLES
  ps,           \* kernel: "none", "suspended", "running", "dying", "exited"
  code,         \* exit code
  inJob,        \* kernel: the job a process is a member of
  of,           \* the scope it was started for
  ordered,      \* processes ended by a termination the backend ordered
  jobs,         \* State.jobs
  slots,        \* State.children
  flag,         \* roots whose Slot.killed is set
  spawn,        \* a spawn of p: "none", "created", "assigned", "failed",
                \* "undoing"
  hard,         \* scopes a hard kill has flagged and not yet terminated
  cleanPc, closed, cleaned,
  exit,         \* the watch channel: "none", "err", "exit", "kill"
  work,         \* waiter task: "none", "waiting", "parked", "draining", "ended"
  retry,        \* roots with a queued retry
  callPc, target, answer,
  unseen,       \* callers whose channel holds a value they have not read
  up,           \* the backend exists
  fails

kernelVars == <<ps, code, inJob, of, ordered>>
stateVars == <<jobs, slots, flag>>
scopeVars == <<hard, cleanPc, closed, cleaned>>
workVars == <<exit, work, retry>>
callVars == <<callPc, target, answer, unseen>>
vars == <<kernelVars, stateVars, spawn, scopeVars, workVars, callVars, up, fails>>

KILLED == "KILLED"
STILL_ACTIVE == "STILL_ACTIVE"

Init ==
  /\ ps = [p \in Proc |-> "none"]
  /\ code = [p \in Proc |-> STILL_ACTIVE]
  /\ inJob = [p \in Proc |-> NoScope]
  /\ of = [p \in Proc |-> NoScope]
  /\ ordered = {}
  /\ jobs = {} /\ slots = {} /\ flag = {}
  /\ spawn = [p \in Proc |-> "none"]
  /\ hard = {}
  /\ cleanPc = [s \in Scope |-> "idle"]
  /\ closed = {} /\ cleaned = {}
  /\ exit = [p \in Proc |-> "none"]
  /\ work = [p \in Proc |-> "none"]
  /\ retry = {}
  /\ callPc = [c \in Caller |-> "idle"]
  /\ target = [c \in Caller |-> NoProc]
  /\ unseen = {}
  /\ answer = [c \in Caller |-> "none"]
  /\ up = TRUE
  /\ fails = 0

----------------------------------------------------------------------------
(* The kernel. *)

Alive(p) == ps[p] \in {"suspended", "running", "dying"}

\* JobObjectBasicAccountingInformation.ActiveProcesses of the job of s.
Active(s) == {p \in Proc : Alive(p) /\ inJob[p] = s}

Terminated(victims) ==
  [p \in Proc |-> IF p \in victims /\ Alive(p) THEN "dying" ELSE ps[p]]

\* A running process starts another, which the kernel puts in the same job.
Fork(p, q) ==
  /\ ps[p] = "running" /\ ps[q] = "none"
  /\ ps' = [ps EXCEPT ![q] = "running"]
  /\ inJob' = [inJob EXCEPT ![q] = inJob[p]]
  /\ of' = [of EXCEPT ![q] = of[p]]
  /\ UNCHANGED <<code, ordered, stateVars, spawn, scopeVars, workVars, callVars,
                 up, fails>>

\* A program ends by itself with any code.
End(p, c) ==
  /\ ps[p] = "running"
  /\ ps' = [ps EXCEPT ![p] = "exited"]
  /\ code' = [code EXCEPT ![p] = c]
  /\ UNCHANGED <<inJob, of, ordered, stateVars, spawn, scopeVars, workVars,
                 callVars, up, fails>>

\* A termination takes effect.  Closing a job promises no particular code.
Die(p) ==
  /\ ps[p] = "dying"
  /\ ps' = [ps EXCEPT ![p] = "exited"]
  /\ \E c \in (IF p \in ordered THEN {KILLED} ELSE Code) :
       code' = [code EXCEPT ![p] = c]
  /\ UNCHANGED <<inJob, of, ordered, stateVars, spawn, scopeVars, workVars,
                 callVars, up, fails>>

----------------------------------------------------------------------------
(* The state mutex. *)

Locked ==
  \/ \E p \in Proc : spawn[p] = "assigned"
  \/ hard # {}
  \/ \E s \in Scope : cleanPc[s] = "flagged"

Fail == fails < MaxFail /\ fails' = fails + 1

----------------------------------------------------------------------------
(* spawn. *)

\* cmd.spawn with CREATE_SUSPENDED.
Create(p, s) ==
  /\ up /\ ps[p] = "none" /\ s \notin closed
  /\ ps' = [ps EXCEPT ![p] = "suspended"]
  /\ of' = [of EXCEPT ![p] = s]
  /\ spawn' = [spawn EXCEPT ![p] = "created"]
  /\ UNCHANGED <<code, inJob, ordered, stateVars, scopeVars, workVars, callVars,
                 up, fails>>

\* Setup takes the mutex, makes the scope's job if there is none (new_job),
\* and assigns the root to it.
Assign(p) ==
  /\ up /\ spawn[p] = "created" /\ ~Locked
  /\ jobs' = jobs \union {of[p]}
  /\ inJob' = [inJob EXCEPT ![p] = of[p]]
  /\ spawn' = [spawn EXCEPT ![p] = "assigned"]
  /\ UNCHANGED <<ps, code, of, ordered, slots, flag, scopeVars, workVars,
                 callVars, up, fails>>

\* resume, the slot, and the waiter task.
Resume(p) ==
  /\ up /\ spawn[p] = "assigned"
  /\ ps' = [ps EXCEPT ![p] = IF @ = "suspended" THEN "running" ELSE @]
  /\ slots' = slots \union {p}
  /\ work' = [work EXCEPT ![p] = "waiting"]
  /\ spawn' = [spawn EXCEPT ![p] = "none"]
  /\ UNCHANGED <<code, inJob, of, ordered, jobs, flag, scopeVars, exit, retry,
                 callVars, up, fails>>

\* A native call of the setup fails: OpenProcess or GetProcessTimes before the
\* mutex, new_job or the assignment (a new job stays), or the resumption.
SetupFails(p) ==
  /\ up /\ Fail
  /\ \/ spawn[p] = "created" /\ ~Locked /\ jobs' \in {jobs, jobs \union {of[p]}}
     \/ spawn[p] = "assigned" /\ jobs' = jobs
  /\ spawn' = [spawn EXCEPT ![p] = "failed"]
  /\ UNCHANGED <<kernelVars, slots, flag, scopeVars, workVars, callVars, up>>

\* The undo: start_kill ...
UndoKill(p) ==
  /\ up /\ spawn[p] = "failed"
  /\ spawn' = [spawn EXCEPT ![p] = "undoing"]
  /\ \/ ps' = Terminated({p}) /\ UNCHANGED fails
     \/ Fail /\ UNCHANGED ps
  /\ UNCHANGED <<code, inJob, of, ordered, stateVars, scopeVars, workVars,
                 callVars, up>>

\* ... and child.wait, before the error of the setup is returned.  The errors of
\* both are dropped: a root may be left suspended, or not quite dead.
UndoWait(p) ==
  /\ up /\ spawn[p] = "undoing"
  /\ \/ ps[p] = "exited" /\ UNCHANGED fails
     \/ Fail
  /\ spawn' = [spawn EXCEPT ![p] = "none"]
  /\ UNCHANGED <<kernelVars, stateVars, scopeVars, workVars, callVars, up>>

----------------------------------------------------------------------------
(* Kills. *)

SlotsOf(ss) == {p \in slots : of[p] \in ss}

\* TerminateJobObject for the registered jobs of the scopes ss.
TerminateJobs(ss) ==
  LET victims == UNION {Active(s) : s \in ss \intersect jobs} IN
  /\ ps' = Terminated(victims)
  /\ ordered' = ordered \union {p \in victims : ps[p] # "dying"}

\* signal(Kill) of one root.  A root that ended with the code STILL_ACTIVE is
\* taken for running: the flag is set and TerminateProcess fails.
Signal(p) ==
  /\ up /\ ~Locked /\ p \in slots
  /\ code[p] = STILL_ACTIVE
  /\ flag' = flag \union {p}
  /\ ps' = Terminated({p})
  /\ ordered' = IF ps[p] = "running" THEN ordered \union {p} ELSE ordered
  /\ UNCHANGED <<code, inJob, of, jobs, slots, spawn, scopeVars, workVars,
                 callVars, up, fails>>

\* hard_kill_scope, and hard_kill_all with ss = Scope: first the flags ...
HardFlag(ss) ==
  /\ up /\ ~Locked
  /\ flag' = flag \union SlotsOf(ss)
  /\ hard' = ss
  /\ UNCHANGED <<kernelVars, jobs, slots, spawn, cleanPc, closed, cleaned,
                 workVars, callVars, up, fails>>

\* ... then the jobs, each on its own (an error is only logged), then a retry
\* for every slot.
HardTerminate ==
  /\ up /\ hard # {}
  /\ \/ TerminateJobs(hard) /\ UNCHANGED fails
     \/ \E s \in hard \intersect jobs : Fail /\ TerminateJobs(hard \ {s})
  /\ retry' = retry \union SlotsOf(hard)
  /\ hard' = {}
  /\ UNCHANGED <<code, inJob, of, stateVars, spawn, cleanPc, closed, cleaned,
                 exit, work, callVars, up>>

----------------------------------------------------------------------------
(* cleanup_scope.  A cleanup that fails may be called again. *)

Spawning(s) == \E p \in Proc : of[p] = s /\ spawn[p] # "none"

CleanFlag(s) ==
  /\ up /\ ~Locked /\ ~Spawning(s)
  /\ cleanPc[s] = "idle" /\ s \notin cleaned
  /\ closed' = closed \union {s}
  /\ flag' = flag \union SlotsOf({s})
  /\ cleanPc' = [cleanPc EXCEPT ![s] = "flagged"]
  /\ UNCHANGED <<kernelVars, jobs, slots, spawn, hard, cleaned, workVars,
                 callVars, up, fails>>

CleanTerminate(s) ==
  /\ up /\ cleanPc[s] = "flagged"
  /\ \/ /\ TerminateJobs({s})
        /\ cleanPc' = [cleanPc EXCEPT ![s] = "poll"]
        /\ UNCHANGED fails
     \/ /\ Fail /\ s \in jobs
        /\ cleanPc' = [cleanPc EXCEPT ![s] = "idle"]
        /\ UNCHANGED <<ps, ordered>>
  /\ retry' = retry \union SlotsOf({s})
  /\ UNCHANGED <<code, inJob, of, stateVars, spawn, hard, closed, cleaned,
                 exit, work, callVars, up>>

\* A cleanup that closes the job without waiting for it to empty.
CleanTrusting(s) ==
  /\ up /\ ~Locked /\ cleanPc[s] = "poll"
  /\ jobs' = jobs \ {s}
  /\ cleaned' = cleaned \union {s}
  /\ cleanPc' = [cleanPc EXCEPT ![s] = "idle"]
  /\ UNCHANGED <<kernelVars, slots, flag, spawn, hard, closed, workVars,
                 callVars, up, fails>>

\* A poll that finds no job, or the job empty: the handle is closed.
CleanPoll(s) ==
  /\ up /\ ~Locked /\ cleanPc[s] = "poll"
  /\ s \in jobs => Active(s) = {}
  /\ jobs' = jobs \ {s}
  /\ cleaned' = cleaned \union {s}
  /\ cleanPc' = [cleanPc EXCEPT ![s] = "idle"]
  /\ UNCHANGED <<kernelVars, slots, flag, spawn, hard, closed, workVars,
                 callVars, up, fails>>

\* The query fails, or the last of the 500 polls finds the job active.
CleanFails(s) ==
  /\ up /\ ~Locked /\ cleanPc[s] = "poll" /\ s \in jobs
  /\ \/ Fail
     \/ Active(s) # {} /\ UNCHANGED fails
  /\ cleanPc' = [cleanPc EXCEPT ![s] = "idle"]
  /\ UNCHANGED <<kernelVars, stateVars, spawn, hard, closed, cleaned, workVars,
                 callVars, up>>

----------------------------------------------------------------------------
(* The waiter task of a root. *)

\* Callers subscribed to the channel of p.
Watching(p) == {c \in Caller : target[c] = p}

Publish(p, e) ==
  /\ exit' = [exit EXCEPT ![p] = e]
  /\ unseen' = unseen \union Watching(p)

\* RawExit.signal: a kill was ordered and the code is the backend's own.
Classify(p) == IF p \in flag /\ code[p] = KILLED THEN "kill" ELSE "exit"

WaitOk(p) ==
  /\ work[p] = "waiting" /\ ps[p] = "exited"
  /\ Publish(p, Classify(p))
  /\ work' = [work EXCEPT ![p] = "draining"]
  /\ UNCHANGED <<kernelVars, stateVars, spawn, scopeVars, retry, callPc, target,
                 answer, up, fails>>

WaitErr(p) ==
  /\ work[p] = "waiting" /\ Fail
  /\ Publish(p, "err")
  /\ work' = [work EXCEPT ![p] = "parked"]
  /\ UNCHANGED <<kernelVars, stateVars, spawn, scopeVars, retry, callPc, target,
                 answer, up>>

\* retry_rx.recv: another attempt with the same Child.
Unpark(p) ==
  /\ work[p] = "parked" /\ p \in retry
  /\ retry' = retry \ {p}
  /\ work' = [work EXCEPT ![p] = "waiting"]
  /\ UNCHANGED <<kernelVars, stateVars, spawn, scopeVars, exit, callPc, target,
                 unseen, answer, up, fails>>

\* The slot held the only retry sender.
Abandoned(p) == p \notin slots

ParkedEnds(p) ==
  /\ work[p] = "parked" /\ p \notin retry /\ Abandoned(p)
  /\ work' = [work EXCEPT ![p] = "draining"]
  /\ UNCHANGED <<kernelVars, stateVars, spawn, scopeVars, exit, retry, callVars,
                 up, fails>>

\* finish_readers returns and the retry channel closes.
Drained(p) ==
  /\ work[p] = "draining"
  /\ work' = [work EXCEPT ![p] = "ended"]
  /\ UNCHANGED <<kernelVars, stateVars, spawn, scopeVars, exit, retry, callVars,
                 up, fails>>

----------------------------------------------------------------------------
(* wait. *)

\* Subscribe and read, under the mutex; a failure already there asks for
\* another attempt.
WaitBegin(c, p) ==
  /\ up /\ ~Locked /\ callPc[c] = "idle" /\ p \in slots
  /\ target' = [target EXCEPT ![c] = p]
  /\ unseen' = unseen \ {c}
  /\ answer' = [answer EXCEPT ![c] = "none"]
  /\ callPc' = [callPc EXCEPT ![c] = CASE exit[p] = "err" -> "ask"
                                       [] exit[p] = "none" -> "changed"
                                       [] OTHER -> "read"]
  /\ UNCHANGED <<kernelVars, stateVars, spawn, scopeVars, workVars, up, fails>>

\* retry.try_send: queued or coalesced with a queued one, or the channel is
\* closed, and then a competing attempt has succeeded.
Ask(c) ==
  LET p == target[c] IN
  /\ callPc[c] = "ask"
  /\ IF work[p] # "ended"
     THEN /\ retry' = retry \union {p}
          /\ callPc' = [callPc EXCEPT ![c] = "changed"]
          /\ UNCHANGED <<target, unseen, answer>>
     ELSE /\ unseen' = unseen \ {c}
          /\ IF exit[p] \in {"exit", "kill"}
             THEN /\ callPc' = [callPc EXCEPT ![c] = "read"]
                  /\ UNCHANGED <<target, answer>>
             ELSE /\ callPc' = [callPc EXCEPT ![c] = "idle"]
                  /\ answer' = [answer EXCEPT ![c] = "closed"]
                  /\ target' = [target EXCEPT ![c] = NoProc]
          /\ UNCHANGED retry
  /\ UNCHANGED <<kernelVars, stateVars, spawn, scopeVars, exit, work,
                 up, fails>>

\* rx.changed
Changed(c) ==
  /\ callPc[c] = "changed" /\ c \in unseen
  /\ callPc' = [callPc EXCEPT ![c] = "read"]
  /\ UNCHANGED <<kernelVars, stateVars, spawn, scopeVars, workVars, target,
                 unseen, answer, up, fails>>

\* The latest value is the answer; a verified exit removes the slot.
Read(c) ==
  LET p == target[c] IN
  /\ callPc[c] = "read" /\ ~Locked
  /\ answer' = [answer EXCEPT ![c] = exit[p]]
  /\ slots' = IF exit[p] = "err" THEN slots ELSE slots \ {p}
  /\ unseen' = unseen \ {c}
  /\ callPc' = [callPc EXCEPT ![c] = "idle"]
  /\ target' = [target EXCEPT ![c] = NoProc]
  /\ UNCHANGED <<kernelVars, jobs, flag, spawn, scopeVars, workVars,
                 up, fails>>

----------------------------------------------------------------------------
(* The end of the backend. *)

\* Every job handle closes, and the kernel ends the members.
CloseJobs ==
  /\ up' = FALSE
  /\ jobs' = {} /\ slots' = {}
  /\ ps' = Terminated(UNION {Active(s) : s \in jobs})

\* The last clone of the backend is dropped; waiter tasks go on.
BackendDrop ==
  /\ up /\ ~Locked
  /\ \A p \in Proc : spawn[p] = "none"
  /\ \A s \in Scope : cleanPc[s] = "idle"
  /\ \A c \in Caller : callPc[c] = "idle"
  /\ CloseJobs
  /\ UNCHANGED <<code, inJob, of, ordered, flag, spawn, scopeVars, workVars,
                 callVars, fails>>

\* The supervising program dies at any moment.
Crash ==
  /\ up
  /\ CloseJobs
  /\ spawn' = [p \in Proc |-> "none"]
  /\ hard' = {}
  /\ cleanPc' = [s \in Scope |-> "idle"]
  /\ work' = [p \in Proc |-> IF work[p] = "none" THEN "none" ELSE "ended"]
  /\ callPc' = [c \in Caller |-> "idle"]
  /\ target' = [c \in Caller |-> NoProc]
  /\ UNCHANGED <<code, inJob, of, ordered, flag, closed, cleaned, exit, retry,
                 unseen, answer, fails>>

----------------------------------------------------------------------------
Next ==
  \/ \E p \in Proc : \/ Die(p) \/ Assign(p) \/ Resume(p) \/ SetupFails(p)
                     \/ UndoKill(p) \/ UndoWait(p) \/ Signal(p) \/ WaitOk(p) \/ WaitErr(p)
                     \/ Unpark(p) \/ ParkedEnds(p) \/ Drained(p)
  \/ \E p, q \in Proc : Fork(p, q)
  \/ \E p \in Proc, c \in Code : End(p, c)
  \/ \E p \in Proc, s \in Scope : Create(p, s)
  \/ \E s \in Scope : \/ HardFlag({s}) \/ CleanFlag(s) \/ CleanTerminate(s)
                      \/ CleanPoll(s) \/ CleanFails(s)
  \/ HardFlag(Scope)
  \/ HardTerminate
  \/ \E c \in Caller : Ask(c) \/ Changed(c) \/ Read(c)
  \/ \E c \in Caller, p \in Proc : WaitBegin(c, p)
  \/ BackendDrop
  \/ Crash

Spec == Init /\ [][Next]_vars

\* The kernel ends terminated processes, tasks are scheduled, and a kill under
\* the mutex runs on.  Programs need not end, and callers need not call.
Fairness ==
  /\ \A p \in Proc : /\ WF_vars(Die(p)) /\ WF_vars(WaitOk(p))
                     /\ WF_vars(Unpark(p)) /\ WF_vars(ParkedEnds(p))
                     /\ WF_vars(Drained(p))
                     /\ WF_vars(Resume(p))
  /\ \A s \in Scope : WF_vars(CleanTerminate(s))
  /\ WF_vars(HardTerminate)
  /\ \A c \in Caller : /\ WF_vars(Ask(c)) /\ WF_vars(Changed(c))
                       /\ SF_vars(Read(c))

FairSpec == Spec /\ Fairness

----------------------------------------------------------------------------
(* Properties. *)

TypeOK ==
  /\ ps \in [Proc -> {"none", "suspended", "running", "dying", "exited"}]
  /\ code \in [Proc -> Code \union {KILLED, STILL_ACTIVE}]
  /\ inJob \in [Proc -> Scope \union {NoScope}]
  /\ of \in [Proc -> Scope \union {NoScope}]
  /\ ordered \subseteq Proc
  /\ jobs \subseteq Scope /\ slots \subseteq Proc /\ flag \subseteq Proc
  /\ spawn \in [Proc -> {"none", "created", "assigned", "failed", "undoing"}]
  /\ hard \subseteq Scope
  /\ cleanPc \in [Scope -> {"idle", "flagged", "poll"}]
  /\ closed \subseteq Scope /\ cleaned \subseteq Scope
  /\ exit \in [Proc -> {"none", "err", "exit", "kill"}]
  /\ work \in [Proc -> {"none", "waiting", "parked", "draining", "ended"}]
  /\ retry \subseteq Proc
  /\ callPc \in [Caller -> {"idle", "ask", "changed", "read"}]
  /\ target \in [Caller -> Proc \union {NoProc}]
  /\ unseen \subseteq Caller
  /\ answer \in [Caller -> {"none", "err", "exit", "kill", "closed"}]
  /\ up \in BOOLEAN
  /\ fails \in 0 .. MaxFail

\* User code runs only inside the registered job of its own scope, at every
\* moment of spawn and of cleanup: so closing the job, also by the death of the
\* supervising program, leaves nothing running.
RunsInJob ==
  \A p \in Proc : ps[p] = "running" => inJob[p] = of[p] /\ of[p] \in jobs

\* What a setup leaves when a call before the assignment failed and its undo
\* failed as well: a root in no job, which has run nothing and never will.  A kill
\* and a wait have to fail to leave it suspended, a wait to leave it dying.
Leftover(p) ==
  /\ ps[p] \in {"suspended", "dying"} /\ inJob[p] = NoScope /\ work[p] = "none"
  /\ fails >= IF ps[p] = "suspended" THEN 3 ELSE 2

\* A scope whose cleanup_scope returned Ok has no process left, not even one
\* that is about to die, nor a root left suspended by a failed spawn, unless the
\* undo of that spawn failed too.
CleanedScopeIsDead ==
  \A s \in cleaned, p \in Proc : of[p] = s /\ Alive(p) => Leftover(p)

\* A root the backend's own kill ended is reported as killed: the flag is set
\* before the job is terminated, and the waiter task reads it after the exit.
OrderedDeathIsKill ==
  \A p \in ordered : exit[p] # "exit"

\* Only an ordered kill is reported as one: a program that happens to end with
\* the backend's exit code exits by itself as far as callers can tell.
KillWasOrdered ==
  \A p \in Proc : exit[p] = "kill" => p \in flag

\* Where no program ends with the backend's exit code by itself, a root is
\* reported as killed only if the backend's kill ended it: not one that was
\* gone before the kill came, nor one whose code made it look alive.
KillIsOurs ==
  KILLED \notin Code => \A p \in Proc : exit[p] = "kill" => p \in ordered

\* A failure handed to a caller is from an attempt that ended after its call:
\* a failure that was already there when wait was called is retried, and no
\* caller is told that the waiter is closed.
FreshAnswers ==
  \A c \in Caller :
    callPc[c] # "idle" /\ callPc'[c] = "idle" /\ answer'[c] \in {"err", "closed"}
    /\ up'
      => answer'[c] = "err" /\ c \in unseen

ErrorIsFresh == [][FreshAnswers]_vars

\* A hard kill or cleanup wakes a parked waiter task: the verified exit of a
\* root that died is published although an earlier wait failed and no caller
\* waits.  (One failure is allowed: a retry that fails waits for its next kill
\* or caller.)
KillWakesWaiter ==
  \A p \in Proc :
    (hard # {} /\ p \in SlotsOf(hard) /\ ps[p] = "exited") ~>
      (exit[p] \in {"exit", "kill"} \/ ~up)

\* Every wait on a root that has died returns.
WaitReturns ==
  \A c \in Caller, p \in Proc :
    (target[c] = p /\ ps[p] = "exited") ~> (callPc[c] = "idle")

\* A dropped backend leaves no waiter task behind: the jobs' members die, and a
\* task parked by a failed wait ends with the last retry sender.
DroppedBackendDrains ==
  \A p \in Proc : ~up ~> (work[p] \in {"none", "ended"})

----------------------------------------------------------------------------
(* Why a cleaned scope is dead and a kill is told: the inductive invariant. *)

\* A root runs nothing until its spawn is over, and its scope is not closed
\* before; assignment excludes the kills; and while the backend exists whatever
\* is alive, except for a spawn under way and what its undo leaves, is in the
\* registered job of its scope.
SpawnIsSuspended ==
  \A p \in Proc :
    /\ spawn[p] # "none" =>
         /\ up /\ of[p] \in Scope /\ of[p] \notin closed
         /\ ps[p] \notin {"none", "running"} /\ work[p] = "none"
    /\ spawn[p] = "created" => inJob[p] = NoScope
    /\ spawn[p] = "assigned" =>
         /\ inJob[p] = of[p] /\ of[p] \in jobs
         /\ hard = {} /\ \A s \in Scope : cleanPc[s] # "flagged"
    /\ spawn[p] \in {"created", "assigned"} => p \notin ordered
    /\ ps[p] = "none" => inJob[p] = NoScope /\ work[p] = "none"
    /\ spawn[p] = "failed" => fails >= 1
    /\ spawn[p] = "undoing" => fails >= IF ps[p] = "suspended" THEN 2 ELSE 1
    /\ inJob[p] \in {of[p], NoScope}
    /\ up /\ Alive(p) /\ inJob[p] # NoScope => of[p] \in jobs
    /\ up /\ Alive(p) /\ spawn[p] = "none" => inJob[p] = of[p] \/ Leftover(p)

\* A cleanup closes its scope before anything else.
CleanupCloses ==
  /\ \A s \in Scope : cleanPc[s] # "idle" => s \in closed
  /\ cleaned \subseteq closed

\* A root with a waiter task is flagged before a kill ends it; and an exit code
\* of the backend is that of such a kill, or of a program that uses it.
FlagBeforeKill ==
  /\ SlotsOf(hard) \subseteq flag
  /\ \A s \in Scope : cleanPc[s] = "flagged" => SlotsOf({s}) \subseteq flag
  /\ \A p \in ordered :
       /\ ps[p] \in {"dying", "exited"}
       /\ ps[p] = "exited" => code[p] = KILLED
       /\ work[p] # "none" => p \in flag
  /\ \A p \in Proc : code[p] = KILLED => KILLED \in Code \/ p \in ordered

\* A waiter task has its slot until it has published an exit, and publishes it
\* after the exit.
WaiterHasSlot ==
  \A p \in Proc :
    /\ exit[p] # "none" => work[p] # "none"
    /\ work[p] # "none" => ps[p] \in {"running", "dying", "exited"}
    /\ exit[p] \in {"exit", "kill"} =>
         ps[p] = "exited" /\ work[p] \in {"draining", "ended"}
    /\ up /\ work[p] \in {"waiting", "parked"} => p \in slots
    /\ up /\ work[p] \in {"draining", "ended"} => exit[p] \in {"exit", "kill"}
    /\ p \in slots => up /\ work[p] # "none"

\* A caller reads a value that came after its call, or an exit.
CallerKnows ==
  \A c \in Caller : callPc[c] # "idle" =>
    /\ up /\ target[c] \in Proc
    /\ c \in unseen => exit[target[c]] # "none"
    /\ callPc[c] = "read" => c \in unseen \/ exit[target[c]] \in {"exit", "kill"}

IndInv ==
  /\ TypeOK /\ SpawnIsSuspended /\ CleanupCloses /\ FlagBeforeKill
  /\ WaiterHasSlot /\ CallerKnows
  /\ RunsInJob /\ CleanedScopeIsDead
  /\ OrderedDeathIsKill /\ KillWasOrdered /\ KillIsOurs
=============================================================================
