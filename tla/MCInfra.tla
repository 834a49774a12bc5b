------------------------------- MODULE MCInfra ------------------------------
(***************************************************************************)
(* The crate shepherd-infra for TLC: the waiters' history, the Unix,       *)
(* cgroup and Windows backends, and the observations of the sampler.  The  *)
(* models share nothing, so a behaviour is one of one of them, its part;   *)
(* the others keep their initial state.                                    *)
(***************************************************************************)
EXTENDS Waiters, TLC

CONSTANTS
  Parts,                                                    \* the parts to run
  Scope, NoScope, Num, NoNum, MaxLive, MaxKin, MaxForeign, MaxFail,
  Child, ChildNum, NoChild, Caller, HostReaps, MaxWaitFail, MaxCalls,
  GroupScope, GroupProc, MaxGroupFail,
  JobScope, JobProc, NoProc, JobCaller, JobCode, MaxJobFail,
  WaitScope, WaitProc, WaitCaller, WaitCode, MaxJobWaitFail,
  SampleProc, SampleReader, ReadProc, Reader, Permits

ASSUME InfraAssumption ==
  /\ NoScope \notin Scope \cup GroupScope \cup JobScope \cup WaitScope
  /\ NoNum \notin Num \cup ChildNum
  /\ NoChild \notin Child
  /\ NoProc \notin JobProc \cup WaitProc \cup SampleProc \cup ReadProc
  /\ Permits \in Nat \ {0}
  /\ MaxGroupFail \in Nat /\ MaxJobFail \in Nat /\ MaxJobWaitFail \in Nat

VARIABLES
  part,
  st, grp, kind, own, pgid, live, failed, anchorExit, killed, anchorWait, rootWait,
  retry, orphans, unpublished, spawnPc, newborn, cleanPc, closed, cleaned, up,
  struck, fails,
  os, num, token, children, worker, outcome, watch, version, queued, hardKilled, pc, asked,
  seenVersion, result, subscribed, fresh, calls, waitFails,
  ps, at, of, dir, nested, groups, slots, pidfd, spawn, hard, aimed, groupClean,
  groupClosed, groupCleaned, groupUp, groupFails,
  jobPs, code, inJob, jobOf, ordered, jobs, jobSlots, flag, jobSpawn, jobHard,
  jobClean, jobClosed, jobCleaned, exit, work, jobRetry, callPc, callee, answer,
  unseen, jobUp, jobFails,
  proc, sampleOs, sampleSlots, cpu, mon, coordinator, active, aborted, obs, reply,
  sampling, readOf, readAt, val, samples

groupVars ==
  <<st, grp, kind, own, pgid, live, failed, anchorExit, killed, anchorWait, rootWait,
    retry, orphans, unpublished, spawnPc, newborn, cleanPc, closed, cleaned, up,
    struck, fails>>
childVars ==
  <<os, num, token, children, worker, outcome, watch, version, queued, hardKilled, pc,
    asked, seenVersion, result, subscribed, fresh, calls, waitFails>>
cgroupVars ==
  <<ps, at, of, dir, nested, groups, slots, pidfd, spawn, hard, aimed, groupClean,
    groupClosed, groupCleaned, groupUp, groupFails>>
jobVars ==
  <<jobPs, code, inJob, jobOf, ordered, jobs, jobSlots, flag, jobSpawn, jobHard,
    jobClean, jobClosed, jobCleaned, exit, work, jobRetry, callPc, callee, answer,
    unseen, jobUp, jobFails>>
sampleVars ==
  <<proc, sampleOs, sampleSlots, cpu, mon, coordinator, active, aborted, obs, reply,
    sampling, readOf, readAt, val, samples>>
allVars == <<part, vars, groupVars, childVars, cgroupVars, jobVars, sampleVars>>

Groups == INSTANCE ProcessGroups

Children == INSTANCE ChildWait
  WITH seen <- seenVersion, target <- subscribed, fails <- waitFails,
       Num <- ChildNum, MaxFail <- MaxWaitFail

Cgroup == INSTANCE Cgroups
  WITH cleanPc <- groupClean, closed <- groupClosed, cleaned <- groupCleaned,
       up <- groupUp, fails <- groupFails,
       Scope <- GroupScope, Proc <- GroupProc, MaxFail <- MaxGroupFail

\* The Windows backend and the sampler each run as two parts: several scopes and
\* processes; and, with more, one process and more callers or readers.
JobScopes(more) == IF more THEN WaitScope ELSE JobScope
JobProcs(more) == IF more THEN WaitProc ELSE JobProc
JobCallers(more) == IF more THEN WaitCaller ELSE JobCaller
JobCodes(more) == IF more THEN WaitCode ELSE JobCode
MaxJobFails(more) == IF more THEN MaxJobWaitFail ELSE MaxJobFail
SampleProcs(more) == IF more THEN ReadProc ELSE SampleProc
SampleReaders(more) == IF more THEN Reader ELSE SampleReader

Jobs(more) == INSTANCE JobObjects
  WITH ps <- jobPs, of <- jobOf, slots <- jobSlots, spawn <- jobSpawn,
       hard <- jobHard, cleanPc <- jobClean, closed <- jobClosed,
       cleaned <- jobCleaned, retry <- jobRetry, target <- callee, up <- jobUp,
       fails <- jobFails,
       Scope <- JobScopes(more), Proc <- JobProcs(more), Caller <- JobCallers(more),
       Code <- JobCodes(more), MaxFail <- MaxJobFails(more)

Samples(more) == INSTANCE Sampler
  WITH os <- sampleOs, slots <- sampleSlots, answer <- reply, flag <- sampling,
       of <- readOf, at <- readAt,
       Proc <- SampleProcs(more), Reader <- SampleReaders(more)

InfraInit ==
  /\ part \in Parts
  /\ Init /\ Groups!Init /\ Children!Init /\ Cgroup!Init
  /\ IF part = "job_wait" THEN Jobs(TRUE)!Init ELSE Jobs(FALSE)!Init
  /\ IF part = "reads" THEN Samples(TRUE)!Init ELSE Samples(FALSE)!Init

InfraNext ==
  /\ \/ /\ part = "waiters" /\ Next
        /\ UNCHANGED <<groupVars, childVars, cgroupVars, jobVars, sampleVars>>
     \/ /\ part = "groups" /\ Groups!Next
        /\ UNCHANGED <<vars, childVars, cgroupVars, jobVars, sampleVars>>
     \/ /\ part = "children" /\ Children!Next
        /\ UNCHANGED <<vars, groupVars, cgroupVars, jobVars, sampleVars>>
     \/ /\ part = "cgroups" /\ Cgroup!Next
        /\ UNCHANGED <<vars, groupVars, childVars, jobVars, sampleVars>>
     \/ /\ \/ part = "jobs" /\ Jobs(FALSE)!Next
           \/ part = "job_wait" /\ Jobs(TRUE)!Next
        /\ UNCHANGED <<vars, groupVars, childVars, cgroupVars, sampleVars>>
     \/ /\ \/ part = "samples" /\ Samples(FALSE)!Next
           \/ part = "reads" /\ Samples(TRUE)!Next
        /\ UNCHANGED <<vars, groupVars, childVars, cgroupVars, jobVars>>
  /\ UNCHANGED part

InfraSpec == InfraInit /\ [][InfraNext]_allVars

\* The children, processes and numbers of the parts may be interchanged.
Symmetry == Permutations(Child)

-----------------------------------------------------------------------------
(* The fairness of each part, while it is the part that runs. *)

GroupsFairness ==
  /\ \A n \in Num :
       /\ WF_groupVars(part = "groups" /\ st[n] = "dying" /\ Groups!End(n))
       /\ WF_groupVars(part = "groups" /\ Groups!OrphanReap(n))
       /\ WF_groupVars(part = "groups" /\ Groups!RootReap(n))
       /\ WF_groupVars(part = "groups" /\ Groups!Unpark(n))
  /\ \A s \in Scope :
       /\ WF_groupVars(part = "groups" /\ Groups!PollExit(s))
       /\ WF_groupVars(part = "groups" /\ Groups!PublishReaped(s))
       /\ WF_groupVars(part = "groups" /\ Groups!AnchorWaitDrop(s))

ChildrenFairness ==
  /\ \A c \in Child :
       /\ WF_childVars(part = "children" /\ Children!WaitOk(c))
       /\ WF_childVars(part = "children" /\ Children!WaitLost(c))
       /\ WF_childVars(part = "children" /\ Children!Publish(c))
       /\ WF_childVars(part = "children" /\ Children!Retry(c))
       /\ WF_childVars(part = "children" /\ Children!Close(c))
       /\ WF_childVars(part = "children" /\ Children!ParkedEnds(c))
  /\ \A w \in Caller :
       /\ WF_childVars(part = "children" /\ Children!Ask(w))
       /\ WF_childVars(part = "children" /\ Children!Changed(w))
       /\ WF_childVars(part = "children" /\ Children!ChannelClosed(w))
       /\ WF_childVars(part = "children" /\ Children!Read(w))

CgroupsFairness ==
  /\ \A p \in GroupProc :
       WF_cgroupVars(part = "cgroups" /\ ps[p] = "dying" /\ Cgroup!End(p))
  /\ \A s \in GroupScope : WF_cgroupVars(part = "cgroups" /\ Cgroup!Finish(s))

JobsFairness ==
  /\ \A p \in JobProc :
       /\ WF_jobVars(part = "jobs" /\ Jobs(FALSE)!Die(p))
       /\ WF_jobVars(part = "jobs" /\ Jobs(FALSE)!WaitOk(p))
       /\ WF_jobVars(part = "jobs" /\ Jobs(FALSE)!Unpark(p))
       /\ WF_jobVars(part = "jobs" /\ Jobs(FALSE)!ParkedEnds(p))
       /\ WF_jobVars(part = "jobs" /\ Jobs(FALSE)!Drained(p))
       /\ WF_jobVars(part = "jobs" /\ Jobs(FALSE)!Resume(p))
  /\ \A s \in JobScope : WF_jobVars(part = "jobs" /\ Jobs(FALSE)!CleanTerminate(s))
  /\ WF_jobVars(part = "jobs" /\ Jobs(FALSE)!HardTerminate)
  /\ \A c \in JobCaller :
       /\ WF_jobVars(part = "jobs" /\ Jobs(FALSE)!Ask(c))
       /\ WF_jobVars(part = "jobs" /\ Jobs(FALSE)!Changed(c))
       /\ SF_jobVars(part = "jobs" /\ Jobs(FALSE)!Read(c))

SamplesFairness ==
  /\ WF_sampleVars(part = "samples" /\ Samples(FALSE)!Tick)
  /\ \A p \in SampleProc :
       /\ WF_sampleVars(part = "samples" /\ Samples(FALSE)!Timeout(p))
       /\ WF_sampleVars(part = "samples" /\ Samples(FALSE)!Aborted(p))
       /\ WF_sampleVars(part = "samples" /\ Samples(FALSE)!Collect(p))
       /\ WF_sampleVars(part = "samples" /\ Samples(FALSE)!Record(p))
       /\ WF_sampleVars(part = "samples" /\ Samples(FALSE)!Evict(p))
  /\ WF_sampleVars(part = "samples" /\ Samples(FALSE)!CoordinatorEnds)

InfraFairSpec ==
  /\ InfraSpec
  /\ GroupsFairness /\ ChildrenFairness /\ CgroupsFairness
  /\ JobsFairness /\ SamplesFairness

-----------------------------------------------------------------------------
(* What the ports promise, on each platform; the properties of the waiters   *)
(* are in their module.                                                      *)

\* A group signal reaches no process of another scope or program, whatever the
\* kernel does with the numbers of processes that are gone.
NoStrangerSignalled ==
  part = "groups" => Groups!TypeOK /\ Groups!NoStrangerSignalled

\* Containment: user code runs in the group, cgroup or job of its scope only,
\* none joins a group that was killed, a root is owned until it is reaped, and
\* a hard kill ends every root that was registered when it began, unless two
\* things have failed: the write to cgroup.kill and the opening of the pidfd.
ScopeIsContained ==
  /\ [](/\ part = "groups" => Groups!GroupsAreDisjoint /\ Groups!RootsAreOwned
        /\ part = "cgroups" =>
             Cgroup!TypeOK /\ Cgroup!RunsInGroup /\ Cgroup!DroppedIsKilled
        /\ part = "jobs" => Jobs(FALSE)!TypeOK /\ Jobs(FALSE)!RunsInJob
        /\ part = "job_wait" => Jobs(TRUE)!TypeOK /\ Jobs(TRUE)!RunsInJob)
  /\ Groups!NoJoinAfterKill
  /\ Cgroup!HardKillReachesRoots

\* cleanup_scope: when it returns Ok nothing of the scope is alive, and nothing
\* is left of its group, cgroup or job, whatever failed before; only what a failed
\* spawn failed to undo may stay, a root that has run nothing or an empty
\* directory.
CleanedScopeIsDead ==
  /\ part = "groups" => Groups!CleanedScopeIsSwept
  /\ part = "cgroups" => Cgroup!CleanedScopeIsGone
  /\ part = "jobs" => Jobs(FALSE)!CleanedScopeIsDead
  /\ part = "job_wait" => Jobs(TRUE)!CleanedScopeIsDead

\* wait: the exit is that of the process the caller asked about, and its slot
\* stays until it is reaped, if its reuse token is available; without one, it is
\* that of a reaped process of the same number.  On Windows it counts as a kill
\* exactly when the backend killed it; published to the waiters it is found there
\* until the bound evicts it, and never replaced by a failure.
ExitIsTrue ==
  /\ [](/\ part = "children" =>
             Children!TypeOK /\ Children!ExitIsOwn /\ Children!SlotKeptUntilReaped
        /\ part = "jobs" => Jobs(FALSE)!OrderedDeathIsKill /\ Jobs(FALSE)!KillWasOrdered
        /\ part = "job_wait" => Jobs(TRUE)!KillIsOurs /\ Jobs(TRUE)!KillWasOrdered
        /\ part = "waiters" => TypeOK /\ HistoryExact /\ AttachedMirrorsSlot)
  /\ VerifiedExitKept

\* wait: an error is that of an attempt made since the call began, whoever else
\* asked for retries.
ErrorIsFresh ==
  /\ [](part = "children" => Children!ErrorIsFresh)
  /\ [][part = "job_wait" => Jobs(TRUE)!FreshAnswers]_jobVars

\* The cache of samples: none of a process that has ended, none of another
\* process, no CPU baseline without a slot, and one observation per child.
SampleIsTrue ==
  /\ part = "samples" => Samples(FALSE)!TypeOK /\ Samples(FALSE)!SampleIsTrue
  /\ part = "reads" => Samples(TRUE)!TypeOK /\ Samples(TRUE)!SampleIsTrue

\* A cleaned scope's roots are reaped, and a cleanup past its kill succeeds.
CleanupDrains == Groups!CleanedScopeDrains /\ Cgroup!CleanupSucceeds

\* Every wait on a process that has ended returns.
WaitsReturn == Children!WaitReturns /\ Jobs(FALSE)!WaitReturns

\* A kill wakes a waiter task that a failure has parked, so that the killed
\* process is reaped; and a dropped backend leaves no such task.
KillForcesAttempt ==
  /\ Children!KillForcesAttempt
  /\ Jobs(FALSE)!KillWakesWaiter
  /\ Jobs(FALSE)!DroppedBackendDrains

\* Every live process is sampled, or has its timeout as an answer, though
\* observations hang.
EverySampled == Samples(FALSE)!EverySampled
=============================================================================
