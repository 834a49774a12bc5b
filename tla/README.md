# A verification project for shepherd

shepherd starts operating-system processes inside *scopes*, watches them, and
promises that a scope's end is reported only from evidence: a process is
"ended" when it has been reaped, not when somebody sent it a signal. This
directory models that promise in TLA+, checks it with TLC on small instances
and proves most of its safety with TLAPS for all instances.

## 1. Inventory

| Part | State | Operations | Talks to |
|---|---|---|---|
| Exit taxonomy, process entity, scope aggregate (`shepherd-domain`: `exit.rs`, `lifecycle.rs`, `process.rs`, `scope.rs`) | a scope: `Open`/`Draining`, its processes, each with lifecycle state and recorded exit | attach, request and escalate termination, record exit, record reap, prune, begin scope termination | called under the registry lock |
| Scope registry (`registry.rs`) | scope id -> aggregate, one mutex | insert, look up, mutate, remove | shared by all tasks below |
| Waiters (`shepherd-infra/waiters.rs`) | a watch slot per process, FIFO of published exits, bound | `wait`, `try_get`, `signal_exit` | written by event handlers, read by `wait`/`terminate` |
| Supervisor (`shepherd-app/supervisor.rs`) | pending outcomes, operation mutex per scope, report history, shutdown and owner flags | `try_create_scope`, `spawn`, `terminate`, `wait`, `terminate_scope`, `shutdown`, drop of the last handle; monitors; observed scopes; sampler | everything |
| Event dispatch (`dispatch.rs`) | ordered list of handlers | waiter notification, registry pruning, integration translation | monitors and retries dispatch to it |
| Unix backend (`backend/unix.rs`) | child slots, anchors, process groups, waiter tasks and their retry channels | spawn, signal, wait, `cleanup_scope`, `hard_kill_scopes`, `hard_kill_all` | the kernel, which recycles numbers |
| cgroup containment (`backend/cgroup.rs`) | a directory per scope | membership, kill, finish, drop | cgroup file system |
| Windows backend (`backend/windows.rs`) | a Job Object per scope, slots, kill flags | as above | the kernel |
| Observed scopes, `with_scope` | a scope's published result, cleanup backstop | observe, terminate, drop | supervisor |
| Background tasks (`background_task/`) | admission, cancellation, timeout, result | run, cancel, join | a scope |
| Kept processes (`kept.rs`, `kept/`) | records on disk, claims, launch gates | launch, adopt, list, terminate | the file system, `/proc` |
| Services (`service.rs`, `restart.rs`) | run, attempts, backoff, readiness | start, stop, runner loop | kept processes or scopes |
| Output capture (`output.rs`) | byte-bounded buffer, tail | push, drain | a spawned process's pipes |
| Integration publisher (`publisher.rs`) | bounded queue | offer, drain | the embedding program |
| Sampler, usage, observation | caches | sample, read | read-only |
| Blocking facade (`shepherd/src/blocking.rs`) | a runtime | run with deadline | supervisor |

What is hard in it, and hard to test:

* **Many tasks, several locks.** A spawn worker, a monitor, two terminators, a
  shutdown, a quarantine retry and the drop of the last handle touch one
  process. Each takes the registry, pending-outcome, report and waiter mutexes
  one after another, so every order of the gaps is possible.
* **Cancellation.** Every caller is a future that can be dropped at any await.
  The scope must be neither lost nor reported twice, and outcomes collected by
  a cancelled attempt must survive it.
* **Failing calls.** `wait`, `kill` and `cleanup_scope` may fail. A failed wait
  proves nothing: the process goes to *quarantine* and must be waited for again.
* **Bounds.** Waiter history and report history evict.
* **Lateness.** Notifications of a failed wait are dispatched after the registry
  lock is released, possibly after the failure was corrected.
* **Crashes**, for kept processes, whose records outlive their owner.
* **Recycled names.** A number of a process that was reaped may belong to a
  stranger when it is signalled, waited for or sampled.
* **Calls that cannot be cancelled.** A spawn, a native observation or a record
  operation on a blocking thread goes on after the future that asked for it.

What makes each part correct: a verified outcome means a reap; no process that
exists is unowned; a committed report covers everything the scope owned; a
report or a waited-for exit is never lost in a gap or through eviction; failures
never replace evidence; a signal reaches nobody else; a cleaned scope is dead;
a kept name has one program at a time; what a caller waits for is answered. `PROJECT.json`
lists the single hazards with their lines and the properties that cover them.

## 2. Modules

| Module | Models |
|---|---|
| `ProcessScope` | `exit.rs`, `lifecycle.rs`, `process.rs`, `scope.rs` as constant operators on a scope value |
| `WaiterHistory` | `InMemoryWaiters` as constant operators on a value: slots, completion queue, eviction |
| `Waiters` | the same with its receivers, as a state machine on its own |
| `Supervisor` | supervisor, registry, dispatch and the operating system, composed; extends `WaiterHistory` |
| `Custody` | the inductive invariants of `Supervisor`: who answers for a process, who knows of its end, what a report owes |
| `ScopePromise` | the abstract promise about scopes and their processes; `Supervisor` implements it |
| `ObservedScope` | observed scopes and `with_scope`: cleanup channel, backstop, bounded histories |
| `BackgroundTask` | one background task: worker, owned spawn, cleanup, result and its observers |
| `Kept` | `kept.rs`, the record store and the gated launch: kept processes under one name, with owners that die |
| `Service` | the runner of a service name in several owners, over kept or scoped runs |
| `SingleRun` | the abstract promise of a kept name; `Kept` and `Service` implement it |
| `RestartPolicy` | `restart.rs`: delay and giving up, against the capped power |
| `OutputCapture` | `output.rs` and the accounting of a task over its reads |
| `IntegrationEvents` | the integration translator, its drain task and the broadcast publisher |
| `ProcessGroups` | the Unix backend's process groups and anchors over a kernel that recycles numbers |
| `ChildWait` | the Unix backend's waiter tasks, slots, `wait` and its retries |
| `Cgroups` | `cgroup.rs` and the cgroup branches of the Unix backend |
| `JobObjects` | the Windows backend |
| `Sampler` | the sampler's coordinator, the pool of native observations, `sample_sync` and the cache |
| `MCSupervisor`, `MCKept`, `MCService`, `MCChildWait` | one model each for TLC |
| `MCScenarios` | `Supervisor` for TLC within the bounds of one of four scenarios |
| `MCLaunch`, `MCComponents`, `MCInfra` | several models for TLC, see below |
| `OperatorLemmas` | facts about the operators of the first two modules |
| `SupervisorProofs`, `OwnershipProofs`, `EvidenceProofs`, `GuaranteeProofs` | theorems about `Supervisor`, each building on the one before |
| `InfraProofs` | theorems about `Waiters`, `ProcessGroups`, `ChildWait`, `Cgroups`, `JobObjects` and `Sampler`, through the instances of `MCInfra` |
| `LaunchProofs` | theorems about `Kept` and `Service`, through `MCLaunch` |
| `ComponentsProofs` | theorems about `BackgroundTask`, `ObservedScope`, `IntegrationEvents`, `RestartPolicy` and `OutputCapture`, through `MCComponents` |

Who relies on whom: `Supervisor` is the composition of domain, registry, waiters,
dispatch and an abstract operating system. `ObservedScope`, `BackgroundTask` and
`Service` take a supervisor or kept call as one step whose answer may be a failure;
the modules of `backend/` take from `Supervisor` that `spawn` and `cleanup_scope`
of a scope exclude each other and that no spawn follows a cleanup. `SingleRun` is
the interface between `Kept`, which provides it, and `Service`, which passes it on.

*Several models in one run.* `MCLaunch`, `MCComponents` and `MCInfra` instantiate
models that share no state. A variable `part` is chosen in the initial state and
says which of them a behaviour belongs to; the others keep their initial state.
Fairness conditions are those of the component with the part as a guard. A
property is the conjunction of named properties of the component modules that
answer the same question on different platforms: `CleanedScopeIsDead`, for
instance, is what `cleanup_scope` promises with process groups, cgroups and Job
Objects. A module that is checked with two choices of constants has one instance
with a parameter for the choice: `Services(kept)`, `Jobs(more)`, `Samples(more)`.
`MCScenarios` is different: it extends `Supervisor`, and a behaviour of it
is one of the Supervisor's in which no step leaves the bounds of its scenario.

### How `Supervisor` corresponds to the code

*Variables.* `registry`, `pending`, `operations`/`holder`/`serial`,
`reports`/`completedScopes`, `shuttingDown`, `ownersDropped` and
`shutdownSerial` are the fields of `Inner`. A scope's operation mutex is an
`Arc<Mutex<Option<ScopeReport>>>`: `holder` says who has it, `serial` whether it
contains a report, `serialReport` which, and `operations` whether the map still
leads to it. Callers that already hold the `Arc` keep it after the map forgets
it, which is what `QueuedTerminatorAnswered` is about. `os`, `killSent` and
`faults` are the operating system behind the `ProcessBackend` port. The
remaining variables are the program counters and locals of the tasks: `spawnPc`
(spawn worker), `monPc` (monitor), `call` (a caller) and `subPc` with `subFut`,
`subObs`, `subRes` (a `terminate` or `wait`, run directly or by a worker of a
`JoinSet`, with its receiver, its observer and its result). `owed` is a history
variable: which processes the scope owned when it began to drain.

*Actions.* An action is the code between two awaits, or one critical section
where the order of two sections can be observed. The chain of a termination is
`TerminateScopeCall`, `TerminateScopeLookup`, `ScopeSettled` or `ScopeDrain`,
`ScopeJoin` per worker, `ScopeSweep`, `ScopeSweepErr` or `ScopeSweepOk`,
re-observation (`WaitStart`, `WaitObserved`, `ReobserveTimeout`, one process at
a time), `ScopeUnverified` or `ScopePublish`, `ScopeUnregister`, `ScopeRetire`,
`ScopeRemember`. A worker is `TerminateStart` to `TerminateTimeout` for a
process whose monitor is running, `RetryWait` to `RetryPrune` for a quarantined
one. `Cancel` drops a caller's future at an await: the guards it holds are
released and its workers aborted. A process identity doubles as the identity of
its one spawn attempt.

*Abstractions.*

* Time is nondeterminism: a grace period or timeout may end in any state in
  which it is armed. A graceful signal is an optional `OsExit`.
* Exit codes, the forced flag, resource figures and messages are left out. What
  is kept of an exit is its outcome and whether that is verified.
* A sweep (`cleanup_scope`, `hard_kill_all`) is assumed to reach every process
  of the scope, respectively of the supervisor, that is not reaped; the answer of
  `cleanup_scope` may still be an error. A single `kill` may fail unnoticed.
* `dispatch` is an `async` call whose handlers never suspend. It is treated as a
  point where a cancelled worker stops, as the comment in
  `record_recovered_exit` allows for; the model therefore has more behaviours
  than the code, never fewer.
* A panic of a `JoinSet` worker, the sampler that `shutdown` joins, and the
  publication of results to observed scopes are not in this module.
* The number of failed backend calls is bounded by `MaxFaults`.

### How `Kept` corresponds to the code

*Variables.* `store` is the record file of the name. `run[i]` is the life of a
process instance (pid, start token and boot): held at the gate, running its
program, dead, and its group swept, with or without stragglers. `refs[t]` is the
`Arc<KeptLock>`: shared by the call or its handle, by the commit closure inside
`gated_spawn` and by the record operation on a blocking thread; the file lock is
held while the set is not empty. `op`, `pc`, `rec`, `inst` and `result` are the
locals of a call and the handle it ends with, `gate` is the progress of
`gated_spawn`, `work` the record operation under way.

*Actions.* `start` is `Call`, `Claim`, `Read`, `StartAttach`, `Launch`, on the
blocking thread `GateFork`, `GateCommit`, `GateGo`, then `LaunchReturn` and
`Work` (the rewrite with the executable, or the removal after a failure).
`adopt` is `Call`, `Claim`, `Read`, `AdoptAttach` and perhaps `Work`; `list` is
`Call`, `Read`, `ListAttach`, `ListProbe`, then `ListLive` or `ListReread` and
`Work`; a handle's methods are `ExitedCall` to `TerminateTimeout` and `Release`.
`Cancel` drops the future at an await, and leaves the blocking thread running.
`Crash` is the death of the owner, threads and claim included: the child at the
gate then reads the end of its socket (`GatedEof`).

*Abstractions.*

* One name: names share nothing but the directory. A listing is its handling of
  that name. The claim that a cancelled call's blocking thread takes and drops at
  once is left out.
* Each task is an owner of its own for `Crash`, and starts a new call only when
  its earlier blocking work is done; overlapping calls are those of other tasks.
* `attach` is an answer: found, gone or an error (`CallError`). The owner that
  watches a process finds it until its own watcher has reaped it, so a dead,
  unswept process may be found. That the identity check behind the answer is
  right, under reuse of pids, is left out (section 5), as is the question
  whether the watcher's sweep hits the right group.
* A watcher's verdict is one per instance. `force_timeout` is always given.
* A write is a rename and a sync of the directory: a failed one leaves the old
  record or the new one. The machine itself does not crash.
* The go byte fails to be sent only when the child is gone.
* `MaxFaults` bounds the failing calls. Exec failure is not counted.

### The parts around the supervisor

`ObservedScope`. `report` is the value of a scope's watch channel, `results` and
the two orders are the maps with bounded histories, `armed` the backstop. `Verify`
and `Unverified` are one attempt of `terminate_scope` with its publication.
`Finish`, `Look`, `Terminate`, `Decide`, `Settle` are the owner's cleanup;
`Interrupt` drops it at an await, which fires the backstop; `JoinFailed` is a task
that was aborted or panicked. `OtherTerminate` is anybody else who terminates the
scope. `WithScope` to `BlockReturn` are `with_scope`, `Subscribe` and `Observe` are
`wait_scope_cleanup`. The set of processes a `ScopedProcesses` handle may address
is left out.

`BackgroundTask`. `SpawnBegin` to `SpawnDone` are the owned spawn in its own task,
which holds the scope's operation mutex (`LockFree`) and so delays the cleanup.
The worker is `Begin`, `SpawnWait`, `Running`, `Clean`, `Recover` (takes the
observation of a spawn that was admitted late), `Drain`, `Publish`. `Panic` and
`FinalizePanic` are panics of what the worker calls, at its catch points. Output is
a number of bytes and whether the pipe is at its end.

`Service`. A runner is `Launch`, `Adopt`, `Replace`, `NewRun` or `Spawn`,
`UntilReady`, `Running`, `EndFailed`, `Backoff`, `Finish` and `Finishing`;
`HandleStop` is `stop`, `release` or the drop of the handle, and `Crash` the death
of an owner. A kept call is one step and holds the claim, except the wait for an
exit: `KeptProcess::exited` first sees the exit (`ExitSeen`), then has the record
removed on a blocking thread that shares the claim (`forgets`, `ForgetEnd`), and a stop
may give the wait up in between. So a final status can be seen, and another runner
start, while the claim is still taken; `FinalMeansLetGo` says what holds then. A
start that fails has left no process (`NothingLost` in `GuaranteeProofs`,
`FailedStartLeavesNothing` of `Kept`). A run's `life` tells the
leader from its process tree; `fate` is a history variable that says who let a run
go. Launch fingerprints are compared, durations are not modelled.

`RestartPolicy`. `Top` is `Duration::MAX` and `saturating_mul` saturates there.
The code's loop is the recursive function `grown`; the reference is the power,
capped.

`OutputCapture`. A byte is its number in the order of arrival, a chunk an interval
of them, so that loss, order and duplication are visible. A `push` may exceed the
capacity, which may be zero. The readers end when the pipes close, or are aborted
after the reap of the root.

`IntegrationEvents`. `Handle` is one event given to the translator, which never
waits; `Take`, `Publish` and `Timeout` are the drain task, and the ring loses the
oldest events for subscribers that lag.

### The backends

`ProcessGroups`. The kernel is a table of numbers: a number is free when no
process has it as its id or as its group. Actions are the critical sections of the
state mutex. `EnsureAnchor` and `ForkAnchor` (fork and insertion in one step: the
mutex is taken only for the insertion, but until then nobody knows the number) and
`SpawnJoin` are a spawn; `PollExit`, `PollStolen` the anchor's
waiter, where the theft by the host program and its discovery are one step, and ECHILD
is the only error of its waitpid (another one, or the end of the SIGCHLD stream, would
leave the anchor to a reaper thread with its exit published as an error);
`RuntimeDown` ends the runtime, after which orphaned children are reaped by a
thread (`OrphanReap`). `struck` is a history variable: the strangers a group signal
has hit. A process may leave the group (`Escape`); what it forks afterwards is not
followed, since no group can contain it.

`ChildWait`. `worker` is the waiter task, `watch` and `version` the watch channel,
`queued` the retry channel of capacity one, `children` the slots with their key of
number and reuse token. The token is the start time, or 0 when it could not be read;
children of one number without a token have one key, a spawn takes the slot of its
predecessor over, and a task that nobody can ask any more ends (`ParkedEnds`) and leaves
its child to a thread (`OrphanReap`). `Ask`, `Changed`, `ChannelClosed`, `Read` are the
steps of a `wait`; a kill may skip the signal and only ask for the retry (`KillSkips`).
What is promised without a token is less, see section 4.

`Cgroups`. Membership is written between fork and exec, under the registry mutex
(`StateLocked`); a hard kill is `HardKill` (cgroup.kill) and `HardRoots` (registered
roots) under two mutexes in turn. A root whose pidfd could not be opened (`Register`) may
be skipped by the second: it is signalled by number only if its start time is known. A
`Group::create` that can neither use nor remove its directory leaves a stray one
(`MembershipFails`). `Finish` waits until the group is not populated
and removes nested directories first. Numbers are not modelled: a cgroup is not
addressed by a number. A crash of the program kills nobody in this mode.

`JobObjects`. A root is `Create`d suspended, `Assign`ed, `Resume`d; any of them may
fail (`SetupFails`), and so may the two calls that undo a setup (`UndoKill`,
`UndoWait`), whose errors the code drops. A kill is split into flag and termination, as
waiter tasks and the kernel do not take the mutex; an exit counts as a kill when the
flag is set and the code is the backend's own (`Classify`). Closing the last job
handle ends the members but promises no exit code, as the code sets none.

`Sampler`. `Tick`, `Acquire`, `Timeout`, `Aborted`, `Collect` are coordinator and
pool, `Check`, `Read`, `Insert`, `Recheck` the steps of `sample_sync` on a thread
that may hang at each. Figures are abstracted to whose they are: the process's own,
a stranger's, an error. Start times are taken to be readable.

## 3. What TLC checks

| Run | Question | Bounds |
|---|---|---|
| `drop_handle` | Do a termination, a wait, a shutdown and the drop of the last handle lose a process, call one reaped that is not, bring back a corrected failure, miss a spawn under way, or break `ScopePromise`? | 1 scope, 2 processes, 1 caller, 1 fault, history of 1: one process spawns late, or is quarantined, while the other ends, and the correction can be evicted before the failure is notified |
| `scenarios` | Four uses of the supervisor. *terminators*: is the report complete whichever of two terminators publishes it? *quarantine*: also when the calls meet a process whose waits fail? *history*: do queued or late callers meet a gap between scope and report? *shutdown*: does one that returned Ok leave anything? | 1 scope, 2 processes, 2 callers, 1 fault; 1 scope, 1 process, 2 callers, 2 faults (both waits of a retry fail); 2 scopes, 1 process, 2 callers, 1 report kept; 2 scopes, 2 processes, 2 shutdowns |
| `liveness` | Do `terminate_scope` and `wait` return? | 1 scope, 1 process, 2 callers, cancellation, 1 fault, fair |
| `launch` | Can cancelled calls, dead owners or failing operations leave a program without its record, two programs under a name, or a run without its runner? | 2 calls or runners, 2 instances, 2 faults, 2 owners (scoped: 1), 2 fingerprints, 1 tolerated failure: a record, its replacement, and a call that still has the first in mind |
| `launch_liveness` | Does a child leave its gate, a start return, a stop end its runner, a dead service stop being Ready? | 2 calls, 1 instance, 1 fault, fair |
| `components` | Are the buffers exact, the delays the capped power, a verified cleanup never lost, a task's result true, and everybody answered? | capacities 0 to 3, chunks to 4, 6 bytes; 7 events, queue and ring of 2, 2 subscribers; durations to 15, factor to 3, 5 failures; 2 scopes, 1 waiter, histories of 1; a task with 3 bytes; fair |
| `infra` | Does a backend signal a stranger, let a process escape, call a live scope clean, answer with another's exit or an old error, or cache another's sample? | waiters: 3 processes, 2 receivers, history of 2; groups: 3 numbers, 2 roots, a descendant, a stranger, 1 failure; children: 2 processes of one number, with and without token, 2 callers, 2 calls, 1 failure, a host that reaps; cgroups: 2 scopes, 2 processes, 2 failures (write and pidfd); jobs: 2 scopes, 2 processes, 1 failure; job waits: 1 process, 2 callers, 3 failures (a setup and both steps of its undo); samples: 2 processes and 1 thread, or 1 and 2 |
| `infra_liveness` | Do cleaned scopes drain, waits return, kills wake parked waiters, is a process whose observation hangs answered? | 1 scope, 1 or 2 processes, 2 waits, 1 failure, fair |
| `wait_gap`, `kept_unverified`, `service_stopped`, `child_wait_lost` | findings, below | the smallest instance that shows each |

Why the bounds are enough to be of interest: between them the runs have a second
actor for every shared piece of state, one more entry than every bounded history
holds, and at least one failure per kind of call that may fail. A number is free
again when its process is reaped, so numbers are recycled within the bounds. What
the bounds leave out are combinations: two terminators together with the drop of the
last handle, or more than two processes in a scope, are not reached.

Deadlock is checked in `drop_handle`, `scenarios`, `liveness`, `launch` and
`launch_liveness`. The system may rest where the last handle was dropped (`Ended`)
and where all runners of a service are done (`Ends`); the parts of `components`
and `infra` end when their bounded inputs are used up. Identities are only compared
for equality; the safety runs use symmetry, the fair ones do not. Every property
has a mutant: a definition changed as a plausible mistake in the code would change
it, under which TLC finds the property violated.

*Fairness* (`FairSpec` of each module).

* `Supervisor`: weak for spawn workers, monitors, callers and workers (the runtime
  polls every ready task, and a timer that is armed fires); strong for acquiring a
  scope's operation mutex and the shutdown mutex (tokio's mutex is first-in
  first-out); weak for the delivery of SIGKILL. None for a process exiting by
  itself, for calls of the embedding program, for cancellation or for failures.
  `CallsReturn` is checked with `ForceTimeout = TRUE`: without that option
  the code waits for the process without a limit, by design.
* `Kept`, `Service`: weak for calls, launch, record operations and the runner's
  steps (blocking threads end, the claim's retries have a deadline), for the
  watcher's sweep and for the child that reads its closed socket. `launch` is
  the embedding program's and may hang; only once a stop is asked for is that step
  fair, as the stop interrupts it.
* `ObservedScope`, `BackgroundTask`: weak for the cleanup and the worker; strong for
  the end of a drain, whose deadline is armed once while reads go on.
* `OutputCapture`, `IntegrationEvents`: weak for the readers' end after the reap and
  for the dispatcher. Nothing makes a publisher answer.
* Backends: weak for the delivery of kills, for waiter tasks and callers that are
  ready, for the polls of a cleanup. Strong only for the read of a caller of the
  Windows `wait`, which needs the state mutex others take in between. In
  `infra_liveness` the groups have one failing wait: a kill buys one retry, and
  more failures than kills park a waiter for good, as the code intends.
* `Sampler`: weak for ticks, timeouts and the coordinator; none for the native
  observations, which may hang for ever.

*Refinement.* `SingleRun` says: one program at a time, none again after it ended.
`KeepsOneRun` maps `Kept`'s instances to it, `ServiceKeepsOneRun` the runs of a kept
service, through replacement, adoption and the death of owners. `ScopePromise` says:
processes are born into open scopes, a scope drains once and is reported when nothing
of it is left, and only without an owner is a process abandoned. `KeepsPromise`, in
`drop_handle`, maps the supervisor to it. All three are proved as well.

*Findings*, each an expected violation; the quotations are in `PROJECT.json`.

* `wait_gap`. `terminate_scope` removes the scope from the registry when its report
  is complete, which may be before the monitor has published the exit to the
  waiters. A `wait` in that interval answers `UnknownProcess` for a process that
  was owned and whose history was not evicted.
* `kept_unverified`. The doc of `KeptTermination` says that the record is removed
  only when the outcome is verified; `finish` removes it on purpose when the group
  had stragglers, since the record could no longer reach them.
* `service_stopped`. `finish` publishes `Stopped` whether or not the run's end was
  verified (`service.rs` 756-766), and after a failed run the outcome is discarded
  (589, 605), so `Stopped` and `Failed` may be published while the process runs; their
  docs say that nothing is running. In the run a stop arrives before the run is ready,
  and its termination is not verified.
* `child_wait_lost`. After ECHILD the waiter task leaves its loop but keeps the
  retry receiver until its output readers have ended. A `wait` in between has its
  request accepted and is never answered.

## 4. What is proved

Each theorem holds for any number of scopes, processes, callers, owners and
failures, and any positive history bound.

| Theorem | Says |
|---|---|
| `SupervisorProofs!InductiveInvariant`, `TypeCorrect` | `Spec => []IndInv`, `Spec => []TypeOK` |
| `SupervisorProofs!VerifiedOutcomesAreEvidence` | a verified outcome, wherever it is held, belongs to a reaped process |
| `OwnershipProofs!Responsibility` | the mutex, the scope, the call and the spawn worker that answer for a process are those the code expects |
| `OwnershipProofs!DropReachesEveryProcess` | once the drop of the last handle has swept, whatever is alive has been killed or is a spawn's that will sweep it |
| `EvidenceProofs!RegistryIsFirst` | the registry knows of a verified exit before anybody else |
| `EvidenceProofs!HistoryIsNotStale` | a failure that was corrected is not what `try_get` answers |
| `GuaranteeProofs!NoProcessIsLost` | an attached process is owned until it is reaped |
| `GuaranteeProofs!ReportsAreComplete`, `RacingReportsAreComplete` | a committed report covers everything the scope owned, whichever terminator commits it |
| `GuaranteeProofs!EvidenceIsMonotone` | verified evidence is never replaced |
| `GuaranteeProofs!QueuedTerminatorIsAnswered`, `NoGapBeforeTheReport` | a terminator finds the scope or its report; `UnknownScope` is answered for an evicted report only |
| `GuaranteeProofs!ShutdownEndsEverything` | a shutdown that returned Ok has left nothing |
| `GuaranteeProofs!ScopesKeepPromise` | `Spec => ScopePromise!Spec` under the mapping of `Custody` |
| `InfraProofs!WaitersInvariant` | the inductive invariant of the waiters |
| `InfraProofs!HistoryIsExact` | the queue holds exactly the processes whose slot has an exit, once each, within the bound |
| `InfraProofs!ReceiversAreReached` | eviction strands no receiver |
| `InfraProofs!VerifiedExitsAreKept` | a published verified exit stays until it is evicted, and for who has read it |
| `LaunchProofs!KeptInvariant` | the inductive invariant of the kept processes |
| `LaunchProofs!LiveProcessIsRecorded` | a kept program that runs has its record |
| `LaunchProofs!LateWorkDoesNoHarm` | a record operation that outlives its call removes only a stale record and rewrites only its own |
| `LaunchProofs!FailedStartIsClean` | a start that returns an error has left no process |
| `LaunchProofs!AdoptNoneIsTrue` | `adopt` answers `None` only when nothing runs or can still be let through its gate |
| `LaunchProofs!VerifiedEndStaysClean` | after a verified end the group is swept and no record names the instance, whatever other calls do |
| `LaunchProofs!KeptImplementsSingleRun` | `Spec => SingleRun!Spec` under the mapping: one program at a time under a name, none twice |
| `LaunchProofs!ServicesInvariant` | the inductive invariant of services, kept and scoped |
| `LaunchProofs!ServedRunsStayKept` | a kept service ends no run that it may adopt, a verified stop leaves nothing, a final status means that the run and its handle's claim are let go; a removal that outlives its wait takes the record of no live run |
| `LaunchProofs!ScopedRunsStaySupervised` | a scoped run that lives has its runner, the only one of its owner |
| `LaunchProofs!ServiceImplementsSingleRun` | the runs of a kept service implement `SingleRun` |
| `InfraProofs!GroupsInvariant`, `ChildrenInvariant`, `CgroupInvariant`, `JobsInvariant`, `SamplesInvariant` | the inductive invariants of the five models of `backend/` and the sampler |
| `InfraProofs!NoStrangerIsSignalled` | no group signal reaches another scope or program |
| `InfraProofs!CleanedScopesAreDead` | a scope that `cleanup_scope` called clean is dead: groups, cgroups and jobs; only what a failed spawn failed to undo may be left, see below |
| `InfraProofs!ScopesAreContained`, `KilledGroupIsClosed`, `HardKillFallsBack` | containment: `ScopeIsContained`, and two action properties in it; a hard kill ends every root registered when it began unless its write and the root's pidfd both failed |
| `InfraProofs!ExitsAreTrue`, `KillIsToldTruly` | `wait` answers with the exit of the process it was asked about (on Unix, if its start time could be read), a kill exactly when it was one |
| `InfraProofs!ErrorsAreFresh` | an error of `wait` is newer than the call |
| `InfraProofs!SampledIsTrue` | the cache of samples is true, and one observation per child is under way |
| `ComponentsProofs!ComponentsInvariant` | the inductive invariants of background tasks, observed scopes and outbound events |
| `ComponentsProofs!TaskResultStaysTrue`, `ObservedOutputOnlyGrows` | a task's result is true, and what its observers see only grows |
| `ComponentsProofs!CleanupEvidenceIsFinal` | a verified cleanup report is final, reaches the owner, and allows it to give up the backstop |
| `ComponentsProofs!EventsStayAccounted` | every event is in one place or counted as dropped; subscribers see the dispatch order |
| `ComponentsProofs!FailuresAreTolerated`, `CaptureIsBounded` | a service fails at the failure after `max_failures`; captured output stays within its capacities |

Assumptions, all on constants: the history bounds are positive
(`HistoryBoundAssumption`, `BoundsAssumption`), "nobody" is not an identity and
callers are not processes (`ScopeAssumption`, `NoPidAssumption`), "no instance" is
not an instance and the number of faults is a number (`KeptAssumption`), and the same
for the numbers, scopes, children and failures of the backends (`InfraAssumption`), the
runs and owners of services (`LaunchAssumption`), and the bounds of the remaining
components (`ComponentsAssumption`: sizes of queues and histories are positive,
capacities may be zero).
TLC evaluates them in the runs.

Every invariant below was an `INVARIANT` of TLC on instances of its own, mostly
larger than the runs', before it was proved.

*Evidence.* `VerifiedMeansReaped` has seven parts, one for each place that can hold an
outcome. Together they are not inductive: an outcome flows from a task's local
state into the shared state. `IndInv` adds what a task knows at the step where
it copies. An attempt that has not reached the backend has no process
(`SpawnFresh`: only the spawn overwrites `os[p]`). A monitor or retry about to
record has seen the reap (`MonitorReady`, `WorkerReady`). A result is there when
it is used (`WorkerReady`), only scope terminations re-observe (`CallReady`),
and each has a scope (`CallScoped`). The proof has one lemma per action. Each
shows that the parts which read the variables it changes are preserved; the
other parts follow from `UNCHANGED`. What the operators of `ProcessScope` and
`WaiterHistory` do to types and evidence is proved once in `OperatorLemmas`.

*What callers are promised.* The other theorems about `Supervisor` are layers on
top, in `Custody`; each layer takes the ones below as given.

1. `Responsible`: a spawn worker and a terminator at work hold the scope's mutex
   (`Mutex`); a created scope is registered until its report is committed
   (`ScopeLife`); a call's scope exists and is drained or committed as its step
   says (`CallLife`); an admitted spawn finds its scope open when it attaches
   (`SpawnLife`). The reach of the drop follows: a spawn that it misses still has to
   read `owners_dropped`.
2. `RegistryLeads`: whatever verified exit a waiter slot, a monitor, the pending
   outcomes, a receiver or a worker holds is in the registry, or was pruned from
   there (`Settled`); until a monitor has recorded nobody else does
   (`MonitorFirst`). So a correction, made under the registry lock, precedes every
   late notification of the failure it corrects, which is `NoStaleFailure`.
3. `Accounted`: until the commit, a process the scope owed is listed or has a pending
   outcome, recorded exits are pending outcomes (`DrainRecorded`), and a terminator
   has a worker for every process without one (`DrainTracked`). On the
   three rests `NothingLost`: a process with a monitor is owned until it is reaped,
   and a spawn that failed leaves no child behind but one that the drop has killed.
4. `Concluded`: the report queue lists reports once each and is full once one was
   evicted (`ReportHistory`), a scope without operation mutex is committed
   (`ScopeRetired`), and a shutdown has every registered scope before it
   (`ShutdownLife`). That gives `NoReportGap` and `ShutdownIsFinal`.

*The promise.* Under the mapping a scope is open, draining or reported, and a process
is alive in its home until it is reaped, unless its spawn found no owner and killed it.
Four steps are more than the end of one process or a stutter. A birth finds its scope
open (`SpawnLife`, since the worker holds the mutex from the check on). The step to
"abandoned" needs `owners_dropped`. A drain is the only step that closes a scope
(`ScopeEvolves` for all others). And when a report is committed nobody is alive: with a
monitor by `ReportIsComplete`, without one because its scope would be open.

*Kept.* The argument is the claim. `LiveHasRecord` alone is not inductive: a
removal queued earlier would break it. `IndInv` says that one task at a time
shares the claim (`ClaimExclusive`) and that whoever is about to write does
(`ClaimHeld`); then what a task knows of the record, that it is the one it read,
its own, or that of a dead process (`CallKnows`, `LateWorkIsSafe`), survives the
steps of all others. `CallAlone` relates a call to the work it left behind,
`StartKnows` follows the child of a launch, and `RecordIsOfProcess` lets an
attach that finds nothing conclude that the process has died. The gate between
commit and go is the one place outside the claim, after a cancelled start: there
the child is dead or the record is its own, whoever else has the claim.
The refinement follows from the same invariant. The mapped state changes only when
a child is let through its gate or a process dies. `LiveHasRecord` makes the first
exclusive: the record is that of the child at the gate, so nobody else runs.
`VerifiedEndIsClean` needs `EndInv` as well: until its commit nobody else names a
forked child, so an instance that was swept is not committed afterwards.

*Services.* A runner has a run exactly between its start and its end, a kept one has the
claim with it (`RunIsHeld`), and it is the only runner of its owner (`OneRunner`). Since
the record names the run that is alive or held (`RecordLeads`), a launch that may
happen finds none alive, which is the refinement of `SingleRun`. While a removal shares
the claim no run is alive and none can start (`RecordLeads`), so a removal whose wait was
given up takes only the record of a run that is gone. A runner loses the
right to adopt only through a run of its own (`MayAdoptFirst`), so it never replaces one
that matches because an earlier attempt failed.

*Background tasks.* A process, its attached spawn and its admission exist together
(`AttachedIsAdmitted`); the observation stays with who took it unless the worker
panicked (`TakenIsObserved`), and recovery after the cleanup finds it
(`RecoveredIsObserved`). After the cleanup no spawn is admitted (`CleanedIsClosed`); the
result is published last (`PublishedLast`).

*Observed scopes.* A scope that is not registered any more was verified and its report
is in the channel, whatever the histories have forgotten (`GoneIsVerified`,
`HistoryIsGone`, `RegisteredHasResult`); verified means reaped (`VerifiedIsReaped`).

*Outbound events.* Queue, drain task and ring are in the order of dispatch, each part
after the next (`InOneOrder`); a subscriber has only events before its cursor
(`GotWhatPassed`). Without `StartedOnce`, that the drain task takes the receiver once,
the order is not inductive: a second task would publish over the first one's event.

*Process groups.* `NoStrangerSignalled` speaks of a history variable and needs to know
who is in a group. Only roots and their descendants are in a group that is not their
own, and while its number is somebody's it is that of their scope's anchor
(`GroupsLed`). As long as no exit of the anchor is published its waiter has the child,
and the child, live or zombie, pins the number (`AnchorPins`, `Pins`); a root has one
owner at a time (`OneReaper`); and everything that stays with a scope is in its
present group, dead or dying once a kill or cleanup has passed (`GroupHoldsScope`).
Hence the members of a group that is signalled are of its scope, and a scope that was
cleaned has nothing left alive.

*Waiting.* Slots are keyed by number and token (`SlotIsKeyed`), so a call is
subscribed to a child with the key it asked about: its own, if the token is available.
Without tokens a wait that comes after the number was recycled may answer with the
exit of the later child, and remove its slot; what remains true is that the exit is
of a process that was reaped, and that the slot of a child that is not reaped never
leads to another one. `WorkerKnows` relates the task's last outcome, the
channel and the kernel; `CallKnows` says that a failure which a call could read is
newer than the call, or is the loss of the child.

*cgroups.* A spawn has its scope's directory in the table and no cleanup has begun
(`SpawnHasGroup`); the table lists the directories there are (`TableIsTree`); a cleanup
closes its scope before anything else (`CleanupCloses`). So what runs is in a directory
the cleanup kills, and an empty one stays empty. A stray directory, which cleanup does
not see, never had a process (`StrayIsEmpty`). Between the two halves of a hard kill a
root it aimed at was killed with its group or is still registered, with a pidfd unless a
second call failed (`RootsAreAimedAt`).

*Job Objects.* A root runs nothing until its spawn is over, and whatever else is alive
is in the registered job of its scope (`SpawnIsSuspended`), or is left by a setup whose
undo failed before the root was in the job (`Leftover`: suspended after three failures,
dying after two, in no job, never run); a root that a kill ends was
flagged first (`FlagBeforeKill`); a waiter task has its slot until it has published an
exit (`WaiterHasSlot`); a caller reads a value that came after its call, or an exit
(`CallerKnows`).

*Sampler.* A reader holds the flag of its process from the queue to its end
(`QueuedHasFlag`, `ReaderHasFlag`), which makes it the only one. What it has read
while the process still runs is the process's own, and only that passes the second
identity check (`AnswerIsOwn`). Monitor, registry and kernel agree on the life of a
process (`MonitorFollows`): a result is stored for a live process only, and the
eviction comes after the registry says that it is not live.

A behaviour of `MCInfra` is one of each of its components (`InfraIsItsParts`), so the
theorems about them carry over to the properties of the run `infra`. `JobObjects` and
`Sampler` are there with two choices of constants each; the lemmas take the choice as a
parameter, and `JobsHold` and `SamplesHold` say the invariant of both. `MCLaunch` and
`MCComponents` are treated in the same way (`ServicesHold`, `ComponentsHold`).

Only model-checked: the liveness properties and the absence of deadlock (beyond the
prover), and two properties as a whole. `BuffersExact` compares the captured bytes with
a fold over all chunks; its part about events (`EventsStayAccounted`) and the capacities
(`CaptureIsBounded`) are proved. `DelayIsCappedPower` compares the loop of `delay` with
the capped power; its part about `max_failures` is proved (`FailuresAreTolerated`). The
rest of both would need induction over data, which is also beyond the prover.

## 5. Plan and what is not modelled

The components of the inventory are modelled but for what follows. The next module would
be `KeptWatch`: the kept watcher's own re-arming, its pidfds and the reuse of numbers
between attach and signal (`kept/unix.rs` 340-573), behind the answers that `Kept` takes
for granted.

Not modelled:

* On hosts without pidfds, the window between an identity check and the signal: the
  documentation names it as a limit, so there is no promise to check.
* Which processes a `ScopedProcesses` handle may address, and the histories of OS
  pids and captured outputs: look-ups without a protocol.
* Usage, accounting files and observation: read-only, and nothing depends on them.
  The sampling of the Windows backend has the pool and the cache of `Sampler`.
* The capability probe: input/output at start-up, before any scope.
* The null backend: it keeps nothing.
* The blocking facade: each call blocks on the asynchronous one.
* Specs, builders, identities, the clock and errors: values without behaviour.
* Test support, fixtures and tools.
