---------------------------- MODULE BackgroundTask ----------------------------
(***************************************************************************)
(* One background task (shepherd-app/src/background_task/task.rs): its     *)
(* worker, between cancellation, the timeout, the owned spawn that may     *)
(* outlive the wait for it, the cleanup of the scope and the collection of *)
(* output, with observers that read at any time.                           *)
(*                                                                         *)
(* spawn_owned keeps the scope's operation mutex from its first check to   *)
(* its last event; owner.finish (ObservedScope) needs it too.              *)
(***************************************************************************)
EXTENDS Naturals

CONSTANT MaxBytes      \* bound on what the command writes

VARIABLES
  proc,          \* the command's process
  ended,         \* its exit has reached the waiters
  pipe,          \* bytes written and whether the pipes are closed
  closed,        \* the scope admits no process any more
  spawn,         \* spawn_owned, in its own task
  admission,     \* the oneshot with the SpawnObservation
  stop,          \* Shared::stop
  pc, cause,     \* the worker
  observation, exit, cleanup,
  source,        \* Shared::output.source
  current,       \* Shared::output.current
  last,          \* the worker's own copy of the output
  failed,        \* the finalization panicked
  status,        \* Shared::state
  result

vars == <<proc, ended, pipe, closed, spawn, admission, stop, pc, cause, observation,
          exit, cleanup, source, current, last, failed, status, result>>
childVars == <<proc, ended, pipe, closed, spawn>>
outVars == <<source, current, last, failed, status, result>>

Output == [bytes : 0..MaxBytes, eof : BOOLEAN]
Nothing == [bytes |-> 0, eof |-> FALSE]
Status == <<"Starting", "Running", "Finished">>
Cause == {"Exited", "Cancelled", "TimedOut", "SpawnFailed", "WorkerFailed"}
Cleanup == {"verified", "unverified", "error"}

\* start: a scope is admitted and a worker runs.
Init ==
  /\ proc = "none"
  /\ ended = FALSE
  /\ pipe = Nothing
  /\ closed = FALSE
  /\ spawn = "none"
  /\ admission = "empty"
  /\ stop = FALSE
  /\ pc = "start"
  /\ cause = "none"
  /\ observation = FALSE
  /\ exit = FALSE
  /\ cleanup = "none"
  /\ source = "none"
  /\ current = Nothing
  /\ last = Nothing
  /\ failed = FALSE
  /\ status = 1
  /\ result = [process |-> FALSE, output |-> Nothing]

-----------------------------------------------------------------------------
(* The command and its observers. *)

\* A reader publishes a chunk.  Bytes left in a pipe, or written by a descendant
\* that inherited it, arrive after the exit, the reap and the cleanup as well.
Write ==
  /\ proc # "none"
  /\ ~pipe.eof
  /\ pipe.bytes < MaxBytes
  /\ pipe' = [pipe EXCEPT !.bytes = @ + 1]
  /\ UNCHANGED <<proc, ended, closed, spawn, admission, stop, pc, cause, observation,
                 exit, cleanup, outVars>>

\* The readers see the end of both pipes, before or after the exit.
Close ==
  /\ proc # "none"
  /\ ~pipe.eof
  /\ pipe' = [pipe EXCEPT !.eof = TRUE]
  /\ UNCHANGED <<proc, ended, closed, spawn, admission, stop, pc, cause, observation,
                 exit, cleanup, outVars>>

\* The process exits, and its monitor reaps it and tells the waiters.
Exit ==
  /\ \/ proc = "live" /\ proc' = "exited" /\ UNCHANGED ended
     \/ proc \in {"exited", "reaped"} /\ ~ended /\ proc' = "reaped" /\ ended' = TRUE
  /\ UNCHANGED <<pipe, closed, spawn, admission, stop, pc, cause, observation, exit,
                 cleanup, outVars>>

\* BackgroundTask::cancel.
Cancel ==
  /\ ~stop
  /\ stop' = TRUE
  /\ UNCHANGED <<childVars, admission, pc, cause, observation, exit, cleanup, outVars>>

\* Output::read, under the output mutex.
Read == IF source = "attached" THEN pipe ELSE current

\* BackgroundTask::output, by any observer.
Observe ==
  /\ current' = Read
  /\ UNCHANGED <<childVars, admission, stop, pc, cause, observation, exit, cleanup,
                 source, last, failed, status, result>>

-----------------------------------------------------------------------------
(* spawn_owned, in the task that spawn_observed starts. *)

SpawnBegin ==
  /\ spawn = "queued"
  /\ spawn' = IF closed THEN "failed" ELSE "spawning"
  /\ UNCHANGED <<proc, ended, pipe, closed, admission, stop, pc, cause, observation,
                 exit, cleanup, outVars>>

\* The process is attached and its observation sent, before anything else can
\* happen to it; or the backend refuses.
SpawnAttach ==
  /\ spawn = "spawning"
  /\ \/ /\ proc' = "live"
        /\ admission' = "full"
        /\ spawn' = "attached"
     \/ spawn' = "failed" /\ UNCHANGED <<proc, admission>>
  /\ UNCHANGED <<ended, pipe, closed, stop, pc, cause, observation, exit, cleanup,
                 outVars>>

\* The committed events are dispatched, and the spawn completes.
SpawnDone ==
  /\ spawn = "attached"
  /\ spawn' = "ok"
  /\ UNCHANGED <<proc, ended, pipe, closed, admission, stop, pc, cause, observation,
                 exit, cleanup, outVars>>

\* The scope's operation mutex is free.
LockFree == spawn \notin {"spawning", "attached"}

-----------------------------------------------------------------------------
(* The worker. *)

Stopped(c) == cause' = c /\ pc' = "cleanup"

\* attached: the capture and the Running status.
attached ==
  /\ admission' = "taken"
  /\ observation' = TRUE
  /\ source' = "attached"
  /\ status' = 2

Begin ==
  /\ pc = "start"
  /\ \/ stop /\ Stopped("Cancelled") /\ UNCHANGED spawn
     \/ ~stop /\ Stopped("TimedOut") /\ UNCHANGED spawn
     \/ ~stop /\ spawn' = "queued" /\ pc' = "spawnWait" /\ UNCHANGED cause
  /\ UNCHANGED <<proc, ended, pipe, closed, admission, stop, observation, exit, cleanup,
                 outVars>>

\* The first select: whatever is ready, in any order.
SpawnWait ==
  /\ pc = "spawnWait"
  /\ \/ /\ spawn = "ok"
        /\ attached
        /\ pc' = "running"
        /\ UNCHANGED cause
     \/ /\ \/ spawn = "failed" /\ Stopped("SpawnFailed")
           \/ stop /\ Stopped("Cancelled")
           \/ Stopped("TimedOut")
        /\ UNCHANGED <<admission, observation, source, status>>
  /\ UNCHANGED <<childVars, stop, exit, cleanup, current, last, failed, result>>

\* The second select prefers the exit.
Running ==
  /\ pc = "running"
  /\ \/ ended /\ exit' = TRUE /\ Stopped("Exited")
     \/ ~ended /\ stop /\ Stopped("Cancelled") /\ UNCHANGED exit
     \/ ~ended /\ Stopped("TimedOut") /\ UNCHANGED exit
  /\ UNCHANGED <<childVars, admission, stop, observation, cleanup, outVars>>

\* An injected effect panics; one that panics while it attaches has already
\* taken the observation.
Panic ==
  /\ pc \in {"start", "spawnWait", "running"}
  /\ Stopped("WorkerFailed")
  /\ \/ UNCHANGED <<admission, source>>
     \/ /\ pc = "spawnWait"
        /\ spawn = "ok"
        /\ admission' = "taken"
        /\ source' \in {source, "attached"}
  /\ UNCHANGED <<childVars, stop, observation, exit, cleanup, current, last, failed,
                 status, result>>

\* owner.finish, after any spawn under way.  Whatever is not verified is killed.
Clean ==
  /\ pc = "cleanup"
  /\ LockFree
  /\ closed' = TRUE
  /\ \/ /\ cleanup' = "verified"
        /\ proc' = IF proc = "none" THEN "none" ELSE "reaped"
     \/ /\ cleanup' \in {"unverified", "error"}
        /\ proc' \in {proc, IF proc = "live" THEN "exited" ELSE proc}
  /\ pc' = "recovering"
  /\ UNCHANGED <<ended, pipe, spawn, admission, stop, cause, observation, exit, outVars>>

\* Mutant: only the wait for the spawn takes its observation.
RecoverNothing ==
  /\ pc = "recovering"
  /\ exit' = (exit \/ (observation /\ ended))
  /\ pc' = "draining"
  /\ last' = Read
  /\ current' = last'
  /\ UNCHANGED <<childVars, admission, stop, cause, observation, cleanup, source, failed,
                 status, result>>

\* An admission that arrived after the worker stopped waiting is recovered.
Recover ==
  /\ pc = "recovering"
  /\ IF ~observation /\ admission = "full"
     THEN attached
     ELSE UNCHANGED <<admission, observation, source, status>>
  /\ exit' = (exit \/ (observation' /\ ended))
  /\ pc' = "draining"
  /\ last' = IF source' = "attached" THEN pipe ELSE current
  /\ current' = last'
  /\ UNCHANGED <<childVars, stop, cause, cleanup, failed, result>>

\* The pipes' readers may still publish: the worker reads again until both are
\* closed, for at most a second.
Drain ==
  /\ pc = "draining"
  /\ \/ pc' = "publishing" /\ UNCHANGED <<current, last>>
     \/ /\ source = "attached"
        /\ ~last.eof
        /\ last' = Read
        /\ current' = last'
        /\ UNCHANGED pc
  /\ UNCHANGED <<childVars, admission, stop, cause, observation, exit, cleanup, source,
                 failed, status, result>>

FinalizePanic ==
  /\ pc \in {"recovering", "draining"}
  /\ failed' = TRUE
  /\ pc' = "publishing"
  /\ UNCHANGED <<childVars, admission, stop, cause, observation, exit, cleanup, source,
                 current, last, status, result>>

\* Mutant: the worker publishes what it has read itself.
PublishOwn ==
  /\ pc = "publishing"
  /\ current' = last
  /\ source' = "taken"
  /\ result' = [process |-> observation, output |-> last]
  /\ status' = 3
  /\ pc' = "done"
  /\ UNCHANGED <<childVars, admission, stop, cause, observation, exit, cleanup, last,
                 failed>>

\* The current observation, perhaps newer than the worker's, is frozen.
Publish ==
  /\ pc = "publishing"
  /\ source' = "taken"
  /\ result' = [process |-> observation, output |-> current]
  /\ status' = 3
  /\ pc' = "done"
  /\ UNCHANGED <<childVars, admission, stop, cause, observation, exit, cleanup, current,
                 last, failed>>

-----------------------------------------------------------------------------
SpawnStep == SpawnBegin \/ SpawnAttach \/ SpawnDone
WorkerStep ==
  Begin \/ SpawnWait \/ Running \/ Clean \/ Recover \/ Drain \/ Publish

Next ==
  \/ Write \/ Close \/ Exit \/ Cancel \/ Observe
  \/ SpawnStep \/ WorkerStep \/ Panic \/ FinalizePanic

Spec == Init /\ [][Next]_vars

(***************************************************************************)
(* Fairness: the runtime polls both tasks, a spawn returns, the timers     *)
(* fire.  Nothing makes the command exit or anyone cancel.  A drain step   *)
(* may repeat until the budget of a second has passed.                     *)
(***************************************************************************)
Fairness ==
  /\ WF_vars(SpawnStep)
  /\ WF_vars(WorkerStep)
  /\ SF_vars(Drain /\ pc' = "publishing")

FairSpec == Spec /\ Fairness

-----------------------------------------------------------------------------
(* Properties. *)

\* Every variable has its type.
TypeOK ==
  /\ proc \in {"none", "live", "exited", "reaped"}
  /\ pipe \in Output /\ current \in Output /\ last \in Output
  /\ spawn \in {"none", "queued", "spawning", "attached", "ok", "failed"}
  /\ admission \in {"empty", "full", "taken"}
  /\ source \in {"none", "attached", "taken"}
  /\ {ended, closed, stop, observation, exit, failed} \subseteq BOOLEAN
  /\ pc \in {"start", "spawnWait", "running", "cleanup", "recovering", "draining",
             "publishing", "done"}
  /\ cause \in Cause \cup {"none"}
  /\ cleanup \in Cleanup \cup {"none"}
  /\ status \in DOMAIN Status
  /\ result \in [process : BOOLEAN, output : Output]

\* A finished task names its process whenever there was one, though cancellation
\* or the timeout won before the spawn completed.
ResultNamesProcess ==
  status = 3 /\ proc # "none" /\ cause # "WorkerFailed" /\ ~failed => result.process

\* A verified cleanup is the end of it: no process of the task runs, and none
\* will ("It joins any in-flight spawn even when cancellation won").
VerifiedCleanupIsFinal ==
  cleanup = "verified" =>
    proc \in {"none", "reaped"} /\ LockFree

\* No observer's output is taken back by the worker's own older copy.
OutputNeverShrinks == [][current'.bytes >= current.bytes]_vars

\* A finished task's output is that of its result, for every later reader.
FinishedOutputIsFrozen == status = 3 => current = result.output

\* Every task settles, whatever panics.
Settles == <>(status = 3)
-----------------------------------------------------------------------------
(* The inductive invariant. *)

\* There is a process exactly if its spawn has attached one, and its observation
\* was sent with it.
AttachedIsAdmitted ==
  /\ proc # "none" <=> spawn \in {"attached", "ok"}
  /\ proc # "none" <=> admission # "empty"
  /\ pc = "start" => spawn = "none"

\* Who takes the observation keeps it, or has panicked.
TakenIsObserved ==
  admission = "taken" /\ ~observation =>
    cause = "WorkerFailed" /\ pc \notin {"start", "spawnWait", "running"}

\* After the cleanup no spawn is under way and none is admitted.
CleanedIsClosed ==
  /\ pc \in {"recovering", "draining", "publishing", "done"} => closed /\ LockFree
  /\ cleanup # "none" => pc \in {"recovering", "draining", "publishing", "done"}

\* What an attempt to recover the observation leaves.
RecoveredIsObserved ==
  pc \in {"draining", "publishing", "done"} /\ proc # "none" /\ ~failed =>
    observation \/ cause = "WorkerFailed"

\* The result is published last, with what the worker knows and observers see.
PublishedLast ==
  /\ status = 3 <=> pc = "done"
  /\ pc = "done" =>
       /\ source = "taken"
       /\ result = [process |-> observation, output |-> current]

\* Nobody has seen what was not written.
SeenWasWritten == current.bytes <= pipe.bytes

IndInv ==
  /\ TypeOK
  /\ AttachedIsAdmitted
  /\ TakenIsObserved
  /\ CleanedIsClosed
  /\ RecoveredIsObserved
  /\ PublishedLast
  /\ SeenWasWritten
  /\ VerifiedCleanupIsFinal
=============================================================================
