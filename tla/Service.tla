------------------------------- MODULE Service -------------------------------
(***************************************************************************)
(* Services (shepherd-app/src/service.rs): the runner behind one service   *)
(* name, in every owner that supervises the name.  A runner launches a run *)
(* (scoped, or kept and possibly adopted), waits until it is ready, waits  *)
(* for its exit, ends it and starts again after a backoff, until it gives  *)
(* up or is stopped.                                                       *)
(*                                                                         *)
(* The calls of a runner on the supervisor or on the kept processes are    *)
(* one step each: what happens inside them is in Supervisor and Kept.  A   *)
(* kept call holds the claim on the name while it runs.  The wait for the  *)
(* exit of a kept run is two: the runner gives it up for a stop, a value   *)
(* or the deadline, but the removal of the record that it has moved to a   *)
(* blocking thread runs on, with a share of the claim.                     *)
(***************************************************************************)
EXTENDS Naturals

CONSTANTS
  Runner,          \* calls of ServiceSupervisor::start, in order or at once
  Owner,           \* the programs that supervise the name
  Inst,            \* runs
  Fp,              \* fingerprints of a launch
  Nobody,
  KeptMode,        \* ServiceOptions::kept is Some
  MaxFailures      \* RestartPolicy::max_failures

VARIABLES
  life,            \* life[i]: the leader of the run and its process tree
  fate,            \* who answers for run i, and why nobody does
  mark,            \* the fingerprint in run i's record
  store,           \* the run the record names (kept)
  claim,           \* the runner whose handle holds the name's claim (kept)
  forgets,         \* the waits of r whose removal of the record runs (kept)
  seen,            \* r's wait has seen the exit of the kept run
  home,            \* the owner of runner r
  pc, status,
  run,             \* run[r]: Running, the run r holds
  fp,              \* the fingerprint of the launch r is starting
  mayAdopt, failures,
  had,             \* whether r ever started or adopted a run
  stop,            \* the stop channel as r's runner will find it
  result           \* ServiceStopped

vars == <<life, fate, mark, store, claim, forgets, seen, home, pc, status, run, fp, mayAdopt,
          failures, had, stop, result>>
removal == <<forgets, seen>>
world == <<life, fate, mark, store, claim, removal>>
loop == <<fp, mayAdopt, failures>>

Final == {"Stopped", "Released", "Failed"}
Status == Final \cup {"Starting", "Ready", "Backoff", "Stopping", "Crashed"}
ServiceStop == {"Terminate", "Leave", "closed"}
ServiceStopped == {"none", "verified", "unverified", "left"}
is_final(r) == status[r] \in Final

\* Some process of the run may be alive.
Alive(i) == life[i] \in {"running", "exited", "left"}

Init ==
  /\ life = [i \in Inst |-> "none"]
  /\ fate = [i \in Inst |-> "none"]
  /\ mark = [i \in Inst |-> Nobody]
  /\ store = Nobody
  /\ claim = Nobody
  /\ forgets = [r \in Runner |-> {}]
  /\ seen = [r \in Runner |-> FALSE]
  /\ home = [r \in Runner |-> Nobody]
  /\ pc = [r \in Runner |-> "off"]
  /\ status = [r \in Runner |-> "Starting"]
  /\ run = [r \in Runner |-> Nobody]
  /\ fp = [r \in Runner |-> Nobody]
  /\ mayAdopt = [r \in Runner |-> TRUE]
  /\ failures = [r \in Runner |-> 0]
  /\ had = [r \in Runner |-> FALSE]
  /\ stop = [r \in Runner |-> "open"]
  /\ result = [r \in Runner |-> "none"]

Goto(r, l) == pc' = [pc EXCEPT ![r] = l]
publish(r, s) == status' = [status EXCEPT ![r] = s]

-----------------------------------------------------------------------------
(* The processes. *)

\* The leader exits.
Exit(i) ==
  /\ life[i] = "running"
  /\ life' = [life EXCEPT ![i] = "exited"]
  /\ UNCHANGED <<fate, mark, store, claim, removal, home, pc, status, run, had, loop, stop,
                 result>>

\* An owner's watcher sweeps the group of a kept run whose leader is gone.
Sweep(i) ==
  /\ KeptMode
  /\ life[i] = "exited"
  /\ \E r \in Runner : run[r] = i
  /\ \E end \in {"gone", "left"} : life' = [life EXCEPT ![i] = end]
  /\ UNCHANGED <<fate, mark, store, claim, removal, home, pc, status, run, had, loop, stop,
                 result>>

-----------------------------------------------------------------------------
(* ServiceSupervisor::start and the handle. *)

InUse(o) == \E r \in Runner : home[r] = o /\ ~is_final(r)

ServiceStart(r, o) ==
  /\ pc[r] = "off"
  /\ ~InUse(o)
  /\ home' = [home EXCEPT ![r] = o]
  /\ Goto(r, "launching")
  /\ publish(r, "Starting")
  /\ UNCHANGED <<world, run, had, loop, stop, result>>

\* ServiceHandle::stop, or the drop of the handle, which closes the channel.  A
\* runner that has returned does not read it.
HandleStop(r, how) ==
  /\ pc[r] \notin {"off", "done"}
  /\ stop[r] = "open"
  /\ stop' = [stop EXCEPT ![r] = how]
  /\ UNCHANGED <<world, home, pc, status, run, had, loop, result>>

\* or_stop is biased: what has arrived wins over work that is done.
Asked(r) == stop[r] # "open"
How(r) == IF stop[r] = "closed" THEN "Leave" ELSE stop[r]

-----------------------------------------------------------------------------
(* The loop. *)

gives_up(n) == n > MaxFailures

\* A failed run: the next failure count, and the top of the loop, which gives
\* up or backs off.
Failed(r, n) ==
  /\ failures' = [failures EXCEPT ![r] = n + 1]
  /\ IF gives_up(n + 1)
     THEN publish(r, "Failed") /\ Goto(r, "done")
     ELSE publish(r, "Backoff") /\ Goto(r, "backoff")

Backoff(r) ==
  /\ pc[r] = "backoff"
  /\ \/ Asked(r) /\ publish(r, "Stopped") /\ Goto(r, "done")
     \/ ~Asked(r) /\ publish(r, "Starting") /\ Goto(r, "launching")
  /\ UNCHANGED <<world, home, run, had, loop, stop, result>>

\* finish, up to the end of the run.
Finish(r) == Goto(r, "finishing") /\ publish(r, "Stopping")

\* Service::launch.
Launch(r) ==
  /\ pc[r] = "launching"
  /\ \/ Asked(r) /\ Finish(r) /\ UNCHANGED loop
     \/ /\ ~Asked(r)
        /\ \E f \in Fp : fp' = [fp EXCEPT ![r] = f]
        /\ Goto(r, IF KeptMode THEN "adopting" ELSE "spawning")
        /\ UNCHANGED <<status, mayAdopt, failures>>
     \/ ~Asked(r) /\ Failed(r, failures[r]) /\ UNCHANGED <<fp, mayAdopt>>
  /\ UNCHANGED <<world, home, run, had, stop, result>>

\* The start returns, and the launch is used up.
LaunchUsed(r) == fp' = [fp EXCEPT ![r] = Nobody]

\* The attempt to start fails (Busy, a store error, a refused scope).
StartFailed(r) ==
  Failed(r, failures[r]) /\ LaunchUsed(r) /\ UNCHANGED mayAdopt

\* The run is the runner's now, and no later one will be adopted.
Started(r, i) ==
  /\ run' = [run EXCEPT ![r] = i]
  /\ fate' = [fate EXCEPT ![i] = "held"]
  /\ mayAdopt' = [mayAdopt EXCEPT ![r] = FALSE]
  /\ had' = [had EXCEPT ![r] = TRUE]
  /\ Goto(r, "waiting")
  /\ LaunchUsed(r)
  /\ UNCHANGED <<status, failures>>

Matches(r) == mayAdopt[r] /\ mark[store] = fp[r]

\* Mutant: the removal on the blocking thread has no share of the claim.
HandleUnclaimed == claim = Nobody

\* The name's claim can be taken: no handle and no removal holds it.
Unclaimed == claim = Nobody /\ \A q \in Runner : forgets[q] = {}

RecordIsStale == store # Nobody => life[store] # "running"

\* kept.adopt: the live run the record names, or nothing after a dead record is
\* pruned.  A matching run is adopted, another is ended first.
Adopt(r) ==
  /\ pc[r] = "adopting"
  /\ \/ StartFailed(r) /\ UNCHANGED <<fate, store, claim, run, had>>
     \/ /\ Unclaimed
        /\ store # Nobody
        /\ life[store] \in {"running", "exited"}
        /\ claim' = r
        /\ \/ Matches(r) /\ Started(r, store)
           \/ /\ ~Matches(r)
              /\ run' = [run EXCEPT ![r] = store]
              /\ fate' = [fate EXCEPT ![store] = "held"]
              /\ Goto(r, "replacing")
              /\ UNCHANGED <<status, had, loop>>
        /\ UNCHANGED store
     \/ /\ Unclaimed
        /\ RecordIsStale
        /\ store' = Nobody
        /\ Goto(r, "spawning")
        /\ UNCHANGED <<fate, claim, run, had, status, loop>>
  /\ UNCHANGED <<life, mark, removal, home, stop, result>>

\* Mutant: the record goes with every handle.
EndForgets(i, ok) ==
  /\ IF ok THEN life[i] # "left" /\ life' = [life EXCEPT ![i] = "gone"]
           ELSE UNCHANGED life
  /\ store' = Nobody
  /\ fate' = [fate EXCEPT ![i] = IF ok THEN "ended" ELSE "unverified"]

\* What a termination does to run i.  Verified: the tree is gone, and a kept
\* record with it.  Unverified: the leader may still be there; of a kept run
\* also members of its group, or only the record.
End(i, ok) ==
  /\ \/ /\ ok
        /\ life[i] # "left"
        /\ life' = [life EXCEPT ![i] = "gone"]
        /\ store' = IF KeptMode THEN Nobody ELSE store
     \/ /\ ~ok
        /\ life[i] \notin {"gone", "left"}
        /\ UNCHANGED <<life, store>>
     \/ /\ ~ok
        /\ KeptMode
        /\ \E end \in {"gone", "left"} :
             /\ life[i] \in {"gone", "left"} => end = life[i]
             /\ life' = [life EXCEPT ![i] = end]
             /\ store' \in IF end = "gone" THEN {store} ELSE {store, Nobody}
  /\ fate' = [fate EXCEPT ![i] = IF ok THEN "ended" ELSE "unverified"]

\* The handle of a kept run holds the claim.
DropRun(r) ==
  /\ run' = [run EXCEPT ![r] = Nobody]
  /\ claim' = IF claim = r THEN Nobody ELSE claim

\* The earlier run is terminated; only a verified end lets the start go on.
Replace(r) ==
  /\ pc[r] = "replacing"
  /\ \/ End(run[r], TRUE) /\ Goto(r, "spawning") /\ UNCHANGED <<status, loop>>
     \/ End(run[r], FALSE) /\ StartFailed(r)
  /\ DropRun(r)
  /\ UNCHANGED <<mark, removal, home, had, stop, result>>

NewRun(r, i) ==
  /\ life[i] = "none"
  /\ life' = [life EXCEPT ![i] = "running"]
  /\ mark' = [mark EXCEPT ![i] = fp[r]]

\* Mutant: a stop that arrives during the start is obeyed at once.
SpawnInterrupted(r) ==
  /\ pc[r] = "spawning"
  /\ \E i \in Inst :
       /\ ~KeptMode
       /\ NewRun(r, i)
       /\ IF Asked(r)
          THEN /\ fate' = [fate EXCEPT ![i] = "held"]
               /\ Finish(r)
               /\ UNCHANGED <<run, had, loop>>
          ELSE Started(r, i)
  /\ UNCHANGED <<store, claim, removal, home, stop, result>>

\* start_scoped, or kept.start; a failed one leaves no process.
Spawn(r) ==
  /\ pc[r] = "spawning"
  /\ \/ \E i \in Inst :
          /\ NewRun(r, i)
          /\ Started(r, i)
          /\ \/ ~KeptMode /\ UNCHANGED <<store, claim>>
             \/ /\ KeptMode
                /\ Unclaimed
                /\ RecordIsStale
                /\ store' = i
                /\ claim' = r
     \/ /\ StartFailed(r)
        /\ UNCHANGED <<life, mark, fate, store, claim, run, had>>
  /\ UNCHANGED <<removal, home, stop, result>>

\* The two waits on a run: until_ready's and the one once it is ready.
Wait == {"waiting", "ready"}

\* KeptProcess::exited has seen the exit, and its forget starts on a blocking
\* thread, which shares the claim.
ExitSeen(r) ==
  /\ KeptMode
  /\ pc[r] \in Wait
  /\ ~Asked(r)
  /\ ~seen[r]
  /\ life[run[r]] \in {"gone", "left"}
  /\ seen' = [seen EXCEPT ![r] = TRUE]
  /\ forgets' = [forgets EXCEPT ![r] = @ \cup {pc[r]}]
  /\ UNCHANGED <<life, fate, mark, store, claim, home, pc, status, run, had, loop, stop,
                 result>>

\* The blocking thread removes the record or fails, and lets go of the claim,
\* whether or not somebody still waits for it.
ForgetEnd(r, p) ==
  /\ p \in forgets[r]
  /\ store' \in {store, Nobody}
  /\ forgets' = [forgets EXCEPT ![r] = @ \ {p}]
  /\ UNCHANGED <<life, fate, mark, claim, seen, home, pc, status, run, had, loop, stop,
                 result>>

\* The exit of the run: that of the root, or of exited with its removal done.
Exited(r) ==
  \/ ~KeptMode /\ life[run[r]] = "exited"
  \/ KeptMode /\ seen[r] /\ pc[r] \notin forgets[r]

\* The wait is over, or given up.
Waited(r) == seen' = [seen EXCEPT ![r] = FALSE]

\* until_ready: a value, or the exit, a failed check or the deadline.
UntilReady(r) ==
  /\ pc[r] = "waiting"
  /\ \/ Asked(r) /\ Finish(r)
     \/ ~Asked(r) /\ publish(r, "Ready") /\ Goto(r, "ready")
     \/ ~Asked(r) /\ Goto(r, "ending") /\ UNCHANGED status
  /\ Waited(r)
  /\ UNCHANGED <<life, fate, mark, store, claim, forgets, home, run, had, loop, stop, result>>

\* Mutant: once ready, only the exit is awaited.
RunningDeaf(r) ==
  /\ pc[r] = "ready"
  /\ Exited(r)
  /\ Goto(r, "ending")
  /\ Waited(r)
  /\ UNCHANGED <<life, fate, mark, store, claim, forgets, home, status, run, had, loop, stop,
                 result>>

\* Ready, until the run exits.
Running(r) ==
  /\ pc[r] = "ready"
  /\ \/ Asked(r) /\ Finish(r)
     \/ ~Asked(r) /\ Exited(r) /\ Goto(r, "ending") /\ UNCHANGED status
  /\ Waited(r)
  /\ UNCHANGED <<life, fate, mark, store, claim, forgets, home, run, had, loop, stop, result>>

\* A failed wait counts as an exit.
WaitFailed(r) ==
  /\ pc[r] = "ready"
  /\ ~KeptMode
  /\ ~Asked(r)
  /\ Goto(r, "ending")
  /\ UNCHANGED <<world, home, status, run, had, loop, stop, result>>

\* The run is ended, however it failed; the result is not looked at.  A run that
\* stayed ready long enough clears the failures.
EndFailed(r) ==
  /\ pc[r] = "ending"
  /\ \E ok \in BOOLEAN : End(run[r], ok)
  /\ DropRun(r)
  /\ \E n \in {failures[r]} \cup (IF status[r] = "Ready" THEN {0} ELSE {}) :
       Failed(r, n)
  /\ UNCHANGED <<mark, removal, home, had, fp, mayAdopt, stop, result>>

Return(r, s, res) ==
  /\ publish(r, s)
  /\ Goto(r, "done")
  /\ result' = [result EXCEPT ![r] = res]

\* finish: end, then the final status.
Finishing(r) ==
  /\ pc[r] = "finishing"
  /\ \/ /\ run[r] = Nobody
        /\ Return(r, "Stopped", "none")
        /\ UNCHANGED <<life, fate, store>>
     \/ /\ run[r] # Nobody
        /\ KeptMode
        /\ How(r) = "Leave"
        /\ fate' = [fate EXCEPT ![run[r]] = "released"]
        /\ Return(r, "Released", "left")
        /\ UNCHANGED <<life, store>>
     \/ /\ run[r] # Nobody
        /\ ~KeptMode \/ How(r) = "Terminate"
        /\ \E ok \in BOOLEAN :
             /\ End(run[r], ok)
             /\ Return(r, "Stopped", IF ok THEN "verified" ELSE "unverified")
  /\ DropRun(r)
  /\ UNCHANGED <<mark, removal, home, had, loop, stop>>

\* The owner dies, and with it everything but the processes and the records:
\* also what its threads had still to do for earlier runners.
Crash(r) ==
  /\ KeptMode
  /\ pc[r] \notin {"off", "done"}
  /\ Goto(r, "done")
  /\ publish(r, "Crashed")
  /\ home' = [home EXCEPT ![r] = Nobody]
  /\ fate' = [i \in Inst |-> IF i = run[r] THEN "crashed" ELSE fate[i]]
  /\ DropRun(r)
  /\ Waited(r)
  /\ forgets' = [q \in Runner |-> IF home[q] = home[r] THEN {} ELSE forgets[q]]
  /\ UNCHANGED <<life, mark, store, had, loop, stop, result>>

-----------------------------------------------------------------------------
RunnerStep(r) ==
  \/ Backoff(r) \/ Adopt(r) \/ Replace(r) \/ Spawn(r)
  \/ ExitSeen(r) \/ UntilReady(r) \/ Running(r) \/ EndFailed(r) \/ Finishing(r)

Next ==
  \/ \E i \in Inst : Exit(i) \/ Sweep(i)
  \/ \E r \in Runner :
       \/ RunnerStep(r) \/ Launch(r) \/ WaitFailed(r) \/ Crash(r)
       \/ \E p \in Wait : ForgetEnd(r, p)
       \/ \E o \in Owner : ServiceStart(r, o)
       \/ \E how \in ServiceStop : HandleStop(r, how)

Spec == Init /\ [][Next]_vars

(***************************************************************************)
(* Fairness: the runtime polls the runner's task, and the calls it makes   *)
(* have deadlines.  launch is the embedding program's and may hang, but a  *)
(* stop interrupts it.  A group is swept by its watcher, and a blocking    *)
(* thread runs to its end.  Nothing makes a run exit.                      *)
(***************************************************************************)
Fairness ==
  /\ \A i \in Inst : WF_vars(Sweep(i))
  /\ \A r \in Runner :
       /\ WF_vars(RunnerStep(r))
       /\ WF_vars(Asked(r) /\ Launch(r))
       /\ \A p \in Wait : WF_vars(ForgetEnd(r, p))

FairSpec == Spec /\ Fairness

-----------------------------------------------------------------------------
(* Properties. *)

\* Every variable has its type.
TypeOK ==
  /\ life \in [Inst -> {"none", "running", "exited", "left", "gone"}]
  /\ fate \in [Inst -> {"none", "held", "ended", "unverified", "released", "crashed"}]
  /\ mark \in [Inst -> Fp \cup {Nobody}]
  /\ store \in Inst \cup {Nobody}
  /\ claim \in Runner \cup {Nobody}
  /\ forgets \in [Runner -> SUBSET Wait]
  /\ seen \in [Runner -> BOOLEAN]
  /\ home \in [Runner -> Owner \cup {Nobody}]
  /\ pc \in [Runner -> {"off", "backoff", "launching", "adopting", "replacing",
                        "spawning", "waiting", "ready", "ending", "finishing", "done"}]
  /\ status \in [Runner -> Status]
  /\ run \in [Runner -> Inst \cup {Nobody}]
  /\ fp \in [Runner -> Fp \cup {Nobody}]
  /\ mayAdopt \in [Runner -> BOOLEAN]
  /\ had \in [Runner -> BOOLEAN]
  /\ failures \in [Runner -> 0..(MaxFailures + 1)]
  /\ stop \in [Runner -> {"open"} \cup ServiceStop]
  /\ result \in [Runner -> ServiceStopped]

\* An owner never supervises two runs of a name at once, not even while one is
\* being ended and the next service of the name is admitted.  With NoOrphan: of
\* the live runs that were not let go (released, or their end not verified) an
\* owner has at most one.
OneSupervisedRun ==
  \A r, q \in Runner :
    r # q /\ run[r] # Nobody /\ run[q] # Nobody => home[r] # home[q]

\* No run is left without a runner by a stop that arrives while it starts ("a
\* half-started run would have no owner").
NoOrphan ==
  \A i \in Inst :
    Alive(i) /\ fate[i] = "held" => \E r \in Runner : run[r] = i /\ pc[r] # "done"

\* A runner that never had a run does not end one that it could have adopted,
\* though earlier attempts of it failed ("a failed first attempt must not turn a
\* matching earlier run into a stranger").
MatchingRunIsNotReplaced ==
  \A r \in Runner :
    pc[r] = "replacing" /\ ~had[r] => mark[run[r]] # fp[r]

\* A final status is the last thing a runner does: its handle on the run, and the
\* claim with it, are let go by then.  What may still share the claim is a removal
\* whose wait was given up, and then nothing runs under the name.
FinalMeansLetGo ==
  \A r \in Runner : is_final(r) =>
    /\ run[r] = Nobody
    /\ claim # r
    /\ forgets[r] # {} => \A i \in Inst : life[i] # "running"

\* A removal that outlives its wait does not hit a later run: the record of a kept
\* program that runs stays, whoever stopped waiting for its predecessor.
LiveRunIsRecorded ==
  KeptMode => \A i \in Inst : life[i] = "running" => store = i

\* A verified stop: nothing of the run is alive, and no record leads to it.
VerifiedStopIsClean ==
  \A i \in Inst : fate[i] = "ended" => ~Alive(i) /\ store # i

-----------------------------------------------------------------------------
(* The inductive invariant. *)

\* A runner has a run from its start or adoption to its end, and, if it is a
\* kept one, the claim with it.
RunIsHeld ==
  \A r \in Runner :
    /\ pc[r] \in {"replacing", "waiting", "ready", "ending"} => run[r] # Nobody
    /\ run[r] # Nobody =>
         /\ pc[r] \in {"replacing", "waiting", "ready", "ending", "finishing"}
         /\ life[run[r]] # "none"
         /\ KeptMode => claim = r
    /\ claim = r => run[r] # Nobody

\* A runner that goes on has not published a final status, has not failed too
\* often, and is the only one of its owner.
OneRunner ==
  /\ \A r \in Runner :
       /\ pc[r] # "done" => ~is_final(r) /\ failures[r] <= MaxFailures
       /\ pc[r] \notin {"off", "done"} => home[r] \in Owner
  /\ \A r, q \in Runner :
       r # q /\ pc[r] \notin {"off", "done"} /\ pc[q] \notin {"off", "done"}
         => home[r] # home[q]

\* Only a run gives up the right to adopt one.
MayAdoptFirst == \A r \in Runner : ~had[r] => mayAdopt[r]

\* The record of a kept name leads to the run that is alive or held; a scoped
\* one has none.  While a removal runs, no program does.
RecordLeads ==
  /\ LiveRunIsRecorded
  /\ KeptMode => \A r \in Runner : run[r] # Nobody => store \in {run[r], Nobody}
  /\ ~KeptMode => store = Nobody
  /\ \A r \in Runner :
       forgets[r] # {} => KeptMode /\ \A i \in Inst : life[i] # "running"

IndInv ==
  /\ TypeOK
  /\ RunIsHeld
  /\ OneRunner
  /\ MayAdoptFirst
  /\ RecordLeads
  /\ NoOrphan
  /\ MatchingRunIsNotReplaced
  /\ VerifiedStopIsClean

-----------------------------------------------------------------------------
(* Liveness, and what the documentation says of a final status. *)

\* A stop, or the drop of the handle, ends the runner.
StopReturns == \A r \in Runner : Asked(r) ~> pc[r] = "done"

\* A service whose run is gone does not stay Ready.
ReadyIsNotStale ==
  \A r \in Runner :
    status[r] = "Ready" /\ run[r] # Nobody /\ life[run[r]] # "running"
      ~> status[r] # "Ready"

\* "Stopped; nothing is running", "Gave up ...; nothing is running".
StoppedMeansNothingRuns ==
  \A r \in Runner :
    status[r] \in {"Stopped", "Failed"} /\ (\A q \in Runner \ {r} : pc[q] = "off")
      => \A i \in Inst : life[i] # "running"
=============================================================================
