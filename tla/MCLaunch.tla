------------------------------ MODULE MCLaunch ------------------------------
(***************************************************************************)
(* Kept processes and services for TLC: the kept processes of a name       *)
(* (Kept), and the services of a name whose runs are kept or scoped        *)
(* (Service, in which a kept call is one step).  A behaviour is one of one *)
(* of the three, its part; the others keep their initial state.            *)
(***************************************************************************)
EXTENDS Kept, TLC

CONSTANTS
  Parts,          \* the parts to run
  Owner, ScopedOwner,  \* programs that supervise a kept or a scoped service
  Run,            \* runs of the service
  Fp, ScopedFp,   \* fingerprints of a kept and of a scoped launch
  Nobody,
  MaxFailures, ScopedFailures

ASSUME LaunchAssumption ==
  /\ Nobody \notin Task \cup Owner \cup ScopedOwner \cup Run \cup Fp \cup ScopedFp
  /\ {MaxFailures, ScopedFailures} \subseteq Nat

VARIABLES
  part,
  life, fate, mark, recorded, claim, forgets, seen, home, runnerPc, status, held, fp,
  mayAdopt, failures, had, stop, stopped

serviceVars ==
  <<life, fate, mark, recorded, claim, forgets, seen, home, runnerPc, status, held, fp,
    mayAdopt, failures, had, stop, stopped>>
allVars == <<part, vars, serviceVars>>

\* The services of a name, kept or scoped.
Services(kept) == INSTANCE Service
  WITH Runner <- Task, Inst <- Run, KeptMode <- kept,
       Owner <- IF kept THEN Owner ELSE ScopedOwner,
       Fp <- IF kept THEN Fp ELSE ScopedFp,
       MaxFailures <- IF kept THEN MaxFailures ELSE ScopedFailures,
       store <- recorded, pc <- runnerPc, run <- held, result <- stopped

LaunchInit == part \in Parts /\ Init /\ Services(TRUE)!Init

\* A service whose runners have ended may stay as it is.
Ends ==
  /\ part # "kept"
  /\ \A r \in Task : runnerPc[r] = "done"
  /\ UNCHANGED allVars

LaunchNext ==
  \/ /\ \/ part = "kept" /\ Next /\ UNCHANGED serviceVars
        \/ part = "served" /\ Services(TRUE)!Next /\ UNCHANGED vars
        \/ part = "scoped" /\ Services(FALSE)!Next /\ UNCHANGED vars
     /\ UNCHANGED part
  \/ Ends

LaunchSpec == LaunchInit /\ [][LaunchNext]_allVars

\* The fairness of each part, while it is the part that runs.
LaunchFairness ==
  /\ \A i \in Inst :
       /\ WF_vars(part = "kept" /\ GatedEof(i))
       /\ WF_vars(part = "kept" /\ Sweep(i))
  /\ \A t \in Task :
       /\ WF_vars(part = "kept" /\ GateStep(t))
       /\ WF_vars(part = "kept" /\ TaskStep(t))
       /\ WF_vars(part = "kept" /\ Work(t))
  /\ \A i \in Run : WF_serviceVars(part = "served" /\ Services(TRUE)!Sweep(i))
  /\ \A r \in Task :
       /\ WF_serviceVars(part = "served" /\ Services(TRUE)!RunnerStep(r))
       /\ WF_serviceVars(part = "served" /\ Services(TRUE)!Asked(r) /\ Services(TRUE)!Launch(r))
       /\ \A p \in Services(TRUE)!Wait :
            WF_serviceVars(part = "served" /\ Services(TRUE)!ForgetEnd(r, p))
       /\ WF_serviceVars(part = "scoped" /\ Services(FALSE)!RunnerStep(r))
       /\ WF_serviceVars(part = "scoped" /\ Services(FALSE)!Asked(r) /\ Services(FALSE)!Launch(r))

LaunchFairSpec == LaunchSpec /\ LaunchFairness

Symmetry ==
  Permutations(Task) \cup Permutations(Owner) \cup Permutations(Run)
    \cup Permutations(Fp)

-----------------------------------------------------------------------------
(* Properties of the services; those of the kept processes are in Kept. *)

\* A kept service replaces only a run that it may not adopt, a verified stop
\* leaves neither process nor record, and after a final status the claim is let
\* go or shared by a removal under which nothing runs.  No such removal hits the
\* record of a later run.
ServedRunsAreKept ==
  part = "served" =>
    /\ Services(TRUE)!TypeOK
    /\ Services(TRUE)!MatchingRunIsNotReplaced
    /\ Services(TRUE)!VerifiedStopIsClean
    /\ Services(TRUE)!LiveRunIsRecorded
    /\ Services(TRUE)!FinalMeansLetGo

\* A scoped run that lives and was not let go has a runner, and it is the only
\* one of its name, also while one service ends and the next is admitted.
ScopedRunsAreSupervised ==
  part = "scoped" =>
    /\ Services(FALSE)!TypeOK
    /\ Services(FALSE)!OneSupervisedRun
    /\ Services(FALSE)!NoOrphan
    /\ Services(FALSE)!FinalMeansLetGo

\* The leaders that run and those that do not run any more.
ServedRunning == {i \in Run : part = "served" /\ life[i] = "running"}
ServedEnded ==
  {i \in Run : part = "served" /\ life[i] \in {"exited", "left", "gone"}}

ServiceRun == INSTANCE SingleRun
  WITH Inst <- Run, running <- ServedRunning, ended <- ServedEnded

\* A kept service keeps the promise of its name: its runs implement SingleRun.
ServiceKeepsOneRun == ServiceRun!Spec

\* A child leaves its gate, also when its owner dies, and a start returns, also
\* when another owner keeps the claim.
LaunchResolves == GateResolves /\ StartReturns

\* A stop, or the drop of the handle, ends the runner, and a service whose run is
\* gone does not stay Ready.
ServiceProgresses ==
  part # "kept" => Services(TRUE)!StopReturns /\ Services(TRUE)!ReadyIsNotStale
=============================================================================
