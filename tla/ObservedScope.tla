---------------------------- MODULE ObservedScope ----------------------------
(***************************************************************************)
(* Observed scopes and with_scope (shepherd-app/src/supervisor.rs): the    *)
(* cleanup channel of a scope, its owner with the armed backstop, the      *)
(* block that runs a closure in the scope, and whoever waits for the       *)
(* report, while other calls terminate the same scope and bounded          *)
(* histories forget it.                                                    *)
(*                                                                         *)
(* One attempt of terminate_scope is one step: Supervisor models what      *)
(* happens inside, between its calls to the backend and its locks.         *)
(***************************************************************************)
EXTENDS Naturals, Sequences, SequencesExt

CONSTANTS
  Scope, Waiter,
  ResultBound,     \* completed scope_results kept (256)
  ReportBound      \* SCOPE_REPORT_HISTORY_BOUND

VARIABLES
  tree,            \* the processes of the scope
  registered,      \* scopes in the registry, with their operation mutex
  closed,          \* scopes that admit no process any more
  results,         \* keys of scope_results
  resultOrder,     \* completed_scope_results
  reportOrder,     \* completed_scopes, which are the keys of reports
  report,          \* the value of the scope's cleanup channel
  armed,           \* ScopeCleanupBackstop::armed
  pc, res,         \* the owner's cleanup, and what its call returned
  block,           \* with_scope, or what it returned
  watch            \* watch[w]: wait_scope_cleanup

vars == <<tree, registered, closed, results, resultOrder, reportOrder, report,
          armed, pc, res, block, watch>>
registryVars == <<registered, closed, results, resultOrder, reportOrder>>

Report == {"none", "verified", "unverified", "error"}

Init ==
  /\ tree = [s \in Scope |-> "none"]
  /\ registered = {}
  /\ closed = {}
  /\ results = {}
  /\ resultOrder = <<>>
  /\ reportOrder = <<>>
  /\ report = [s \in Scope |-> "none"]
  /\ armed = {}
  /\ pc = [s \in Scope |-> "none"]
  /\ res = [s \in Scope |-> "none"]
  /\ block = [s \in Scope |-> "none"]
  /\ watch = [w \in Waiter |-> "idle"]

Goto(s, l) == pc' = [pc EXCEPT ![s] = l]

\* publish_scope_cleanup_result: a verified report stays.
publish_scope_cleanup_result(s, r) ==
  report' = [report EXCEPT ![s] = IF @ = "verified" THEN @ ELSE r]

hard_kill_scope(s) == tree' = [tree EXCEPT ![s] = IF @ = "live" THEN "killed" ELSE @]

-----------------------------------------------------------------------------
\* with_scope: the scope is published with its channel; its cleanup task waits
\* for the end of the closure.
WithScope(s) ==
  /\ block[s] = "none"
  /\ registered' = registered \cup {s}
  /\ results' = results \cup {s}
  /\ armed' = armed \cup {s}
  /\ Goto(s, "waiting")
  /\ block' = [block EXCEPT ![s] = "body"]
  /\ UNCHANGED <<tree, closed, resultOrder, reportOrder, report, res, watch>>

\* A process of the block, or of anyone who knows the scope.
Spawn(s) ==
  /\ s \in registered \ closed
  /\ tree[s] = "none"
  /\ tree' = [tree EXCEPT ![s] = "live"]
  /\ UNCHANGED <<registryVars, report, armed, pc, res, block, watch>>

\* The closure returns, or the block is cancelled or panics: the guard tells the
\* cleanup task in either case.
BodyEnd(s) ==
  /\ block[s] = "body"
  /\ block' = [block EXCEPT ![s] = "awaiting"]
  /\ UNCHANGED <<tree, registryVars, report, armed, pc, res, watch>>

BodyCancel(s) ==
  /\ block[s] \in {"body", "awaiting"}
  /\ block' = [block EXCEPT ![s] = "cancelled"]
  /\ UNCHANGED <<tree, registryVars, report, armed, pc, res, watch>>

BlockReturn(s) ==
  /\ block[s] = "awaiting"
  /\ report[s] # "none"
  /\ block' = [block EXCEPT ![s] = report[s]]
  /\ UNCHANGED <<tree, registryVars, report, armed, pc, res, watch>>

-----------------------------------------------------------------------------
(* terminate_scope *)

\* The histories keep their newest entries.
Pushed(order, s, bound) ==
  IF Len(order) < bound THEN Append(order, s) ELSE Append(Tail(order), s)

\* A verified report: every process was reaped.  It is published, retained, and
\* both histories forget their oldest entry.
Verify(s) ==
  /\ tree' = [tree EXCEPT ![s] = "reaped"]
  /\ closed' = closed \cup {s}
  /\ IF s \in results
     THEN /\ publish_scope_cleanup_result(s, "verified")
          /\ resultOrder' = Pushed(resultOrder, s, ResultBound)
          /\ results' = results \ (ToSet(resultOrder) \ ToSet(resultOrder'))
     ELSE UNCHANGED <<report, resultOrder, results>>
  /\ reportOrder' = Pushed(reportOrder, s, ReportBound)
  /\ registered' = registered \ {s}

\* An attempt that could not verify every process, or failed.
Unverified(s) ==
  /\ closed' = closed \cup {s}
  /\ UNCHANGED <<tree, registered, results, resultOrder, reportOrder, report>>

\* Another caller, or shutdown, terminates the scope.
OtherTerminate(s) ==
  /\ s \in registered
  /\ Verify(s) \/ Unverified(s)
  /\ UNCHANGED <<armed, pc, res, block, watch>>

-----------------------------------------------------------------------------
(* finish_scope_cleanup, in the cleanup task. *)

Asked(s) == block[s] \notin {"none", "body"}

Deciding(s, r) == Goto(s, "deciding") /\ res' = [res EXCEPT ![s] = r]

\* A verified report is taken as it is; otherwise terminate_scope is called,
\* and finds the retained report, the scope, or neither.
Finish(s) ==
  /\ pc[s] = "waiting"
  /\ Asked(s)
  /\ \/ report[s] = "verified" /\ Deciding(s, "verified")
     \/ /\ report[s] # "verified"
        /\ Goto(s, "looking")
        /\ UNCHANGED res
  /\ UNCHANGED <<tree, registryVars, report, armed, block, watch>>

Look(s) ==
  /\ pc[s] = "looking"
  /\ \/ s \in ToSet(reportOrder) /\ Deciding(s, "verified")
     \/ /\ s \notin ToSet(reportOrder)
        /\ s \notin registered
        /\ Deciding(s, "error")
     \/ /\ s \in registered
        /\ Goto(s, "terminating")
        /\ UNCHANGED res
  /\ UNCHANGED <<tree, registryVars, report, armed, block, watch>>

\* The operation keeps the report of whoever finished it first.
Terminate(s) ==
  /\ pc[s] = "terminating"
  /\ \/ /\ s \in registered
        /\ \/ Verify(s) /\ Deciding(s, "verified")
           \/ Unverified(s) /\ \E r \in {"unverified", "error"} : Deciding(s, r)
     \/ /\ s \notin registered
        /\ Deciding(s, "verified")
        /\ UNCHANGED <<tree, registryVars, report>>
  /\ UNCHANGED <<armed, block, watch>>

\* Mutant: the result of the call is not compared with the channel.
DecideBlind(s) ==
  /\ pc[s] = "deciding"
  /\ Goto(s, "settling")
  /\ UNCHANGED <<tree, registryVars, report, armed, res, block, watch>>

\* A verified report that another call published meanwhile is preferred.
Decide(s) ==
  /\ pc[s] = "deciding"
  /\ Goto(s, "settling")
  /\ res' = [res EXCEPT ![s] = IF report[s] = "verified" THEN "verified" ELSE @]
  /\ UNCHANGED <<tree, registryVars, report, armed, block, watch>>

\* The backstop, then publication and disarming with no suspension between.
Settle(s) ==
  /\ pc[s] = "settling"
  /\ IF res[s] = "verified" THEN UNCHANGED tree ELSE hard_kill_scope(s)
  /\ publish_scope_cleanup_result(s, res[s])
  /\ armed' = armed \ {s}
  /\ Goto(s, "done")
  /\ UNCHANGED <<registryVars, res, block, watch>>

\* Mutant: the backstop kills but tells nobody.
InterruptSilently(s) ==
  /\ pc[s] \in {"waiting", "looking", "terminating"}
  /\ hard_kill_scope(s)
  /\ armed' = armed \ {s}
  /\ Goto(s, "dropped")
  /\ UNCHANGED <<registryVars, report, res, block, watch>>

\* The owner is dropped, or its cleanup panics, before it is disarmed.
Interrupt(s) ==
  /\ pc[s] \in {"waiting", "looking", "terminating"}
  /\ IF report[s] = "verified"
     THEN UNCHANGED <<tree, report>>
     ELSE hard_kill_scope(s) /\ publish_scope_cleanup_result(s, "error")
  /\ armed' = armed \ {s}
  /\ \E end \in {"dropped", "panicked"} : Goto(s, end)
  /\ UNCHANGED <<registryVars, res, block, watch>>

\* The task that joins the cleanup task.
JoinFailed(s) ==
  /\ pc[s] = "panicked"
  /\ publish_scope_cleanup_result(s, "error")
  /\ Goto(s, "dropped")
  /\ UNCHANGED <<tree, registryVars, armed, res, block, watch>>

-----------------------------------------------------------------------------
(* wait_scope_cleanup *)

Subscribe(w, s) ==
  /\ watch[w] = "idle"
  /\ watch' = [watch EXCEPT ![w] = IF s \in results THEN s ELSE "UnknownScope"]
  /\ UNCHANGED <<tree, registryVars, report, armed, pc, res, block>>

Observe(w) ==
  /\ watch[w] \in Scope
  /\ report[watch[w]] # "none"
  /\ watch' = [watch EXCEPT ![w] = "idle"]
  /\ UNCHANGED <<tree, registryVars, report, armed, pc, res, block>>

CleanupStep(s) ==
  \/ Finish(s) \/ Look(s) \/ Terminate(s) \/ Decide(s) \/ Settle(s) \/ JoinFailed(s)

Next ==
  \/ \E s \in Scope :
       \/ WithScope(s) \/ Spawn(s) \/ BodyEnd(s) \/ BodyCancel(s) \/ BlockReturn(s)
       \/ OtherTerminate(s) \/ CleanupStep(s) \/ Interrupt(s)
  \/ \E w \in Waiter : Observe(w) \/ \E s \in Scope : Subscribe(w, s)

Spec == Init /\ [][Next]_vars

(***************************************************************************)
(* Fairness: the runtime polls the cleanup task, the block and every       *)
(* waiter.  Nothing ends a closure or cancels a block.                     *)
(***************************************************************************)
Fairness ==
  /\ \A s \in Scope : WF_vars(CleanupStep(s)) /\ WF_vars(BlockReturn(s))
  /\ \A w \in Waiter : WF_vars(Observe(w))

FairSpec == Spec /\ Fairness

-----------------------------------------------------------------------------
(* Properties. *)

\* Every variable has its type.
TypeOK ==
  /\ tree \in [Scope -> {"none", "live", "killed", "reaped"}]
  /\ registered \subseteq Scope
  /\ closed \subseteq Scope
  /\ results \subseteq Scope
  /\ resultOrder \in Seq(Scope) /\ Len(resultOrder) <= ResultBound
  /\ reportOrder \in Seq(Scope) /\ Len(reportOrder) <= ReportBound
  /\ report \in [Scope -> Report]
  /\ armed \subseteq Scope
  /\ pc \in [Scope -> {"none", "waiting", "looking", "terminating", "deciding",
                       "settling", "done", "dropped", "panicked"}]
  /\ res \in [Scope -> Report]
  /\ block \in [Scope -> Report \cup {"body", "awaiting", "cancelled"}]
  /\ watch \in [Waiter -> Scope \cup {"idle", "UnknownScope"}]

\* Verified evidence is never taken back: a late error of the owner's own call, an
\* interrupted cleanup or a failed join does not replace it.
VerifiedReportIsFinal ==
  [][\A s \in Scope : report[s] = "verified" => report'[s] = "verified"]_vars

\* The owner gives up its backstop only when no process of the scope is left
\* running: a verified report, or the synchronous kill.
BackstopLeavesNothing ==
  [][\A s \in armed \ armed' : tree'[s] # "live"]_vars

\* An owner whose own call fails, because another caller's verified report has
\* already expired from the history, still gets that report.
OwnerGetsVerifiedReport ==
  [][\A s \in Scope \ registered :
       pc[s] = "deciding" /\ pc'[s] = "settling" => res'[s] = "verified"]_vars

\* A block that has ended, and whoever waits for its cleanup, is answered, though
\* the cleanup is dropped, panics or fails.
ObserversAreAnswered ==
  /\ \A s \in Scope : block[s] = "awaiting" ~> block[s] # "awaiting"
  /\ \A w \in Waiter, s \in Scope :
       watch[w] = s /\ Asked(s) ~> watch[w] # s
-----------------------------------------------------------------------------
(* The inductive invariant. *)

\* A scope that was ever admitted has a block and an owner.
AdmittedHasOwner ==
  \A s \in Scope :
    /\ pc[s] = "none" <=> block[s] = "none"
    /\ s \in registered \cup ToSet(resultOrder) \cup ToSet(reportOrder) => pc[s] # "none"

\* Only scopes that are gone are in the histories, so none that is registered is
\* forgotten.
HistoryIsGone ==
  \A s \in Scope :
    s \in ToSet(resultOrder) \cup ToSet(reportOrder) =>
      s \notin registered /\ tree[s] = "reaped"

RegisteredHasResult == registered \subseteq results

\* A scope that is gone has its verified report, in the channel at least.
GoneIsVerified ==
  \A s \in Scope \ registered : pc[s] # "none" => report[s] = "verified"

\* Verified means reaped, in the channel and for the owner.
VerifiedIsReaped ==
  \A s \in Scope : "verified" \in {report[s], res[s]} => tree[s] = "reaped"

IndInv ==
  /\ TypeOK
  /\ AdmittedHasOwner
  /\ HistoryIsGone
  /\ RegisteredHasResult
  /\ GoneIsVerified
  /\ VerifiedIsReaped
=============================================================================
