--------------------------- MODULE ProcessGroups ---------------------------
(***************************************************************************)
(* Process-group containment of the Unix backend (backend/unix.rs).  A     *)
(* scope is one POSIX process group, led by a private anchor process that  *)
(* pins the group's number: the kernel may hand a number out again as soon *)
(* as no process has it as its id or its group id, and a group signal or a *)
(* setpgid with a recycled number reaches strangers.  The module models    *)
(*   - the kernel's table of process numbers, groups and zombies;          *)
(*   - State (scope_groups, anchors) and AnchorWait, the anchor's waiter;  *)
(*   - spawn, the waiter task of a root, cleanup_scope, the synchronous    *)
(*     hard kills, and the end of the async runtime.                       *)
(* Actions are the critical sections of the state mutex.  spawn and        *)
(* cleanup_scope of one scope exclude each other, and no spawn follows a   *)
(* cleanup: the supervisor calls both under the scope's operation mutex    *)
(* (module Supervisor).                                                    *)
(***************************************************************************)
EXTENDS Integers, FiniteSets

CONSTANTS
  Scope,
  Num,          \* process numbers
  NoNum,        \* no number
  NoScope,      \* the owner of a process that is none of ours
  MaxLive,      \* bound: roots registered in one scope
  MaxKin,       \* bound: descendants alive at a time
  MaxForeign,   \* bound: unrelated processes alive at a time
  MaxFail       \* bound: wait failures of roots

VARIABLES
  st,           \* kernel: "free", "live", "dying" (SIGKILL pending), "zombie"
  grp,          \* kernel: group id, NoNum for a free number
  kind,         \* what the process is: "anchor", "root", "kin", "other"
  own,          \* the scope it was started for
  pgid,         \* scope_groups: number of the group, NoNum without an entry
  live,         \* ScopeGroup.live
  failed,       \* scopes with ScopeGroup.wait_failed
  anchorExit,   \* anchors: "absent", or what Anchor.exit says
  killed,       \* scopes whose Anchor.kill_issued is set
  anchorWait,   \* number of the child an armed AnchorWait owns, or NoNum
  rootWait,     \* waiter task of a root: "none", "waiting", "parked"
  retry,        \* roots with a queued retry
  orphans,      \* numbers owned by a shepherd-orphan-reap thread
  unpublished,  \* roots reaped whose result is not published yet, per scope
  spawnPc, newborn,
  cleanPc, closed, cleaned,
  up,           \* the async runtime is running
  struck,       \* processes hit by a group signal of a scope not their own
  fails

kernelVars == <<st, grp, kind, own>>
groupVars == <<pgid, live, failed, anchorExit, killed>>
workerVars == <<anchorWait, rootWait, retry, orphans, unpublished>>
callVars == <<spawnPc, newborn, cleanPc, closed, cleaned>>
vars == <<kernelVars, groupVars, workerVars, callVars, up, struck, fails>>

----------------------------------------------------------------------------
(* The kernel. *)

Members(g) == {n \in Num : st[n] # "free" /\ grp[n] = g}

\* A number is handed out only when nothing has it as its id or group id.
Unused(n) == st[n] = "free" /\ Members(n) = {}

GroupExists(g) == Members(g) # {}

Appear(n, k, s, g) ==
  /\ st' = [st EXCEPT ![n] = "live"]
  /\ grp' = [grp EXCEPT ![n] = g]
  /\ kind' = [kind EXCEPT ![n] = k]
  /\ own' = [own EXCEPT ![n] = s]

\* The table after the process numbered n is reaped.
Vanish(n) ==
  /\ st' = [st EXCEPT ![n] = "free"]
  /\ grp' = [grp EXCEPT ![n] = NoNum]
  /\ own' = [own EXCEPT ![n] = NoScope]
  /\ UNCHANGED kind

Doomed(victims) ==
  [n \in Num |-> IF n \in victims /\ st[n] = "live" THEN "dying" ELSE st[n]]

\* Live members of group g that were not started for scope s.
Strangers(s, g) == {n \in Members(g) : st[n] = "live" /\ own[n] # s}

----------------------------------------------------------------------------
Init ==
  /\ st = [n \in Num |-> "free"]
  /\ grp = [n \in Num |-> NoNum]
  /\ kind = [n \in Num |-> "other"]
  /\ own = [n \in Num |-> NoScope]
  /\ pgid = [s \in Scope |-> NoNum]
  /\ live = [s \in Scope |-> 0]
  /\ failed = {}
  /\ anchorExit = [s \in Scope |-> "absent"]
  /\ killed = {}
  /\ anchorWait = [s \in Scope |-> NoNum]
  /\ rootWait = [n \in Num |-> "none"]
  /\ retry = {}
  /\ orphans = {}
  /\ unpublished = [s \in Scope |-> 0]
  /\ spawnPc = [s \in Scope |-> "idle"]
  /\ newborn = [s \in Scope |-> NoNum]
  /\ cleanPc = [s \in Scope |-> "idle"]
  /\ closed = {}
  /\ cleaned = {}
  /\ up = TRUE
  /\ struck = {}
  /\ fails = 0

----------------------------------------------------------------------------
(* Processes. *)

\* An unrelated program starts a process that leads a group of its own.
ForeignStart(n) ==
  /\ Unused(n)
  /\ Cardinality({m \in Num : st[m] # "free" /\ kind[m] = "other"}) < MaxForeign
  /\ Appear(n, "other", NoScope, n)
  /\ UNCHANGED <<groupVars, workerVars, callVars, up, struck, fails>>

\* A root or descendant forks; the child inherits the group.  What a process
\* that has left the scope's group forks is beyond the backend's reach.
Fork(p, n) ==
  /\ st[p] = "live" /\ kind[p] \in {"root", "kin"} /\ grp[p] # p
  /\ Unused(n)
  /\ Cardinality({m \in Num : st[m] # "free" /\ kind[m] = "kin"}) < MaxKin
  /\ Appear(n, "kin", own[p], grp[p])
  /\ UNCHANGED <<groupVars, workerVars, callVars, up, struck, fails>>

\* setsid: a root or descendant leaves for a group of its own.
Escape(n) ==
  /\ st[n] = "live" /\ kind[n] \in {"root", "kin"} /\ grp[n] # n
  /\ grp' = [grp EXCEPT ![n] = n]
  /\ UNCHANGED <<st, kind, own, groupVars, workerVars, callVars, up, struck,
                 fails>>

\* A process ends by itself or by a signal from elsewhere (the anchor ignores
\* HUP, INT and TERM, not KILL), or a pending SIGKILL takes effect.  Anchors and
\* roots stay zombies of this program, the rest is reaped by its parent or init.
End(n) ==
  /\ st[n] \in {"live", "dying"}
  /\ IF kind[n] \in {"anchor", "root"}
     THEN /\ st' = [st EXCEPT ![n] = "zombie"]
          /\ UNCHANGED <<grp, kind, own>>
     ELSE Vanish(n)
  /\ UNCHANGED <<groupVars, workerVars, callVars, up, struck, fails>>

----------------------------------------------------------------------------
(* Group signals. *)

\* signal_group: what a SIGKILL to scope s comes to.
SignalGroup(s) ==
  CASE pgid[s] = NoNum -> "skip"
    [] pgid[s] # NoNum /\ anchorExit[s] = "absent" /\ s \in failed -> "error"
    [] pgid[s] # NoNum /\ s \in killed -> "skip"
    [] pgid[s] # NoNum /\ s \notin killed /\ anchorExit[s] \in {"ok", "err"} ->
         IF GroupExists(pgid[s]) THEN "error" ELSE "skip"
    [] OTHER -> "kill"

\* The scopes in ss for which signal_group comes to killpg.
Targets(ss) == {s \in ss : SignalGroup(s) = "kill"}

\* The synchronous part of a kill of the scopes ss: killpg of every safe
\* group, which sets kill_issued, and then the registered roots rs, each by
\* its own identity (pidfd).
KillScopes(ss, rs) ==
  LET hit == UNION {Members(pgid[s]) : s \in Targets(ss)} IN
  /\ st' = Doomed(hit \union rs)
  /\ struck' = struck \union UNION {Strangers(s, pgid[s]) : s \in Targets(ss)}
  /\ killed' = killed \union {s \in Targets(ss) : anchorExit[s] # "absent"}

\* Roots with a registered slot whose process is not reaped, of the scopes ss.
Registered(ss) ==
  {n \in Num : /\ kind[n] = "root" /\ st[n] # "free" /\ own[n] \in ss
               /\ rootWait[n] # "none" \/ n \in orphans}

\* retry.try_send for every root in rs that still has a waiter task.
QueueRetries(rs) == retry' = retry \union {n \in rs : rootWait[n] # "none"}

\* hard_kill_scope, and hard_kill_all with ss = Scope.
HardKill(ss) ==
  /\ KillScopes(ss, Registered(ss))
  /\ QueueRetries(Registered(ss))
  /\ UNCHANGED <<grp, kind, own, pgid, live, failed, anchorExit, anchorWait,
                 rootWait, orphans, unpublished, callVars, up, fails>>

----------------------------------------------------------------------------
(* The anchor's waiter (AnchorWait). *)

\* poll_exit with the publication of the pin's loss left to a later step.
SilentReap(s) ==
  LET n == anchorWait[s] IN
  /\ up /\ n # NoNum /\ st[n] = "zombie"
  /\ Vanish(n)
  /\ anchorWait' = [anchorWait EXCEPT ![s] = NoNum]
  /\ UNCHANGED <<groupVars, rootWait, retry, orphans, unpublished, callVars,
                 up, struck, fails>>

\* poll_exit: reap and publish under the state mutex.
PollExit(s) ==
  LET n == anchorWait[s] IN
  /\ up /\ n # NoNum /\ st[n] = "zombie"
  /\ Vanish(n)
  /\ anchorWait' = [anchorWait EXCEPT ![s] = NoNum]
  /\ anchorExit' = [anchorExit EXCEPT ![s] =
                      IF @ = "absent" THEN @ ELSE "ok"]
  /\ UNCHANGED <<pgid, live, failed, killed, rootWait, retry, orphans,
                 unpublished, callVars, up, struck, fails>>

\* poll_exit after the host program reaped the anchor (ECHILD).  Theft and
\* discovery are one step: the host owes us exclusive reaping.
PollStolen(s) ==
  LET n == anchorWait[s] IN
  /\ up /\ n # NoNum /\ st[n] = "zombie"
  /\ fails < MaxFail /\ fails' = fails + 1
  /\ Vanish(n)
  /\ anchorWait' = [anchorWait EXCEPT ![s] = NoNum]
  /\ anchorExit' = [anchorExit EXCEPT ![s] =
                      IF @ = "absent" THEN @ ELSE "err"]
  /\ UNCHANGED <<pgid, live, failed, killed, rootWait, retry, orphans,
                 unpublished, callVars, up, struck>>

\* The runtime is dropped: every task is cancelled at an await (a spawn past
\* its lock has none).  Roots still owned go to reaper threads
\* (NativeChild::drop); AnchorWait::drop follows per scope.
RuntimeDown ==
  /\ up /\ \A s \in Scope : spawnPc[s] = "idle"
  /\ up' = FALSE
  /\ orphans' = orphans \union {n \in Num : rootWait[n] # "none"}
  /\ rootWait' = [n \in Num |-> "none"]
  /\ cleanPc' = [s \in Scope |-> "idle"]
  /\ UNCHANGED <<kernelVars, groupVars, anchorWait, retry, unpublished, spawnPc,
                 newborn, closed, cleaned, struck, fails>>

\* AnchorWait::drop of an armed waiter: the owned child still pins the group.
AnchorWaitDrop(s) ==
  LET n == anchorWait[s] IN
  /\ ~up /\ n # NoNum
  /\ st' = Doomed(Members(n))
  /\ struck' = struck \union Strangers(s, n)
  /\ killed' = IF pgid[s] = n /\ anchorExit[s] # "absent"
               THEN killed \union {s} ELSE killed
  /\ anchorExit' = [anchorExit EXCEPT ![s] =
                      IF @ = "absent" THEN @ ELSE "err"]
  /\ anchorWait' = [anchorWait EXCEPT ![s] = NoNum]
  /\ orphans' = orphans \union {n}
  /\ UNCHANGED <<grp, kind, own, pgid, live, failed, rootWait, retry,
                 unpublished, callVars, up, fails>>

\* The thread that took over a child reaps it.
OrphanReap(n) ==
  /\ n \in orphans /\ st[n] = "zombie"
  /\ Vanish(n)
  /\ orphans' = orphans \ {n}
  /\ UNCHANGED <<groupVars, anchorWait, rootWait, retry, unpublished, callVars,
                 up, struck, fails>>

----------------------------------------------------------------------------
(* spawn. *)

SpawnBegin(s) ==
  /\ up /\ spawnPc[s] = "idle" /\ cleanPc[s] = "idle" /\ s \notin closed
  /\ live[s] < MaxLive
  /\ spawnPc' = [spawnPc EXCEPT ![s] = "ensure"]
  /\ UNCHANGED <<kernelVars, groupVars, workerVars, newborn, cleanPc, closed,
                 cleaned, up, struck, fails>>

SpawnFails(s) == spawnPc' = [spawnPc EXCEPT ![s] = "idle"]

\* ensure_anchor: only a reaped anchor whose roots have all exited and whose
\* number is no group's may be replaced.
Replaceable(s) ==
  /\ anchorExit[s] = "ok"
  /\ live[s] = 0
  /\ ~GroupExists(pgid[s])

EnsureAnchor(s) ==
  /\ up /\ spawnPc[s] = "ensure"
  /\ IF anchorExit[s] = "absent" THEN
          /\ spawnPc' = [spawnPc EXCEPT ![s] = "fork"]
          /\ UNCHANGED groupVars
     ELSE IF s \notin killed /\ anchorExit[s] = "none" THEN
          /\ spawnPc' = [spawnPc EXCEPT ![s] = "join"]
          /\ UNCHANGED groupVars
     ELSE IF s \notin killed /\ Replaceable(s) THEN
          /\ spawnPc' = [spawnPc EXCEPT ![s] = "fork"]
          /\ anchorExit' = [anchorExit EXCEPT ![s] = "absent"]
          /\ pgid' = [pgid EXCEPT ![s] = NoNum]
          /\ failed' = failed \ {s}
          /\ UNCHANGED <<live, killed>>
     ELSE /\ SpawnFails(s)
          /\ UNCHANGED groupVars
  /\ UNCHANGED <<kernelVars, workerVars, newborn, cleanPc, closed, cleaned, up,
                 struck, fails>>

\* ensure_anchor starts the group leader and its waiter.  The entries follow
\* under the mutex; nobody can tell the moment between from the one before.
ForkAnchor(s, n) ==
  /\ up /\ spawnPc[s] = "fork"
  /\ Unused(n)
  /\ Appear(n, "anchor", s, n)
  /\ anchorWait' = [anchorWait EXCEPT ![s] = n]
  /\ anchorExit' = [anchorExit EXCEPT ![s] = "none"]
  /\ killed' = killed \ {s}
  /\ pgid' = [pgid EXCEPT ![s] = n]
  /\ live' = [live EXCEPT ![s] = 0]
  /\ failed' = failed \ {s}
  /\ spawnPc' = [spawnPc EXCEPT ![s] = "join"]
  /\ UNCHANGED <<rootWait, retry, orphans, unpublished, newborn, cleanPc,
                 closed, cleaned, up, struck, fails>>

\* spawn's recheck of the anchor before it joins the group.
Joinable(s) ==
  s \notin failed /\ s \notin killed /\ anchorExit[s] = "none"

\* spawn under the mutex: the child joins the group before the mutex is free.
SpawnJoin(s, n) ==
  /\ up /\ spawnPc[s] = "join" /\ Joinable(s)
  /\ Unused(n)
  /\ Appear(n, "root", s, pgid[s])
  /\ newborn' = [newborn EXCEPT ![s] = n]
  /\ spawnPc' = [spawnPc EXCEPT ![s] = "register"]
  /\ UNCHANGED <<groupVars, workerVars, cleanPc, closed, cleaned, up, struck,
                 fails>>

\* The group is quarantined, or fork or exec fails: the spawn returns an error.
\* An anchor lost since ensure_anchor sends the loop back to it.
SpawnJoinFails(s) ==
  /\ up /\ spawnPc[s] = "join"
  /\ IF s \notin failed /\ ~Joinable(s)
     THEN spawnPc' = [spawnPc EXCEPT ![s] = "ensure"]
     ELSE SpawnFails(s)
  /\ UNCHANGED <<kernelVars, groupVars, workerVars, newborn, cleanPc, closed,
                 cleaned, up, struck, fails>>

\* register_child, and the start of the root's waiter task.
Register(s) ==
  /\ up /\ spawnPc[s] = "register"
  /\ rootWait' = [rootWait EXCEPT ![newborn[s]] = "waiting"]
  /\ live' = [live EXCEPT ![s] = @ + 1]
  /\ newborn' = [newborn EXCEPT ![s] = NoNum]
  /\ spawnPc' = [spawnPc EXCEPT ![s] = "idle"]
  /\ UNCHANGED <<kernelVars, pgid, failed, anchorExit, killed, anchorWait,
                 retry, orphans, unpublished, cleanPc, closed, cleaned, up,
                 struck, fails>>

\* The pipes cannot be set up: the child, owned by nobody else, is killed and
\* NativeChild::drop hands it to a reaper thread.
SpawnPipeFails(s) ==
  /\ up /\ spawnPc[s] = "register"
  /\ st' = Doomed({newborn[s]})
  /\ orphans' = orphans \union {newborn[s]}
  /\ newborn' = [newborn EXCEPT ![s] = NoNum]
  /\ SpawnFails(s)
  /\ UNCHANGED <<grp, kind, own, groupVars, anchorWait, rootWait, retry,
                 unpublished, cleanPc, closed, cleaned, up, struck, fails>>

----------------------------------------------------------------------------
(* The waiter task of a root. *)

\* wait_os_child reaps; publish_wait_result is a later step.
RootReap(n) ==
  /\ up /\ rootWait[n] = "waiting" /\ st[n] = "zombie"
  /\ Vanish(n)
  /\ rootWait' = [rootWait EXCEPT ![n] = "none"]
  /\ retry' = retry \ {n}
  /\ unpublished' = [unpublished EXCEPT ![own[n]] = @ + 1]
  /\ UNCHANGED <<groupVars, anchorWait, orphans, callVars, up, struck, fails>>

\* publish_wait_result(Ok).
PublishReaped(s) ==
  /\ up /\ unpublished[s] > 0
  /\ unpublished' = [unpublished EXCEPT ![s] = @ - 1]
  /\ live' = [live EXCEPT ![s] = IF pgid[s] # NoNum /\ @ > 0 THEN @ - 1 ELSE @]
  /\ UNCHANGED <<kernelVars, pgid, failed, anchorExit, killed, anchorWait,
                 rootWait, retry, orphans, callVars, up, struck, fails>>

\* try_wait fails: publish_wait_result(Err) quarantines the group, and the
\* task parks until a retry is queued.
RootWaitFails(n) ==
  /\ up /\ rootWait[n] = "waiting"
  /\ fails < MaxFail /\ fails' = fails + 1
  /\ failed' = IF pgid[own[n]] # NoNum THEN failed \union {own[n]} ELSE failed
  /\ rootWait' = [rootWait EXCEPT ![n] = "parked"]
  /\ UNCHANGED <<kernelVars, pgid, live, anchorExit, killed, anchorWait, retry,
                 orphans, unpublished, callVars, up, struck>>

\* The host program reaped the root: ECHILD ends the task's ownership.
RootStolen(n) ==
  /\ up /\ rootWait[n] = "waiting" /\ st[n] = "zombie"
  /\ fails < MaxFail /\ fails' = fails + 1
  /\ Vanish(n)
  /\ failed' = IF pgid[own[n]] # NoNum THEN failed \union {own[n]} ELSE failed
  /\ rootWait' = [rootWait EXCEPT ![n] = "none"]
  /\ retry' = retry \ {n}
  /\ UNCHANGED <<pgid, live, anchorExit, killed, anchorWait, orphans,
                 unpublished, callVars, up, struck>>

\* retry_rx.recv
Unpark(n) ==
  /\ up /\ rootWait[n] = "parked" /\ n \in retry
  /\ rootWait' = [rootWait EXCEPT ![n] = "waiting"]
  /\ retry' = retry \ {n}
  /\ UNCHANGED <<kernelVars, groupVars, anchorWait, orphans, unpublished,
                 callVars, up, struck, fails>>

\* A wait call that finds the failure asks for another attempt.
WaitAgain(n) ==
  /\ up /\ rootWait[n] = "parked" /\ n \notin retry
  /\ retry' = retry \union {n}
  /\ UNCHANGED <<kernelVars, groupVars, anchorWait, rootWait, orphans,
                 unpublished, callVars, up, struck, fails>>

----------------------------------------------------------------------------
(* cleanup_scope. *)

\* A cleanup that fails may be called again.
CleanupBegin(s) ==
  /\ up /\ spawnPc[s] = "idle" /\ cleanPc[s] = "idle" /\ s \notin cleaned
  /\ closed' = closed \union {s}
  /\ cleanPc' = [cleanPc EXCEPT ![s] = "kill"]
  /\ UNCHANGED <<kernelVars, groupVars, workerVars, spawnPc, newborn, cleaned,
                 up, struck, fails>>

\* A cleanup that leaves failed waits to later callers.
CleanupKillNoRetry(s) ==
  /\ up /\ cleanPc[s] = "kill"
  /\ KillScopes({s}, {})
  /\ cleanPc' = [cleanPc EXCEPT ![s] =
                   IF SignalGroup(s) = "error" THEN "idle" ELSE "await"]
  /\ UNCHANGED <<grp, kind, own, pgid, live, failed, anchorExit, anchorWait,
                 rootWait, retry, orphans, unpublished, spawnPc, newborn, closed,
                 cleaned, up, fails>>

\* signal_scope(Kill): the group, then a retry for every slot of the scope.
CleanupKill(s) ==
  /\ up /\ cleanPc[s] = "kill"
  /\ KillScopes({s}, {})
  /\ QueueRetries(Registered({s}))
  /\ cleanPc' = [cleanPc EXCEPT ![s] =
                   IF SignalGroup(s) = "error" THEN "idle" ELSE "await"]
  /\ UNCHANGED <<grp, kind, own, pgid, live, failed, anchorExit, anchorWait,
                 rootWait, orphans, unpublished, spawnPc, newborn, closed,
                 cleaned, up, fails>>

\* What lets cleanup retire the group: no anchor, or its verified reap.
AnchorGone(s) == anchorExit[s] \in {"absent", "ok"}

\* The group, anchor and spawn lock are removed in one critical section.
CleanupRetire(s) ==
  /\ up /\ cleanPc[s] = "await" /\ AnchorGone(s)
  /\ anchorExit' = [anchorExit EXCEPT ![s] = "absent"]
  /\ killed' = killed \ {s}
  /\ pgid' = [pgid EXCEPT ![s] = NoNum]
  /\ live' = [live EXCEPT ![s] = 0]
  /\ failed' = failed \ {s}
  /\ cleaned' = cleaned \union {s}
  /\ cleanPc' = [cleanPc EXCEPT ![s] = "idle"]
  /\ UNCHANGED <<kernelVars, workerVars, spawnPc, newborn, closed, up, struck,
                 fails>>

\* The anchor's waiter reports an error, or five seconds pass.
CleanupFails(s) ==
  /\ up /\ cleanPc[s] = "await"
  /\ cleanPc' = [cleanPc EXCEPT ![s] = "idle"]
  /\ UNCHANGED <<kernelVars, groupVars, workerVars, spawnPc, newborn, closed,
                 cleaned, up, struck, fails>>

----------------------------------------------------------------------------
Next ==
  \/ \E n \in Num : \/ ForeignStart(n) \/ Escape(n) \/ End(n) \/ OrphanReap(n)
                    \/ RootReap(n) \/ RootWaitFails(n) \/ RootStolen(n)
                    \/ Unpark(n) \/ WaitAgain(n)
  \/ \E p, n \in Num : Fork(p, n)
  \/ \E s \in Scope : \/ SpawnBegin(s) \/ EnsureAnchor(s) \/ SpawnJoinFails(s)
                      \/ Register(s) \/ SpawnPipeFails(s) \/ PublishReaped(s)
                      \/ CleanupBegin(s) \/ CleanupKill(s) \/ CleanupRetire(s)
                      \/ CleanupFails(s) \/ HardKill({s})
                      \/ PollExit(s) \/ PollStolen(s) \/ AnchorWaitDrop(s)
  \/ \E s \in Scope, n \in Num : ForkAnchor(s, n) \/ SpawnJoin(s, n)
  \/ HardKill(Scope)
  \/ RuntimeDown

Spec == Init /\ [][Next]_vars

\* The kernel delivers SIGKILL, waiter tasks and reaper threads are scheduled,
\* and a cleanup that has begun is driven on; processes need not end by
\* themselves, and callers need not call.
Fairness ==
  /\ \A n \in Num : /\ WF_vars(st[n] = "dying" /\ End(n))
                    /\ WF_vars(OrphanReap(n))
                    /\ WF_vars(RootReap(n))
                    /\ WF_vars(Unpark(n))
  /\ \A s \in Scope : /\ WF_vars(PollExit(s)) /\ WF_vars(PublishReaped(s))
                      /\ WF_vars(AnchorWaitDrop(s))

FairSpec == Spec /\ Fairness

----------------------------------------------------------------------------
(* Properties. *)

TypeOK ==
  /\ st \in [Num -> {"free", "live", "dying", "zombie"}]
  /\ grp \in [Num -> Num \union {NoNum}]
  /\ kind \in [Num -> {"anchor", "root", "kin", "other"}]
  /\ own \in [Num -> Scope \union {NoScope}]
  /\ pgid \in [Scope -> Num \union {NoNum}]
  /\ live \in [Scope -> Nat]
  /\ failed \subseteq Scope /\ killed \subseteq Scope
  /\ anchorExit \in [Scope -> {"absent", "none", "ok", "err"}]
  /\ anchorWait \in [Scope -> Num \union {NoNum}]
  /\ rootWait \in [Num -> {"none", "waiting", "parked"}]
  /\ retry \subseteq Num /\ orphans \subseteq Num
  /\ unpublished \in [Scope -> Nat]
  /\ spawnPc \in [Scope -> {"idle", "ensure", "fork", "join", "register"}]
  /\ newborn \in [Scope -> Num \union {NoNum}]
  /\ cleanPc \in [Scope -> {"idle", "kill", "await"}]
  /\ closed \subseteq Scope /\ cleaned \subseteq Scope
  /\ up \in BOOLEAN
  /\ struck \subseteq Num
  /\ fails \in Nat

\* No group signal ever reaches a process of another scope or of another
\* program: signal_group and AnchorWait::drop use a group's number only while
\* an owned anchor pins it, whatever numbers the kernel has recycled.
NoStrangerSignalled == struck = {}

\* A group never mixes processes of two scopes, or ours with a stranger's: spawn
\* joins a number only while the anchor pins it (the recheck under the mutex),
\* and ensure_anchor replaces a group only once its number is gone.
GroupsAreDisjoint ==
  \A m, n \in Num :
    st[m] # "free" /\ st[n] # "free" /\ grp[m] = grp[n] => own[m] = own[n]

\* A scope whose cleanup_scope returned Ok has its anchor reaped and no runnable
\* process left in its group: everything that did not leave the group by setsid
\* is dead or has its SIGKILL, also after a loss of the anchor.
CleanedScopeIsSwept ==
  \A s \in cleaned :
    /\ anchorWait[s] = NoNum
    /\ \A n \in Num : own[n] = s /\ st[n] = "live" => grp[n] = n

\* A root is never lost: from setpgid until it is reaped it is in the hands of
\* the spawn that started it, of its waiter task, or of a reaper thread.
RootsAreOwned ==
  \A n \in Num :
    st[n] # "free" /\ kind[n] = "root" =>
      \/ rootWait[n] # "none"
      \/ n \in orphans
      \/ \E s \in Scope : newborn[s] = n

\* Once a whole-group kill was issued, no root enters the scope's group until
\* cleanup has retired it (kill_issued closes admission before and after the
\* anchor's reap).
NoJoinAfterKill ==
  [][\A s \in Scope : s \in killed =>
       \A n \in Num : kind'[n] = "root" /\ own'[n] = s /\ st'[n] # "free" =>
                        st[n] # "free"]_vars

\* A cleaned scope drains: every root that stayed in its group is eventually
\* reaped, also one whose waiter task was parked by an earlier wait failure (the
\* kill queues a retry), and also when the runtime ends before the reap.  One
\* failure is allowed: a retry that fails again waits for its next caller.
CleanedScopeDrains ==
  \A s \in Scope, n \in Num :
    (s \in cleaned /\ own[n] = s /\ kind[n] = "root" /\ grp[n] # n)
      ~> (st[n] = "free" \/ own[n] # s)

----------------------------------------------------------------------------
(* Why no stranger is signalled: the inductive invariant.                   *)

\* n is a process of scope s that shares the group of an anchor.
Stays(s, n) == st[n] # "free" /\ own[n] = s /\ grp[n] # n

\* Only roots and their descendants are in a group that is not their own; while
\* the number of that group is somebody's, it is the anchor of their scope.
GroupsLed ==
  \A n \in Num : st[n] # "free" =>
    /\ grp[n] \in Num
    /\ grp[n] # n =>
         /\ kind[n] \in {"root", "kin"}
         /\ st[grp[n]] # "free" => kind[grp[n]] = "anchor" /\ own[grp[n]] = own[n]

\* The number n is the anchor of scope s, and nobody but its waiter reaps it.
Pins(s, n) ==
  /\ st[n] # "free" /\ grp[n] = n /\ kind[n] = "anchor" /\ own[n] = s
  /\ n \notin orphans

\* As long as no exit of the anchor is published its waiter has the child, and
\* the child pins the number that scope_groups has for the scope.
AnchorPins ==
  \A s \in Scope :
    /\ (pgid[s] = NoNum <=> anchorExit[s] = "absent")
    /\ (anchorWait[s] # NoNum <=> anchorExit[s] = "none")
    /\ anchorWait[s] # NoNum => anchorWait[s] = pgid[s] /\ Pins(s, pgid[s])
    /\ spawnPc[s] = "fork" => anchorExit[s] = "absent"

\* A root has one owner at a time: its spawn, its waiter task or a thread.
OneReaper ==
  /\ \A n \in Num :
       /\ n \in orphans => /\ st[n] # "free" /\ rootWait[n] = "none"
                           /\ kind[n] \in {"anchor", "root"}
       /\ rootWait[n] # "none" =>
            st[n] # "free" /\ kind[n] = "root" /\ own[n] \in Scope
  /\ \A s \in Scope :
       /\ (spawnPc[s] = "register" <=> newborn[s] # NoNum)
       /\ newborn[s] # NoNum =>
            /\ st[newborn[s]] # "free" /\ kind[newborn[s]] = "root"
            /\ own[newborn[s]] = s
            /\ newborn[s] \notin orphans /\ rootWait[newborn[s]] = "none"

\* Everything that stays with a scope is in its present group; a scope without
\* a group, not cleaned, has nothing; what a kill or cleanup has passed is dead
\* or dying; and a spawn excludes a cleanup.
GroupHoldsScope ==
  \A s \in Scope :
    /\ pgid[s] # NoNum => \A n \in Num : Stays(s, n) => grp[n] = pgid[s]
    /\ pgid[s] = NoNum /\ s \notin cleaned => \A n \in Num : ~Stays(s, n)
    /\ s \in killed \union cleaned \/ cleanPc[s] = "await" =>
         \A n \in Num : Stays(s, n) => st[n] # "live"
    /\ s \in cleaned => s \in closed /\ pgid[s] = NoNum /\ cleanPc[s] = "idle"
    /\ s \in closed => spawnPc[s] = "idle"
    /\ cleanPc[s] # "idle" => s \in closed

IndInv ==
  /\ TypeOK /\ GroupsLed /\ GroupsAreDisjoint /\ AnchorPins /\ OneReaper
  /\ GroupHoldsScope /\ NoStrangerSignalled /\ RootsAreOwned
=============================================================================
