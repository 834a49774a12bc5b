------------------------------ MODULE Cgroups ------------------------------
(***************************************************************************)
(* cgroup v2 containment of the Unix backend (backend/cgroup.rs and the    *)
(* cgroup branches of backend/unix.rs).  A scope is one directory; a root  *)
(* writes itself into cgroup.procs between fork and exec, cgroup.kill ends *)
(* every member of the directory and of the directories nested below it,   *)
(* and cleanup waits for "populated 0" before it removes the tree.         *)
(*   The table of groups and the registry of roots have a mutex each: a    *)
(* hard kill writes cgroup.kill under the first and then kills registered  *)
(* roots under the second, which a spawn holds from fork to exec.  spawn   *)
(* and cleanup_scope of one scope exclude each other, and no spawn follows *)
(* a cleanup (module Supervisor).                                          *)
(***************************************************************************)
EXTENDS Naturals, FiniteSets

CONSTANTS
  Scope,
  Proc,
  NoScope,
  MaxFail       \* bound: failed calls, and cleanups that run out of polls

VARIABLES
  ps,           \* kernel: "none", "forked" (before exec), "running", "dying", "gone"
  at,           \* kernel: the scope directory a process is in or below
  of,           \* the scope it was started for
  dir,          \* kernel: the directory of a scope: "none", "there", "gone", or
                \* "stray", left by a failed Group::create
  nested,       \* kernel: scopes whose members made directories of their own
  groups,       \* Cgroups.groups
  slots,        \* registered roots (State.children)
  pidfd,        \* those of them whose pidfd could be opened
  spawn,        \* a spawn of p: "none", "member", "forked", "register"
  hard,         \* scopes a hard kill has yet to kill registered roots of
  aimed,        \* history: the registered roots of them when it began
  cleanPc, closed, cleaned,
  up,           \* "up", "dropped", "crashed"
  fails

kernelVars == <<ps, at, of, dir, nested>>
rootVars == <<slots, pidfd>>
callVars == <<hard, aimed, cleanPc, closed, cleaned>>
vars == <<kernelVars, groups, rootVars, spawn, callVars, up, fails>>

Init ==
  /\ ps = [p \in Proc |-> "none"]
  /\ at = [p \in Proc |-> NoScope]
  /\ of = [p \in Proc |-> NoScope]
  /\ dir = [s \in Scope |-> "none"]
  /\ nested = {}
  /\ groups = {} /\ slots = {} /\ pidfd = {}
  /\ spawn = [p \in Proc |-> "none"]
  /\ hard = {} /\ aimed = {}
  /\ cleanPc = [s \in Scope |-> "idle"]
  /\ closed = {} /\ cleaned = {}
  /\ up = "up"
  /\ fails = 0

Fail == fails < MaxFail /\ fails' = fails + 1

----------------------------------------------------------------------------
(* The kernel. *)

Alive(p) == ps[p] \in {"forked", "running", "dying"}

\* cgroup.events says "populated 1".
Populated(s) == \E p \in Proc : Alive(p) /\ at[p] = s

Doomed(victims) ==
  [p \in Proc |-> IF p \in victims /\ Alive(p) THEN "dying" ELSE ps[p]]

Members(ss) == {p \in Proc : at[p] \in ss}

\* A descendant is born where its parent is, whatever session it makes.
Fork(p, q) ==
  /\ ps[p] = "running" /\ ps[q] = "none" /\ of[q] = NoScope
  /\ ps' = [ps EXCEPT ![q] = "running"]
  /\ at' = [at EXCEPT ![q] = at[p]]
  /\ of' = [of EXCEPT ![q] = of[p]]
  /\ UNCHANGED <<dir, nested, groups, rootVars, spawn, callVars, up, fails>>

\* A member makes a directory below its scope's own.
Nest(p) ==
  /\ ps[p] = "running" /\ at[p] \notin nested /\ at[p] \in Scope
  /\ nested' = nested \union {at[p]}
  /\ UNCHANGED <<ps, at, of, dir, groups, rootVars, spawn, callVars, up, fails>>

End(p) ==
  /\ ps[p] \in {"running", "dying"}
  /\ ps' = [ps EXCEPT ![p] = "gone"]
  /\ UNCHANGED <<at, of, dir, nested, groups, rootVars, spawn, callVars, up, fails>>

----------------------------------------------------------------------------
(* spawn. *)

StateLocked == \E p \in Proc : spawn[p] = "forked"

\* membership: the scope's group, made at its first spawn, and a descriptor of
\* its cgroup.procs.  One spawn at a time per scope.
Membership(p, s) ==
  /\ up = "up" /\ ps[p] = "none" /\ of[p] = NoScope /\ s \notin closed
  /\ \A q \in Proc : of[q] = s => spawn[q] = "none"
  /\ s \in groups \/ dir[s] = "none"
  /\ dir' = [dir EXCEPT ![s] = "there"]
  /\ groups' = groups \union {s}
  /\ of' = [of EXCEPT ![p] = s]
  /\ spawn' = [spawn EXCEPT ![p] = "member"]
  /\ UNCHANGED <<ps, at, nested, rootVars, callVars, up, fails>>

\* membership fails: the directory cannot be made (a stray one of the name is in
\* the way) or was removed again, or cgroup.procs cannot be opened; the latter
\* leaves a new group in the table.  A directory whose cgroup.kill cannot be
\* opened and that cannot be removed either stays outside the table.
MembershipFails(s) ==
  /\ up = "up" /\ s \notin closed /\ Fail
  /\ \/ UNCHANGED <<dir, groups>>
     \/ /\ dir[s] = "none"
        /\ dir' = [dir EXCEPT ![s] = "there"]
        /\ groups' = groups \union {s}
     \/ /\ dir[s] = "none"
        /\ dir' = [dir EXCEPT ![s] = "stray"]
        /\ UNCHANGED groups
  /\ UNCHANGED <<ps, at, of, nested, rootVars, spawn, callVars, up>>

\* fork, under the mutex of the registry; the child is not in the group yet.
ForkRoot(p) ==
  /\ up = "up" /\ spawn[p] = "member" /\ ~StateLocked
  /\ ps' = [ps EXCEPT ![p] = "forked"]
  /\ spawn' = [spawn EXCEPT ![p] = "forked"]
  /\ UNCHANGED <<at, of, dir, nested, groups, rootVars, callVars, up, fails>>

\* A pre_exec that goes on when the write fails.
JoinUnchecked(p) ==
  /\ ps[p] = "forked"
  /\ ps' = [ps EXCEPT ![p] = "running"]
  /\ \/ at' = [at EXCEPT ![p] = of[p]] /\ UNCHANGED fails
     \/ Fail /\ UNCHANGED at
  /\ spawn' = [spawn EXCEPT ![p] = IF up = "up" THEN "register" ELSE "none"]
  /\ UNCHANGED <<of, dir, nested, groups, rootVars, callVars, up>>

\* pre_exec: the child writes itself into the group; then it runs.  A child
\* whose parent has crashed meanwhile goes on alone.
JoinExec(p) ==
  /\ ps[p] = "forked"
  /\ at' = [at EXCEPT ![p] = of[p]]
  /\ ps' = [ps EXCEPT ![p] = "running"]
  /\ spawn' = [spawn EXCEPT ![p] = IF up = "up" THEN "register" ELSE "none"]
  /\ UNCHANGED <<of, dir, nested, groups, rootVars, callVars, up, fails>>

\* The write or exec fails: the child ends and spawn returns the error.
JoinFails(p) ==
  /\ ps[p] = "forked" /\ Fail
  /\ ps' = [ps EXCEPT ![p] = "gone"]
  /\ spawn' = [spawn EXCEPT ![p] = "none"]
  /\ UNCHANGED <<at, of, dir, nested, groups, rootVars, callVars, up>>

\* open_pidfd, whose failure nobody is told of, and register_child.
Register(p) ==
  /\ up = "up" /\ spawn[p] = "register" /\ ~StateLocked
  /\ \/ pidfd' = pidfd \union {p} /\ UNCHANGED fails
     \/ Fail /\ UNCHANGED pidfd
  /\ slots' = slots \union {p}
  /\ spawn' = [spawn EXCEPT ![p] = "none"]
  /\ UNCHANGED <<kernelVars, groups, callVars, up>>

\* A wait returns the verified exit: the slot goes.
Reap(p) ==
  /\ up = "up" /\ p \in slots /\ ps[p] = "gone" /\ ~StateLocked
  /\ slots' = slots \ {p} /\ pidfd' = pidfd \ {p}
  /\ UNCHANGED <<kernelVars, groups, spawn, callVars, up, fails>>

----------------------------------------------------------------------------
(* Kills. *)

\* The registered roots of the scopes ss.
RootsOf(ss) == {p \in slots : of[p] \in ss}

\* hard_kill_scope, and hard_kill_all with ss = Scope: cgroup.kill of every
\* group, each on its own; an error is only logged.
HardKill(ss) ==
  /\ up = "up" /\ hard = {}
  /\ \/ /\ ps' = Doomed(Members(ss \intersect groups))
        /\ UNCHANGED fails
     \/ \E s \in ss \intersect groups :
          Fail /\ ps' = Doomed(Members((ss \ {s}) \intersect groups))
  /\ hard' = ss
  /\ aimed' = RootsOf(ss)
  /\ UNCHANGED <<at, of, dir, nested, groups, rootVars, spawn, cleanPc, closed,
                 cleaned, up>>

\* kill_registered_roots, under the mutex of the registry.  A root without a
\* pidfd is signalled by number, if its start time is known and still the same;
\* a root whose start time cannot be read is skipped.
HardRoots ==
  /\ up = "up" /\ hard # {} /\ ~StateLocked
  /\ \E skipped \in SUBSET (RootsOf(hard) \ pidfd) :
       ps' = Doomed(RootsOf(hard) \ skipped)
  /\ hard' = {} /\ aimed' = {}
  /\ UNCHANGED <<at, of, dir, nested, groups, rootVars, spawn, cleanPc, closed,
                 cleaned, up, fails>>

----------------------------------------------------------------------------
(* cleanup_scope.  A cleanup that fails may be called again. *)

CleanKill(s) ==
  /\ up = "up" /\ cleanPc[s] = "idle" /\ s \notin cleaned
  /\ \A p \in Proc : of[p] = s => spawn[p] = "none"
  /\ closed' = closed \union {s}
  /\ \/ /\ ps' = Doomed(Members({s} \intersect groups))
        /\ cleanPc' = [cleanPc EXCEPT ![s] = "finish"]
        /\ UNCHANGED fails
     \/ /\ Fail /\ s \in groups
        /\ UNCHANGED <<ps, cleanPc>>
  /\ UNCHANGED <<at, of, dir, nested, groups, rootVars, spawn, hard, aimed, cleaned, up>>

CleanOk(s) ==
  /\ groups' = groups \ {s}
  /\ dir' = [dir EXCEPT ![s] = IF s \in groups THEN "gone" ELSE @]
  /\ nested' = nested \ {s}
  /\ cleaned' = cleaned \union {s}
  /\ cleanPc' = [cleanPc EXCEPT ![s] = "idle"]
  /\ UNCHANGED <<ps, at, of, rootVars, spawn, hard, aimed, closed, up, fails>>

\* finish under the mutex of the groups: no group, or "populated 0" and the
\* tree is removed, nested directories first.
Finish(s) ==
  /\ up = "up" /\ cleanPc[s] = "finish"
  /\ s \in groups => ~Populated(s)
  /\ CleanOk(s)

\* The removal stops after the nested directories; the group stays.
RemoveFails(s) ==
  /\ up = "up" /\ cleanPc[s] = "finish" /\ s \in groups /\ ~Populated(s)
  /\ Fail
  /\ nested' \in {nested, nested \ {s}}
  /\ cleanPc' = [cleanPc EXCEPT ![s] = "idle"]
  /\ UNCHANGED <<ps, at, of, dir, groups, rootVars, spawn, hard, aimed, closed, cleaned, up>>

\* cgroup.events cannot be read, or 500 polls find the group populated.
FinishFails(s) ==
  /\ up = "up" /\ cleanPc[s] = "finish" /\ s \in groups /\ Fail
  /\ cleanPc' = [cleanPc EXCEPT ![s] = "idle"]
  /\ UNCHANGED <<kernelVars, groups, rootVars, spawn, hard, aimed, closed, cleaned, up>>

----------------------------------------------------------------------------
(* The end of the backend. *)

\* Directories of the scopes ss that rmdir removes: the empty and flat ones.
Removed(ss) ==
  [s \in Scope |-> IF s \in ss /\ ~Populated(s) /\ s \notin nested
                   THEN "gone" ELSE dir[s]]

\* No call is running that borrows the backend.
Quiet ==
  /\ \A p \in Proc : spawn[p] = "none"
  /\ \A s \in Scope : cleanPc[s] = "idle"
  /\ hard = {}

\* The backend goes after cgroup.kill failed for the groups in spared.
DropBut(spared) ==
  /\ up = "up" /\ Quiet
  /\ ps' = Doomed(Members(groups \ spared))
  /\ dir' = Removed(groups)
  /\ groups' = {} /\ slots' = {} /\ pidfd' = {}
  /\ up' = "dropped"
  /\ UNCHANGED <<at, of, nested, spawn, callVars>>

\* Cgroups::drop: kill_all, then every Group::drop writes cgroup.kill again and
\* removes its directory if rmdir lets it.
Drop ==
  \E f, g \in SUBSET groups :
    /\ fails + Cardinality(f) + Cardinality(g) <= MaxFail
    /\ fails' = fails + Cardinality(f) + Cardinality(g)
    /\ DropBut(f \intersect g)

\* The supervising program dies: nobody writes cgroup.kill for it.
Crash ==
  /\ up = "up"
  /\ up' = "crashed"
  /\ groups' = {} /\ slots' = {} /\ pidfd' = {}
  /\ hard' = {} /\ aimed' = {}
  /\ spawn' = [p \in Proc |-> "none"]
  /\ cleanPc' = [s \in Scope |-> "idle"]
  /\ UNCHANGED <<kernelVars, closed, cleaned, fails>>

----------------------------------------------------------------------------
Next ==
  \/ \E p \in Proc : \/ Nest(p) \/ End(p) \/ ForkRoot(p) \/ JoinExec(p)
                     \/ JoinFails(p) \/ Register(p) \/ Reap(p)
  \/ \E p, q \in Proc : Fork(p, q)
  \/ \E p \in Proc, s \in Scope : Membership(p, s)
  \/ \E s \in Scope : \/ MembershipFails(s) \/ HardKill({s}) \/ CleanKill(s)
                      \/ Finish(s) \/ RemoveFails(s) \/ FinishFails(s)
  \/ HardKill(Scope)
  \/ HardRoots
  \/ Drop
  \/ Crash

Spec == Init /\ [][Next]_vars

\* The kernel ends the members of a killed group, and a cleanup that has begun
\* polls on.  Programs need not end.
Fairness ==
  /\ \A p \in Proc : WF_vars(ps[p] = "dying" /\ End(p))
  /\ \A s \in Scope : WF_vars(Finish(s))

FairSpec == Spec /\ Fairness

----------------------------------------------------------------------------
(* Properties. *)

TypeOK ==
  /\ ps \in [Proc -> {"none", "forked", "running", "dying", "gone"}]
  /\ at \in [Proc -> Scope \union {NoScope}]
  /\ of \in [Proc -> Scope \union {NoScope}]
  /\ dir \in [Scope -> {"none", "there", "gone", "stray"}]
  /\ nested \subseteq Scope /\ groups \subseteq Scope
  /\ slots \subseteq Proc /\ pidfd \subseteq slots /\ aimed \subseteq Proc
  /\ spawn \in [Proc -> {"none", "member", "forked", "register"}]
  /\ hard \subseteq Scope
  /\ cleanPc \in [Scope -> {"idle", "finish"}]
  /\ closed \subseteq Scope /\ cleaned \subseteq Scope
  /\ up \in {"up", "dropped", "crashed"}
  /\ fails \in 0 .. MaxFail

\* User code runs only in the directory of its own scope, and as long as the
\* backend exists that directory is in its table: whatever failed before, a
\* later cgroup.kill reaches every process of the scope, detached ones included.
RunsInGroup ==
  \A p \in Proc : ps[p] \in {"running", "dying"} =>
    /\ at[p] = of[p]
    /\ dir[of[p]] = "there"
    /\ up = "up" => of[p] \in groups

\* A scope whose cleanup_scope returned Ok has no process and no directory left,
\* nested directories included.  What a failed Group::create could not remove
\* stays, but no process was ever started for such a scope.
CleanedScopeIsGone ==
  \A s \in cleaned :
    /\ dir[s] # "there" /\ s \notin nested
    /\ \A p \in Proc : of[p] = s => ~Alive(p) /\ dir[s] # "stray"

\* A hard kill ends every root of its scopes that was registered when it began,
\* although one thing failed on the way: the write to cgroup.kill, since the
\* roots are signalled as well, or the pidfd of a root, since it is in the cgroup.
\* (Both together spare a root whose start time is not known either.)
HardKillReachesRoots ==
  [][hard # {} /\ hard' = {} /\ up' = "up" /\ fails <= 1 =>
       \A p \in aimed : ps'[p] # "running"]_vars

\* One failed write does not leave a scope running behind a dropped backend:
\* kill_all and Group::drop write cgroup.kill independently.
DroppedIsKilled ==
  up = "dropped" /\ fails <= 1 => \A p \in Proc : ps[p] # "running"

\* Under a kernel that kills and calls that work, a cleanup past its kill
\* succeeds, whatever directories the scope's processes have made.
CleanupSucceeds ==
  \A s \in Scope : cleanPc[s] = "finish" ~> (s \in cleaned \/ up # "up")

----------------------------------------------------------------------------
(* Why a cleaned scope is gone: the inductive invariant.                    *)

\* A spawn has its scope's directory in the table, and no cleanup has begun; a
\* child between fork and exec is in no directory of ours; and only a child past
\* exec is registered.
SpawnHasGroup ==
  \A p \in Proc :
    /\ spawn[p] # "none" => up = "up" /\ of[p] \in groups /\ of[p] \notin closed
    /\ spawn[p] = "member" => ps[p] = "none"
    /\ spawn[p] = "forked" => ps[p] = "forked"
    /\ ps[p] = "forked" =>
         /\ of[p] \in Scope /\ of[p] \notin closed /\ dir[of[p]] = "there"
         /\ up # "dropped" /\ (up = "up" => spawn[p] = "forked")
    /\ spawn[p] = "register" \/ p \in slots => ps[p] \in {"running", "dying", "gone"}
    /\ ps[p] \in {"none", "forked"} => at[p] = NoScope
    /\ ps[p] \in {"running", "dying"} => of[p] \in Scope

\* While the backend exists its table lists the directories there are.
TableIsTree ==
  /\ IsFiniteSet(groups)
  /\ up = "up" => \A s \in Scope : s \in groups <=> dir[s] = "there"

\* A root has no pidfd only after a failure, and a root that a hard kill aimed at
\* runs on, until its registered roots are killed, only after another.
RootsAreAimedAt ==
  /\ slots # pidfd => fails >= 1
  /\ hard = {} => aimed = {}
  /\ \A p \in aimed :
       /\ ps[p] \in {"running", "dying", "gone"}
       /\ ps[p] = "running" =>
            /\ p \in slots /\ of[p] \in hard /\ fails >= 1
            /\ p \notin pidfd => fails >= 2

\* A scope without a directory, or with a stray one, has had no process.
StrayIsEmpty ==
  \A s \in Scope : dir[s] \in {"none", "stray"} => \A p \in Proc : of[p] # s

\* A cleanup closes its scope before anything else.
CleanupCloses ==
  /\ \A s \in Scope : cleanPc[s] # "idle" => s \in closed
  /\ cleaned \subseteq closed

IndInv ==
  /\ TypeOK /\ SpawnHasGroup /\ TableIsTree /\ CleanupCloses
  /\ RootsAreAimedAt /\ StrayIsEmpty
  /\ RunsInGroup /\ CleanedScopeIsGone /\ DroppedIsKilled
=============================================================================
