----------------------------- MODULE ChildWait -----------------------------
(***************************************************************************)
(* How the Unix backend waits for a root (backend/unix.rs): a waiter task  *)
(* owns the native child, publishes each result of wait_os_child on a      *)
(* watch channel kept in the child's slot, and after a failure parks on a  *)
(* retry channel of capacity one.  Any number of wait calls subscribe to   *)
(* the slot, ask for a retry when they find a failure, and remove the slot *)
(* once they have an exit.  Slots are keyed by (os pid, reuse token), and  *)
(* the kernel recycles numbers.  The token is the start time, if it could  *)
(* be read: on Linux and macOS a failed read, and on any other Unix every  *)
(* read, leaves the children of a number with one key.                     *)
(***************************************************************************)
EXTENDS Naturals, FiniteSets

CONSTANTS
  Child,        \* process instances; the instance stands for its start time
  Num,          \* process numbers
  NoNum,        \* no number
  Caller,       \* concurrent calls of wait
  NoChild,      \* no instance, and the token 0
  HostReaps,    \* the host program may reap a child of ours (ECHILD)
  MaxFail,      \* bound: transient failures of try_wait
  MaxCalls      \* bound: calls of wait

VARIABLES
  os,           \* "unborn", "live", "zombie", "reaped" by its task, "stolen"
                \* (reaped by somebody else)
  num,          \* os pid of an instance
  token,        \* its reuse token: the start time, or 0 when it is unavailable
  children,     \* State.children: key -> the instance whose slot it is
  worker,       \* waiter task: "none", "waiting", "publish", "parked",
                \* "closing", "gone"
  outcome,      \* what the task is about to publish: "ok", "err", "lost"
  watch,        \* the watch channel: what was published last
  version,      \* and how often
  queued,       \* instances with a retry in the channel
  hardKilled,   \* instances whose kill asked for a retry not yet attempted
  pc, asked, seen, result,    \* a call of wait
  target,       \* the instance whose channel the call subscribed to
  fresh,        \* callers whose target failed an attempt since they asked
  calls, fails

childVars == <<os, num, token, children>>
taskVars == <<worker, outcome, watch, version, queued>>
callVars == <<pc, asked, target, seen, result, fresh, calls>>
vars == <<childVars, taskVars, callVars, hardKilled, fails>>

----------------------------------------------------------------------------
\* child_key without the reuse token.
NumberKey(c) == <<num[c], NoChild>>

\* child_key: the number and the token, which tells its instances apart unless
\* it is unavailable.
ChildKey(c) == <<num[c], token[c]>>

Key == Num \X (Child \union {NoChild})

\* A number is pinned until its process is reaped by somebody.
Free(n) == \A c \in Child : num[c] = n => os[c] \in {"unborn", "reaped", "stolen"}

\* The instance whose slot the identity of c finds, or NoChild.
Slot(c) == IF num[c] = NoNum THEN NoChild ELSE children[ChildKey(c)]

Init ==
  /\ os = [c \in Child |-> "unborn"]
  /\ num = [c \in Child |-> NoNum]
  /\ token = [c \in Child |-> NoChild]
  /\ children = [k \in Key |-> NoChild]
  /\ worker = [c \in Child |-> "none"]
  /\ outcome = [c \in Child |-> "none"]
  /\ watch = [c \in Child |-> "none"]
  /\ version = [c \in Child |-> 0]
  /\ queued = {}
  /\ hardKilled = {}
  /\ pc = [w \in Caller |-> "idle"]
  /\ asked = [w \in Caller |-> NoChild]
  /\ target = [w \in Caller |-> NoChild]
  /\ seen = [w \in Caller |-> 0]
  /\ result = [w \in Caller |-> "none"]
  /\ fresh = {}
  /\ calls = 0
  /\ fails = 0

----------------------------------------------------------------------------
(* The child and the kernel. *)

\* spawn: the start time is read, register_child inserts the slot, over that of
\* an earlier child with the same key, and the waiter task starts.
Spawn(c, n) ==
  /\ os[c] = "unborn" /\ Free(n)
  /\ os' = [os EXCEPT ![c] = "live"]
  /\ num' = [num EXCEPT ![c] = n]
  /\ \E t \in {c, NoChild} : token' = [token EXCEPT ![c] = t]
  /\ children' = [children EXCEPT ![(ChildKey(c))'] = c]
  /\ worker' = [worker EXCEPT ![c] = "waiting"]
  /\ UNCHANGED <<outcome, watch, version, queued, callVars, hardKilled, fails>>

Exit(c) ==
  /\ os[c] = "live"
  /\ os' = [os EXCEPT ![c] = "zombie"]
  /\ UNCHANGED <<num, token, children, taskVars, callVars, hardKilled, fails>>

\* Code of the host program calls waitpid on our child.
HostReap(c) ==
  /\ HostReaps
  /\ os[c] = "zombie"
  /\ os' = [os EXCEPT ![c] = "stolen"]
  /\ UNCHANGED <<num, token, children, taskVars, callVars, hardKilled, fails>>

----------------------------------------------------------------------------
(* The waiter task. *)

Attempt(c, o) ==
  /\ worker[c] = "waiting"
  /\ worker' = [worker EXCEPT ![c] = "publish"]
  /\ outcome' = [outcome EXCEPT ![c] = o]
  /\ hardKilled' = hardKilled \ {c}
  /\ UNCHANGED <<num, token, children, watch, version, queued, callVars>>

\* wait_os_child returns the status: the child is reaped.
WaitOk(c) ==
  /\ os[c] = "zombie"
  /\ os' = [os EXCEPT ![c] = "reaped"]
  /\ Attempt(c, "ok")
  /\ UNCHANGED fails

\* wait_os_child fails, and the child is still ours.
WaitErr(c) ==
  /\ fails < MaxFail /\ fails' = fails + 1
  /\ Attempt(c, "err")
  /\ UNCHANGED os

\* ECHILD: the native child is given up for good.
WaitLost(c) ==
  /\ os[c] = "stolen"
  /\ Attempt(c, "lost")
  /\ UNCHANGED <<os, fails>>

\* Callers whose target is c and who have looked at its channel already.
Watching(c) == {w \in Caller : target[w] = c /\ pc[w] \in {"ask", "changed", "read"}}

\* publish_wait_result, and the decision to park.
Publish(c) ==
  /\ worker[c] = "publish"
  /\ watch' = [watch EXCEPT ![c] = IF outcome[c] = "ok" THEN "ok" ELSE "err"]
  /\ version' = [version EXCEPT ![c] = @ + 1]
  /\ worker' = [worker EXCEPT ![c] =
                  IF outcome[c] = "err" THEN "parked" ELSE "closing"]
  /\ fresh' = IF outcome[c] = "ok" THEN fresh ELSE fresh \union Watching(c)
  /\ UNCHANGED <<childVars, outcome, queued, pc, asked, target, seen, result,
                 calls, hardKilled, fails>>

\* retry_rx.recv
Retry(c) ==
  /\ worker[c] = "parked" /\ c \in queued
  /\ queued' = queued \ {c}
  /\ worker' = [worker EXCEPT ![c] = "waiting"]
  /\ UNCHANGED <<childVars, outcome, watch, version, callVars, hardKilled, fails>>

\* Nobody is left who could ask: the slot is another child's or gone, and no
\* call holds its sender.
ParkedEnds(c) ==
  /\ worker[c] = "parked" /\ c \notin queued
  /\ Slot(c) # c
  /\ \A w \in Caller : target[w] = c => pc[w] # "ask"
  /\ worker' = [worker EXCEPT ![c] = "closing"]
  /\ UNCHANGED <<childVars, outcome, watch, version, queued, callVars, hardKilled,
                 fails>>

\* NativeChild::drop: a thread reaps the child that the task gave up.
OrphanReap(c) ==
  /\ worker[c] = "gone" /\ outcome[c] = "err" /\ os[c] = "zombie"
  /\ os' = [os EXCEPT ![c] = "stolen"]
  /\ UNCHANGED <<num, token, children, taskVars, callVars, hardKilled, fails>>

\* The task finishes its output readers and ends; only now is the retry
\* channel closed.
Close(c) ==
  /\ worker[c] = "closing"
  /\ worker' = [worker EXCEPT ![c] = "gone"]
  /\ queued' = queued \ {c}
  /\ UNCHANGED <<childVars, outcome, watch, version, callVars, hardKilled, fails>>

----------------------------------------------------------------------------
(* Kills. *)

\* A kill that signals and leaves the reap to the next wait.
KillNoRetry(c) ==
  /\ Slot(c) = c /\ os[c] \in {"live", "zombie"} /\ worker[c] # "gone"
  /\ os' = [os EXCEPT ![c] = "zombie"]
  /\ hardKilled' = hardKilled \union {c}
  /\ UNCHANGED <<num, token, children, taskVars, callVars, fails>>

\* signal_scope(Kill) and kill_registered_roots: a slot of the scope gets the
\* signal and retry.try_send.
Kill(c) ==
  /\ Slot(c) = c /\ os[c] \in {"live", "zombie"} /\ worker[c] # "gone"
  /\ os' = [os EXCEPT ![c] = "zombie"]
  /\ queued' = queued \union {c}
  /\ hardKilled' = hardKilled \union {c}
  /\ UNCHANGED <<num, token, children, worker, outcome, watch, version, callVars, fails>>

\* kill_registered_roots skips a root that has no pidfd and no token that still
\* matches, but asks for the retry.
KillSkips(c) ==
  /\ Slot(c) = c /\ os[c] \in {"live", "zombie"} /\ worker[c] # "gone"
  /\ queued' = queued \union {c}
  /\ UNCHANGED <<childVars, worker, outcome, watch, version, callVars, hardKilled, fails>>

----------------------------------------------------------------------------
(* A call of wait. *)

\* The slot is looked up and its channel subscribed to.
WaitBegin(w, c) ==
  /\ pc[w] = "idle" /\ calls < MaxCalls /\ os[c] # "unborn"
  /\ calls' = calls + 1
  /\ fresh' = fresh \ {w}
  /\ asked' = [asked EXCEPT ![w] = c]
  /\ target' = [target EXCEPT ![w] = Slot(c)]
  /\ IF Slot(c) = NoChild
     THEN /\ pc' = [pc EXCEPT ![w] = "done"]
          /\ result' = [result EXCEPT ![w] = "unknown"]
          /\ UNCHANGED seen
     ELSE /\ seen' = [seen EXCEPT ![w] = version[Slot(c)]]
          /\ pc' = [pc EXCEPT ![w] = IF watch[Slot(c)] = "err"
                                     THEN "ask" ELSE "read"]
          /\ UNCHANGED result
  /\ UNCHANGED <<childVars, taskVars, hardKilled, fails>>

\* The retry request that takes a closed channel for a failure.
HardAsk(w) ==
  LET c == target[w] IN
  /\ pc[w] = "ask"
  /\ IF worker[c] = "gone"
     THEN /\ pc' = [pc EXCEPT ![w] = "done"]
          /\ result' = [result EXCEPT ![w] = "err"]
          /\ UNCHANGED queued
     ELSE /\ queued' = queued \union {c}
          /\ pc' = [pc EXCEPT ![w] = "changed"]
          /\ UNCHANGED result
  /\ UNCHANGED <<childVars, worker, outcome, watch, version, asked, target,
                 seen, fresh, calls, hardKilled, fails>>

\* The call that waits for news without asking for any.
MuteAsk(w) ==
  /\ pc[w] = "ask"
  /\ pc' = [pc EXCEPT ![w] = "changed"]
  /\ UNCHANGED <<childVars, taskVars, asked, target, seen, result, fresh, calls,
                 hardKilled, fails>>

\* retry.try_send: queued, already full, or closed.
Ask(w) ==
  LET c == target[w] IN
  /\ pc[w] = "ask"
  /\ IF worker[c] = "gone"
     THEN /\ pc' = [pc EXCEPT ![w] = "read"]
          /\ UNCHANGED queued
     ELSE /\ queued' = queued \union {c}
          /\ pc' = [pc EXCEPT ![w] = "changed"]
  /\ UNCHANGED <<childVars, worker, outcome, watch, version, asked, target,
                 seen, result, fresh, calls, hardKilled, fails>>

\* rx.changed: something was published since the last look.
Changed(w) ==
  LET c == target[w] IN
  /\ pc[w] = "changed" /\ version[c] # seen[w]
  /\ seen' = [seen EXCEPT ![w] = version[c]]
  /\ pc' = [pc EXCEPT ![w] = "read"]
  /\ UNCHANGED <<childVars, taskVars, asked, target, result, fresh, calls,
                 hardKilled, fails>>

\* rx.changed fails: both senders, of the task and of the slot, are gone.
ChannelClosed(w) ==
  LET c == target[w] IN
  /\ pc[w] = "changed" /\ version[c] = seen[w]
  /\ worker[c] = "gone" /\ Slot(c) # c
  /\ result' = [result EXCEPT ![w] = "err"]
  /\ pc' = [pc EXCEPT ![w] = "done"]
  /\ UNCHANGED <<childVars, taskVars, asked, target, seen, fresh, calls, hardKilled,
                 fails>>

\* The loop that reads the latest observation, and the removal of the slot
\* after an exit.
Read(w) ==
  LET c == target[w] IN
  /\ pc[w] = "read" /\ watch[c] # "none"
  /\ result' = [result EXCEPT ![w] = watch[c]]
  /\ children' = IF watch[c] = "ok"
                 THEN [children EXCEPT ![ChildKey(asked[w])] = NoChild] ELSE children
  /\ pc' = [pc EXCEPT ![w] = "done"]
  /\ UNCHANGED <<os, num, token, taskVars, asked, target, seen, fresh, calls, hardKilled,
                 fails>>

\* The caller returns, or drops the wait future half-way.
Leave(w) ==
  /\ pc[w] # "idle"
  /\ pc' = [pc EXCEPT ![w] = "idle"]
  /\ asked' = [asked EXCEPT ![w] = NoChild]
  /\ target' = [target EXCEPT ![w] = NoChild]
  /\ seen' = [seen EXCEPT ![w] = 0]
  /\ result' = [result EXCEPT ![w] = "none"]
  /\ fresh' = fresh \ {w}
  /\ UNCHANGED <<childVars, taskVars, calls, hardKilled, fails>>

----------------------------------------------------------------------------
Next ==
  \/ \E c \in Child : \/ Exit(c) \/ HostReap(c) \/ WaitOk(c) \/ WaitErr(c)
                      \/ WaitLost(c) \/ Publish(c) \/ Retry(c) \/ Close(c)
                      \/ ParkedEnds(c) \/ OrphanReap(c) \/ Kill(c) \/ KillSkips(c)
  \/ \E c \in Child, n \in Num : Spawn(c, n)
  \/ \E w \in Caller : \/ Ask(w) \/ Changed(w) \/ ChannelClosed(w) \/ Read(w)
                       \/ Leave(w)
  \/ \E w \in Caller, c \in Child : WaitBegin(w, c)

Spec == Init /\ [][Next]_vars

\* The task and the calls are driven by the executor; children need not end,
\* nobody needs to kill, and a caller need not stay.
Fairness ==
  /\ \A c \in Child : /\ WF_vars(WaitOk(c)) /\ WF_vars(WaitLost(c))
                      /\ WF_vars(Publish(c)) /\ WF_vars(Retry(c))
                      /\ WF_vars(Close(c)) /\ WF_vars(ParkedEnds(c))
  /\ \A w \in Caller : /\ WF_vars(Ask(w)) /\ WF_vars(Changed(w))
                       /\ WF_vars(ChannelClosed(w)) /\ WF_vars(Read(w))

FairSpec == Spec /\ Fairness

----------------------------------------------------------------------------
(* Properties. *)

TypeOK ==
  /\ os \in [Child -> {"unborn", "live", "zombie", "reaped", "stolen"}]
  /\ num \in [Child -> Num \union {NoNum}]
  /\ \A c \in Child : token[c] \in {c, NoChild}
  /\ DOMAIN token = Child
  /\ children \in [Key -> Child \union {NoChild}]
  /\ worker \in [Child -> {"none", "waiting", "publish", "parked", "closing",
                           "gone"}]
  /\ outcome \in [Child -> {"none", "ok", "err", "lost"}]
  /\ watch \in [Child -> {"none", "ok", "err"}]
  /\ version \in [Child -> Nat]
  /\ queued \subseteq Child /\ hardKilled \subseteq Child
  /\ pc \in [Caller -> {"idle", "ask", "changed", "read", "done"}]
  /\ asked \in [Caller -> Child \union {NoChild}]
  /\ target \in [Caller -> Child \union {NoChild}]
  /\ seen \in [Caller -> Nat]
  /\ result \in [Caller -> {"none", "ok", "err", "unknown"}]
  /\ fresh \subseteq Caller
  /\ calls \in Nat /\ fails \in Nat

\* A wait call returns an exit only of the child it was asked about, and only
\* after that child was reaped: a recycled number cannot answer for it.  Without
\* a token the exit may be that of a later child of the same number, which has
\* no token either, and never of one that is not reaped.
ExitIsOwn ==
  \A w \in Caller : result[w] = "ok" =>
    /\ os[target[w]] = "reaped"
    /\ ChildKey(target[w]) = ChildKey(asked[w])
    /\ token[asked[w]] # NoChild => target[w] = asked[w]

\* A wait call never returns a stale failure: when it returns an error, an
\* attempt at its child failed after the call had begun, or the child is lost
\* to another reaper.  In particular a retry that another caller's attempt
\* overtook reports that attempt's success, although the retry channel is
\* closed by then.
ErrorIsFresh ==
  \A w \in Caller :
    result[w] = "err" => w \in fresh \/ outcome[target[w]] = "lost"

\* The slot, and with it the identity that a kill backstop needs, is kept until
\* somebody has been given the exit of a reaped child; a failed wait keeps it,
\* and no other child's slot takes its place.  Without a token a late wait on an
\* earlier child of the number may remove it, but until its own child is reaped
\* the key leads to no other: no signal meant for it reaches a stranger.
SlotKeptUntilReaped ==
  \A c \in Child :
    /\ os[c] \in {"live", "zombie", "stolen"} /\ token[c] # NoChild => Slot(c) = c
    /\ os[c] \in {"live", "zombie"} => Slot(c) \in {c, NoChild}

----------------------------------------------------------------------------
(* The inductive invariant behind them. *)

\* A slot has the key of its child, so that tokens keep those of one number apart.
SlotIsKeyed ==
  \A k \in Key : children[k] # NoChild => ChildKey(children[k]) = k

\* Nobody waits for an attempt of a task that ends without the exit.
ChildIsGivenUp(c) ==
  /\ Slot(c) # c /\ c \notin queued
  /\ \A w \in Caller : target[w] = c => pc[w] # "ask"

\* What the waiter task has seen and published says what became of its child: it
\* owns the child until it publishes a reap or the loss, and then never again,
\* or until nobody can ask for another attempt.
WorkerKnows ==
  \A c \in Child :
    /\ os[c] = "unborn" <=> num[c] = NoNum
    /\ os[c] = "unborn" <=> worker[c] = "none"
    /\ worker[c] \in {"none", "waiting", "parked"} =>
         os[c] # "reaped" /\ outcome[c] \in {"none", "err"} /\ watch[c] # "ok"
    /\ worker[c] = "parked" => outcome[c] = "err" /\ watch[c] = "err"
    /\ worker[c] = "publish" => outcome[c] # "none" /\ watch[c] # "ok"
    /\ worker[c] \in {"closing", "gone"} =>
         /\ outcome[c] # "none" /\ (watch[c] = "ok" <=> outcome[c] = "ok")
         /\ outcome[c] = "err" => ChildIsGivenUp(c)
    /\ worker[c] = "gone" => c \notin queued
    /\ os[c] = "reaped" <=> outcome[c] = "ok"
    /\ outcome[c] = "lost" => os[c] = "stolen"

\* One child is looked up for the other.
SameKey(c, d) == {c, d} \subseteq Child /\ ChildKey(c) = ChildKey(d)

\* A call under way is subscribed to a child with the key it was asked about; a
\* failure it could read was published since it began, or is the loss of the
\* child; and while it waits for news an attempt is under way or asked for,
\* unless the child is lost.
CallKnows ==
  \A w \in Caller :
    /\ pc[w] = "idle" => result[w] = "none"
    /\ pc[w] \in {"ask", "changed", "read"} =>
         /\ SameKey(target[w], asked[w]) /\ num[asked[w]] \in Num
         /\ result[w] = "none" /\ seen[w] <= version[target[w]]
    /\ pc[w] \in {"ask", "changed"} /\ version[target[w]] = seen[w] =>
         watch[target[w]] = "err"
    /\ pc[w] = "changed" /\ version[target[w]] = seen[w] =>
         \/ target[w] \in queued \/ worker[target[w]] \in {"waiting", "publish"}
         \/ outcome[target[w]] = "lost"
    /\ pc[w] \in {"ask", "changed"} /\ version[target[w]] # seen[w]
         /\ watch[target[w]] = "err" => w \in fresh
    /\ pc[w] = "read" /\ watch[target[w]] = "err" =>
         w \in fresh \/ outcome[target[w]] = "lost"
    /\ pc[w] = "done" /\ result[w] # "unknown" =>
         SameKey(target[w], asked[w]) /\ num[asked[w]] \in Num

IndInv ==
  /\ TypeOK /\ SlotIsKeyed /\ WorkerKnows /\ CallKnows
  /\ ExitIsOwn /\ ErrorIsFresh /\ SlotKeptUntilReaped

----------------------------------------------------------------------------
(* Progress. *)

\* A kill is followed by an attempt to reap, also when the task was parked by
\* an earlier failure, or the failure was not yet published, and nobody waits.
KillForcesAttempt ==
  \A c \in Child : c \in hardKilled ~> (c \notin hardKilled \/ os[c] = "stolen")

\* Every wait on a child that has ended returns unless its caller drops it
\* (ports.rs: "Resolves when the process has exited").
WaitReturns ==
  \A w \in Caller, c \in Child :
    (target[w] = c /\ pc[w] # "idle" /\ os[c] \in {"zombie", "reaped", "stolen"})
      ~> (pc[w] \in {"idle", "done"})
=============================================================================
