------------------------------- MODULE Waiters ------------------------------
(***************************************************************************)
(* The waiter set on its own, with its clients: publishers that call       *)
(* signal_exit in any order and any number of times, and receivers that    *)
(* hold the future returned by wait.  A receiver owns the channel it       *)
(* subscribed to; `attached' says which receivers' channel is the one that *)
(* the slot of their process still sends to.                               *)
(***************************************************************************)
EXTENDS WaiterHistory

CONSTANTS Receiver, NoPid

ASSUME NoPidAssumption == NoPid \notin Pid

VARIABLES
  waiters,    \* the slots and the completed queue
  target,     \* target[r]: the process r waits for, NoPid when r is idle
  seen,       \* seen[r]: the value in the channel that r holds
  attached    \* receivers whose channel is still their slot's

vars == <<waiters, target, seen, attached>>

Waiting(r) == target[r] # NoPid

Init ==
  /\ waiters = NoWaiters
  /\ target = [r \in Receiver |-> NoPid]
  /\ seen = [r \in Receiver |-> NoExit]
  /\ attached = {}

\* wait(p): a Completed slot answers at once, any other is subscribed to.
Wait(r, p) ==
  /\ ~Waiting(r)
  /\ waiters' = WaitSlot(waiters, p)
  /\ target' = [target EXCEPT ![r] = p]
  /\ seen' = [seen EXCEPT ![r] = TryGet(waiters, p)]
  /\ attached' = IF waiters.entries[p].kind = "Completed"
                 THEN attached ELSE attached \cup {r}

\* signal_exit(p, exit): reaches the subscribers of p's slot; a slot that is
\* completed or evicted drops its sender.
Signal(p, exit) ==
  /\ waiters' = SignalExit(waiters, p, exit)
  /\ seen' = [r \in Receiver |->
                IF /\ r \in attached
                   /\ target[r] = p
                   /\ waiters.entries[p].kind = "Pending"
                THEN exit ELSE seen[r]]
  /\ attached' = {r \in attached :
                    waiters'.entries[target[r]].kind = "Pending"}
  /\ UNCHANGED target

\* The future is polled with a value in its channel and completes.
Resolve(r) ==
  /\ Waiting(r)
  /\ seen[r] # NoExit
  /\ target' = [target EXCEPT ![r] = NoPid]
  /\ seen' = [seen EXCEPT ![r] = NoExit]
  /\ attached' = attached \ {r}
  /\ UNCHANGED waiters

Next ==
  \/ \E r \in Receiver, p \in Pid : Wait(r, p)
  \/ \E p \in Pid, exit \in Outcome : Signal(p, exit)
  \/ \E r \in Receiver : Resolve(r)

Spec == Init /\ [][Next]_vars

-----------------------------------------------------------------------------
\* Every variable has its type; an open channel holds no verified exit, a
\* completed slot a verified one.
TypeOK ==
  /\ waiters \in WaiterRecord
  /\ \A p \in Pid :
       \/ waiters.entries[p] = NoSlot
       \/ /\ waiters.entries[p].kind = "Pending"
          /\ TryGet(waiters, p) \notin VerifiedOutcome
       \/ /\ waiters.entries[p].kind = "Completed"
          /\ TryGet(waiters, p) \in VerifiedOutcome
  /\ target \in [Receiver -> Pid \cup {NoPid}]
  /\ seen \in [Receiver -> OptOutcome]
  /\ attached \in SUBSET Receiver

Published == {p \in Pid : TryGet(waiters, p) # NoExit}

\* The eviction queue lists exactly the processes whose slot holds a published
\* exit, each once, and never more than the bound: so every published slot is
\* evicted in its turn and no slot outlives its place in the queue
\* (signal_exit's `previously_published' and the pop loop).
HistoryExact ==
  /\ Published = {waiters.completed[i] : i \in 1..Len(waiters.completed)}
  /\ \A i, j \in 1..Len(waiters.completed) :
       waiters.completed[i] = waiters.completed[j] => i = j
  /\ Len(waiters.completed) <= HistoryBound

\* A receiver with nothing to read yet holds the channel that the next
\* signal_exit of its process will send to: history eviction never strands a
\* registered receiver ("Registered receivers retain this channel").
NoStrandedReceiver ==
  \A r \in Receiver :
    Waiting(r) /\ seen[r] = NoExit =>
      /\ r \in attached
      /\ waiters.entries[target[r]].kind = "Pending"
      /\ TryGet(waiters, target[r]) = NoExit

\* A receiver whose channel is still its slot's reads what try_get returns.
AttachedMirrorsSlot ==
  \A r \in attached :
    /\ Waiting(r)
    /\ waiters.entries[target[r]].kind = "Pending"
    /\ seen[r] = TryGet(waiters, target[r])

\* A verified exit, once published, is what try_get answers until the slot is
\* evicted, and what every receiver that has read it keeps: a late failure
\* report never replaces it.
VerifiedExitKept ==
  [][/\ \A p \in Pid :
          TryGet(waiters, p) \in VerifiedOutcome =>
            TryGet(waiters', p) \in {TryGet(waiters, p), NoExit}
     /\ \A r \in Receiver :
          seen[r] \in VerifiedOutcome => seen'[r] \in {seen[r], NoExit}]_vars
=============================================================================
