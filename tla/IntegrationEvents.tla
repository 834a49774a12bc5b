------------------------- MODULE IntegrationEvents -------------------------
(***************************************************************************)
(* The outbound event path: the dispatcher hands every committed event to  *)
(* the IntegrationTranslator (dispatch.rs), which translates the terminal  *)
(* ones, starts its drain task once, and offers them to a bounded queue    *)
(* without waiting; the drain task gives each event to the publisher and   *)
(* gives up after a second.  The publisher is the broadcast adapter        *)
(* (publisher.rs), a ring from which slow subscribers lose the oldest      *)
(* events.  Events are numbered in the order in which they are dispatched. *)
(***************************************************************************)
EXTENDS Naturals, Sequences, FiniteSets, SequencesExt

CONSTANTS
  MaxEvents,    \* bound: events dispatched
  Terminal,     \* the events of 1..MaxEvents that are translated
  QueueSize,    \* capacity of the mpsc channel (64 in the code)
  RingSize,     \* capacity of the broadcast channel
  Sub           \* subscribers

VARIABLES
  dispatched,   \* number of events dispatched
  queue,        \* the mpsc channel
  drain,        \* the drain task: "none", "idle", "publishing"
  current,      \* the event it is publishing
  receiver,     \* the channel's receiver is still in the translator
  ring,         \* the broadcast channel: everything sent, oldest first
  cursor,       \* per subscriber: how many of ring it has passed, or 0
  joined,       \* subscribers with a receiver
  got,          \* what each subscriber received
  lost          \* events dropped by the translator or the drain task

vars == <<dispatched, queue, drain, current, receiver, ring, cursor, joined,
          got, lost>>

Init ==
  /\ dispatched = 0
  /\ queue = <<>>
  /\ drain = "none"
  /\ current = 0
  /\ receiver = TRUE
  /\ ring = <<>>
  /\ cursor = [u \in Sub |-> 0]
  /\ joined = {}
  /\ got = [u \in Sub |-> <<>>]
  /\ lost = {}

----------------------------------------------------------------------------
\* handle: other events are ignored; the first terminal one starts the drain
\* task; try_send takes the event or drops it.
Handle ==
  LET e == dispatched + 1 IN
  /\ dispatched < MaxEvents
  /\ dispatched' = e
  /\ IF e \in Terminal
     THEN /\ receiver' = FALSE
          /\ drain' = IF receiver THEN "idle" ELSE drain
          /\ IF Len(queue) < QueueSize
             THEN queue' = Append(queue, e) /\ UNCHANGED lost
             ELSE lost' = lost \union {e} /\ UNCHANGED queue
     ELSE UNCHANGED <<receiver, drain, queue, lost>>
  /\ UNCHANGED <<current, ring, cursor, joined, got>>

\* receiver.recv
Take ==
  /\ drain = "idle" /\ queue # <<>>
  /\ drain' = "publishing"
  /\ current' = Head(queue)
  /\ queue' = Tail(queue)
  /\ UNCHANGED <<dispatched, receiver, ring, cursor, joined, got, lost>>

\* BroadcastIntegrationPublisher::publish; without receivers the event is gone.
Publish ==
  /\ drain = "publishing"
  /\ drain' = "idle"
  /\ current' = 0
  /\ ring' = IF joined = {} THEN ring ELSE Append(ring, current)
  /\ lost' = IF joined = {} THEN lost \union {current} ELSE lost
  /\ UNCHANGED <<dispatched, queue, receiver, cursor, joined, got>>

\* The publisher did not return within a second: the event is dropped.
Timeout ==
  /\ drain = "publishing"
  /\ drain' = "idle"
  /\ current' = 0
  /\ lost' = lost \union {current}
  /\ UNCHANGED <<dispatched, queue, receiver, ring, cursor, joined, got>>

Subscribe(u) ==
  /\ u \notin joined
  /\ joined' = joined \union {u}
  /\ cursor' = [cursor EXCEPT ![u] = Len(ring)]
  /\ UNCHANGED <<dispatched, queue, drain, current, receiver, ring, got, lost>>

\* Where a subscriber reads next: a lagging one skips what the ring has
\* overwritten.
Position(u) == LET oldest == IF Len(ring) > RingSize THEN Len(ring) - RingSize ELSE 0
               IN  IF cursor[u] < oldest THEN oldest ELSE cursor[u]

Receive(u) ==
  /\ u \in joined /\ cursor[u] < Len(ring)
  /\ got' = [got EXCEPT ![u] = Append(@, ring[Position(u) + 1])]
  /\ cursor' = [cursor EXCEPT ![u] = Position(u) + 1]
  /\ UNCHANGED <<dispatched, queue, drain, current, receiver, ring, joined, lost>>

Next ==
  \/ Handle \/ Take \/ Publish \/ Timeout
  \/ \E u \in Sub : Subscribe(u) \/ Receive(u)

Spec == Init /\ [][Next]_vars

\* Committed events are dispatched; neither the drain task, nor the publisher,
\* nor any subscriber owes a step.
Fairness == WF_vars(Handle)

FairSpec == Spec /\ Fairness

----------------------------------------------------------------------------
\* Every subscriber sees terminal events in the order of their dispatch and none
\* twice, whatever the queue, the drain task's timeout and the ring drop.
DeliveredInOrder ==
  \A u \in Sub : \A i, j \in 1..Len(got[u]) : i < j => got[u][i] < got[u][j]

\* Every terminal event is somewhere: queued, being published, published, or
\* counted as dropped; and it is in one of these places only.
EventsAccounted ==
  LET inQueue == ToSet(queue)
      inRing == ToSet(ring)
      busy == IF drain = "publishing" THEN {current} ELSE {}
  IN  /\ Terminal \intersect (1..dispatched)
           = inQueue \union inRing \union busy \union lost
      /\ inQueue \intersect (inRing \union busy \union lost) = {}
      /\ inRing \intersect (busy \union lost) = {}
      /\ busy \intersect lost = {}

\* Nothing behind the dispatcher can hold it up: all events are dispatched
\* though the queue is full and the publisher hangs for ever.
NeverHeldUp == <>(dispatched = MaxEvents)

----------------------------------------------------------------------------
(* The inductive invariant. *)

\* Every variable has its type.
TypeOK ==
  /\ dispatched \in Nat
  /\ queue \in Seq(Nat) /\ ring \in Seq(Nat)
  /\ drain \in {"none", "idle", "publishing"}
  /\ current \in Nat
  /\ receiver \in BOOLEAN
  /\ cursor \in [Sub -> Nat]
  /\ joined \subseteq Sub
  /\ got \in [Sub -> Seq(Nat)]
  /\ lost \subseteq Nat

\* The drain task is started once, by whoever takes the receiver.
StartedOnce == receiver <=> drain = "none"

Ascending(q) == \A i, j \in 1..Len(q) : i < j => q[i] < q[j]

\* The events pass from the dispatcher through the queue and the drain task to
\* the ring in one order.
InOneOrder ==
  /\ Ascending(queue) /\ Ascending(ring)
  /\ \A i \in 1..Len(queue), j \in 1..Len(ring) : ring[j] < queue[i]
  /\ drain = "publishing" =>
       /\ \A i \in 1..Len(queue) : current < queue[i]
       /\ \A j \in 1..Len(ring) : ring[j] < current

\* A subscriber has what it passed in the ring, or less.
GotWhatPassed ==
  \A u \in Sub :
    /\ cursor[u] <= Len(ring)
    /\ \A i \in 1..Len(got[u]) : \E j \in 1..cursor[u] : got[u][i] = ring[j]

IndInv ==
  /\ TypeOK
  /\ StartedOnce
  /\ InOneOrder
  /\ GotWhatPassed
  /\ EventsAccounted
  /\ DeliveredInOrder
=============================================================================
