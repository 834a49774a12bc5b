---------------------------- MODULE OutputCapture ----------------------------
(***************************************************************************)
(* Output capture: the bounded queue and tail of                           *)
(* shepherd-infra/src/output.rs, its two pipe readers, and the accounting  *)
(* that a background task keeps over its reads                             *)
(* (background_task/task.rs, Output::read).                                *)
(*                                                                         *)
(* A byte is its number in the order of arrival, and a chunk the interval  *)
(* of bytes that one push still has in the buffer: an eviction advances    *)
(* the offset of the first chunk.                                          *)
(***************************************************************************)
EXTENDS Naturals, Sequences, SequencesExt

CONSTANTS
  Stream,
  MaxCapacity,     \* bound on the two capacities, which may be zero
  MaxChunk,        \* bound on one read of a pipe (8192)
  MaxBytes         \* bound on the bytes written

VARIABLES
  capacity, tailCapacity,
  pushed,          \* bytes pushed so far
  queue, bytes,    \* State::queue and State::bytes
  tail, tailBytes,
  dropped, closed,
  reader,          \* the task that drains each pipe
  root,            \* the root process is alive, exited or reaped
  delivered,       \* the bytes of the queue that reads have returned
  drained, omitted, retained

buffer == <<queue, bytes, tail, tailBytes, dropped>>
task == <<delivered, drained, omitted, retained>>
vars == <<capacity, tailCapacity, pushed, buffer, closed, reader, root, task>>

\* A BufferedChunk: its stream, and the bytes that are left of it, by number.
Size(c) == c.last + 1 - c.first
Total(q) == FoldSeq(LAMBDA c, n : n + Size(c), 0, q)
Bytes(q) == FlattenSeq([i \in 1..Len(q) |-> [k \in 1..Size(q[i]) |-> q[i].first + k - 1]])

Monus(a, b) == IF a > b THEN a - b ELSE 0
Least(a, b) == IF a < b THEN a ELSE b

\* capture.
Init ==
  /\ capacity \in 0..MaxCapacity
  /\ tailCapacity \in 0..MaxCapacity
  /\ pushed = 0
  /\ queue = <<>> /\ bytes = 0
  /\ tail = <<>> /\ tailBytes = 0
  /\ dropped = 0
  /\ closed = {}
  /\ reader = [s \in Stream |-> "open"]
  /\ root = "live"
  /\ delivered = <<>>
  /\ drained = 0 /\ omitted = 0 /\ retained = 0

-----------------------------------------------------------------------------
(* append: the oldest bytes make room, a chunk larger than the capacity     *)
(* keeps its end.                                                           *)

\* The queue without its first n bytes.
Evicted(q, n) ==
  LET left[i \in 0..Len(q)] ==
        IF i = 0 THEN n ELSE Monus(left[i - 1], Size(q[i]))
      cut == [i \in 1..Len(q) |-> [q[i] EXCEPT !.first = @ + Least(left[i - 1], Size(q[i]))]]
  IN SelectSeq(cut, LAMBDA c : Size(c) > 0)

Retain(cap, n) == Least(n, cap)
Need(size, cap, n) == Monus(size + Retain(cap, n), cap)

Appended(q, size, cap, s, n) ==
  Evicted(q, Need(size, cap, n)) \o
    IF Retain(cap, n) = 0 THEN <<>>
    ELSE <<[stream |-> s, first |-> pushed + n - Retain(cap, n) + 1, last |-> pushed + n]>>

AppendedSize(size, cap, n) == size - Need(size, cap, n) + Retain(cap, n)

\* Mutant: the part of an oversized chunk that was never kept is not counted.
AppendDroppedQueued(size, cap, n) == Need(size, cap, n)
AppendDropped(size, cap, n) == Need(size, cap, n) + (n - Retain(cap, n))

\* OutputSink::push.
push(s, n) ==
  /\ queue' = Appended(queue, bytes, capacity, s, n)
  /\ bytes' = AppendedSize(bytes, capacity, n)
  /\ dropped' = dropped + AppendDropped(bytes, capacity, n)
  /\ tail' = Appended(tail, tailBytes, tailCapacity, s, n)
  /\ tailBytes' = AppendedSize(tailBytes, tailCapacity, n)
  /\ pushed' = pushed + n

-----------------------------------------------------------------------------
(* drain, one task for each pipe. *)

Drain(s) ==
  /\ reader[s] \in {"open", "aborting"}
  /\ \E n \in 1..MaxChunk : pushed + n <= MaxBytes /\ push(s, n)
  /\ UNCHANGED <<capacity, tailCapacity, closed, reader, root, task>>

\* End of file, or an error.
DrainEnd(s) ==
  /\ reader[s] = "open"
  /\ reader' = [reader EXCEPT ![s] = "ended"]
  /\ closed' = closed \cup {s}
  /\ UNCHANGED <<capacity, tailCapacity, pushed, buffer, root, task>>

RootExits ==
  /\ root = "live"
  /\ root' = "reaped"
  /\ UNCHANGED <<capacity, tailCapacity, pushed, buffer, closed, reader, task>>

\* Mutant: a reader that still has output is waited for.
AbortIfSilent(s) ==
  /\ root = "reaped"
  /\ reader[s] = "open"
  /\ pushed = 0
  /\ reader' = [reader EXCEPT ![s] = "aborting"]
  /\ UNCHANGED <<capacity, tailCapacity, pushed, buffer, closed, root, task>>

\* finish_readers: a reader that does not end soon after the root is stopped.
Abort(s) ==
  /\ root = "reaped"
  /\ reader[s] = "open"
  /\ reader' = [reader EXCEPT ![s] = "aborting"]
  /\ UNCHANGED <<capacity, tailCapacity, pushed, buffer, closed, root, task>>

\* The reader has stopped, by itself or at the abort; its stream is closed.
Close(s) ==
  /\ reader[s] = "aborting"
  /\ reader' = [reader EXCEPT ![s] = "ended"]
  /\ closed' = closed \cup {s}
  /\ UNCHANGED <<capacity, tailCapacity, pushed, buffer, root, task>>

-----------------------------------------------------------------------------
\* OutputSink::read, and what a background task makes of it.
Read ==
  /\ delivered' = delivered \o Bytes(queue)
  /\ queue' = <<>>
  /\ bytes' = 0
  /\ drained' = drained + Total(queue)
  /\ retained' = Total(tail)
  /\ omitted' = Monus(drained' + dropped, retained')
  /\ UNCHANGED <<capacity, tailCapacity, pushed, tail, tailBytes, dropped, closed, reader,
                 root>>

Next ==
  \/ Read \/ RootExits
  \/ \E s \in Stream : Drain(s) \/ DrainEnd(s) \/ Abort(s) \/ Close(s)

Spec == Init /\ [][Next]_vars

(***************************************************************************)
(* Fairness: the timeout of finish_readers fires and its task is polled.   *)
(***************************************************************************)
Fairness == \A s \in Stream : WF_vars(Abort(s) \/ Close(s))

FairSpec == Spec /\ Fairness

-----------------------------------------------------------------------------
(* Properties. *)

\* Every byte is queued, was delivered, or is counted as dropped, and the size
\* kept beside the queue is that of its chunks, within the capacity.
BytesAccounted ==
  /\ dropped + Len(delivered) + Total(queue) = pushed
  /\ bytes = Total(queue) /\ bytes <= capacity
  /\ tailBytes = Total(tail) /\ tailBytes <= tailCapacity

\* What is kept is the newest, in the order of arrival: the tail is the end of
\* all that was written, the queue the end of what no read has returned, and no
\* read returns a byte twice or out of order.
NewestKept ==
  /\ Bytes(tail) = [k \in 1..Least(tailCapacity, pushed) |->
                      pushed - Least(tailCapacity, pushed) + k]
  /\ \A k \in 1..Total(queue) : Bytes(queue)[k] = pushed - Total(queue) + k
  /\ LET seen == delivered \o Bytes(queue) IN
     \A i \in 1..Len(seen) - 1 : seen[i] < seen[i + 1]

\* A background task's omitted bytes and its tail are all that was written
\* when it read.
OmittedExact ==
  [][Read => omitted' + retained' = pushed]_vars

\* A stream that is closed gets no more bytes: what a reader sees with the
\* closed flag is complete.
ClosedIsComplete ==
  [][\A s \in closed : Len(SelectSeq(tail', LAMBDA c : c.stream = s /\ c.last > pushed)) = 0]_vars

\* After the root is reaped both streams close, though a descendant keeps the
\* pipes open.
StreamsClose == root = "reaped" ~> closed = Stream
=============================================================================
