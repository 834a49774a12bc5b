---------------------------- MODULE WaiterHistory ---------------------------
(***************************************************************************)
(* InMemoryWaiters (shepherd-infra/src/waiters.rs): one slot per process,  *)
(* and the bounded queue of published processes by which old slots are     *)
(* evicted.  Every method runs under the waiters mutex, so each is one      *)
(* operator on the pair [entries, completed].                              *)
(*                                                                         *)
(* A slot is "Pending" while its watch channel is open: exit is then the   *)
(* channel's current value, NoExit before the first publication.           *)
(***************************************************************************)
EXTENDS ProcessScope, Integers, Sequences

CONSTANT HistoryBound      \* 256 in the code

ASSUME HistoryBoundAssumption == HistoryBound \in Nat \ {0}

Slot == [kind : {"None", "Pending", "Completed"}, exit : OptOutcome]
NoSlot == [kind |-> "None", exit |-> NoExit]

WaiterRecord == [entries : [Pid -> Slot], completed : Seq(Pid)]
NoWaiters == [entries |-> [p \in Pid |-> NoSlot], completed |-> <<>>]

TryGet(w, p) == w.entries[p].exit

\* What wait(p) does to the slots; the future then yields TryGet(w, p) as soon
\* as that is an exit.
WaitSlot(w, p) ==
  IF w.entries[p].kind = "None"
  THEN [w EXCEPT !.entries[p] = [kind |-> "Pending", exit |-> NoExit]]
  ELSE w

\* Mutant: only the slots still listed in the queue are retained.
EvictUnlisted(w) ==
  LET excess == IF Len(w.completed) > HistoryBound
                THEN Len(w.completed) - HistoryBound ELSE 0
      kept   == SubSeq(w.completed, excess + 1, Len(w.completed))
      listed == {kept[i] : i \in 1..Len(kept)}
  IN  [entries   |-> [p \in Pid |-> IF p \in listed THEN w.entries[p] ELSE NoSlot],
       completed |-> kept]

\* The loop that pops the oldest publications beyond the bound.
Evict(w) ==
  LET excess == IF Len(w.completed) > HistoryBound
                THEN Len(w.completed) - HistoryBound ELSE 0
      old    == {w.completed[i] : i \in 1..excess}
  IN  [entries   |-> [p \in Pid |-> IF p \in old THEN NoSlot ELSE w.entries[p]],
       completed |-> SubSeq(w.completed, excess + 1, Len(w.completed))]

SignalExit(w, p, exit) ==
  LET published == TryGet(w, p) # NoExit
      kind      == IF exit \in VerifiedOutcome THEN "Completed" ELSE "Pending"
  IN  IF w.entries[p].kind = "Completed"
      THEN w
      ELSE Evict([entries   |-> [w.entries EXCEPT ![p] =
                                   [kind |-> kind, exit |-> exit]],
                  completed |-> IF published THEN w.completed
                                ELSE Append(w.completed, p)])

(***************************************************************************)
(* What a receiver sees after signal_exit(p, exit).  A receiver holds the  *)
(* channel it subscribed to, and so mirrors the value of a Pending slot; a *)
(* receiver whose slot was evicted keeps the value it last had.            *)
(***************************************************************************)
ReceiverAfter(w, p, exit, seen) ==
  IF w.entries[p].kind = "Pending" /\ seen = TryGet(w, p) THEN exit ELSE seen
=============================================================================
