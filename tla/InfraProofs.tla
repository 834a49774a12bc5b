---------------------------- MODULE InfraProofs ----------------------------
(***************************************************************************)
(* Theorems about the waiters, the backends and the sampler, through       *)
(* MCInfra, for every number of scopes, processes, numbers, callers and    *)
(* failures.  For each model there is an inductive invariant (IndInv, in   *)
(* the model's module; Inv, for the waiters), one lemma for each action    *)
(* that shows that the action keeps it, part by part, and then the         *)
(* properties that follow from it.                                         *)
(***************************************************************************)
EXTENDS MCInfra, OperatorLemmas, FiniteSetTheorems

-----------------------------------------------------------------------------
(* The waiters.  The type invariant, HistoryExact, NoStrandedReceiver and    *)
(* AttachedMirrorsSlot are inductive together: an eviction strands nobody    *)
(* because the queue lists published processes only, and it lists no process *)
(* twice, so that an evicted slot leaves no entry behind which would evict   *)
(* its successor.                                                            *)

Inv == TypeOK /\ HistoryExact /\ NoStrandedReceiver /\ AttachedMirrorsSlot

\* Position i of w's queue holds p.
At(w, i, p) == i \in 1..Len(w.completed) /\ w.completed[i] = p

\* The queue lists the published processes, each once.
Listed(w) ==
  /\ \A p \in Pid : TryGet(w, p) # NoExit <=> \E i \in 1..Len(w.completed) : At(w, i, p)
  /\ \A p \in Pid : \A i, j \in 1..Len(w.completed) :
       At(w, i, p) /\ At(w, j, p) => i = j

WellFormed(w) ==
  \A p \in Pid :
    \/ w.entries[p] = NoSlot
    \/ w.entries[p].kind = "Pending" /\ TryGet(w, p) \notin VerifiedOutcome
    \/ w.entries[p].kind = "Completed" /\ TryGet(w, p) \in VerifiedOutcome

\* What HistoryExact says of the waiter set.
Exact(w) ==
  /\ {p \in Pid : TryGet(w, p) # NoExit} = {w.completed[i] : i \in 1..Len(w.completed)}
  /\ \A i, j \in 1..Len(w.completed) : w.completed[i] = w.completed[j] => i = j
  /\ Len(w.completed) <= HistoryBound

\* A waiter set is exact iff its queue lists what is published, within the
\* bound.
LEMMA ExactIsListed ==
  ASSUME NEW w \in WaiterRecord
  PROVE  Exact(w) <=> Listed(w) /\ Len(w.completed) <= HistoryBound
<1>1. /\ w.completed \in Seq(Pid)
      /\ Len(w.completed) \in Nat
      /\ \A i \in 1..Len(w.completed) : w.completed[i] \in Pid
  BY ElementOfSeq, LenProperties DEF WaiterRecord
<1>2. {p \in Pid : TryGet(w, p) # NoExit} = {w.completed[i] : i \in 1..Len(w.completed)}
      <=> \A p \in Pid : TryGet(w, p) # NoExit
                           <=> \E i \in 1..Len(w.completed) : At(w, i, p)
  BY <1>1 DEF At
<1>3. (\A i, j \in 1..Len(w.completed) : w.completed[i] = w.completed[j] => i = j)
      <=> \A p \in Pid : \A i, j \in 1..Len(w.completed) :
            At(w, i, p) /\ At(w, j, p) => i = j
  BY <1>1 DEF At
<1> QED BY <1>2, <1>3 DEF Exact, Listed

\* Eviction brings the queue within the bound, keeps it exact, and clears
\* published slots only.
LEMMA EvictExact ==
  ASSUME NEW w \in WaiterRecord, Listed(w)
  PROVE  /\ Listed(Evict(w)) /\ Len(Evict(w).completed) <= HistoryBound
         /\ \A q \in Pid : \/ Evict(w).entries[q] = w.entries[q]
                           \/ /\ Evict(w).entries[q] = NoSlot
                              /\ TryGet(w, q) # NoExit
<1> DEFINE n == Len(w.completed)
           excess == IF n > HistoryBound THEN n - HistoryBound ELSE 0
           old == {w.completed[i] : i \in 1..excess}
           rest == SubSeq(w.completed, excess + 1, n)
<1>1. /\ w.completed \in Seq(Pid) /\ w.entries \in [Pid -> Slot] /\ n \in Nat
      /\ \A i \in 1..n : w.completed[i] \in Pid
  BY ElementOfSeq, LenProperties DEF WaiterRecord
<1>2. excess \in Nat /\ excess <= n /\ n - excess <= HistoryBound
  BY <1>1, HistoryBoundAssumption
<1>3. /\ Evict(w).completed = rest
      /\ \A q \in Pid : Evict(w).entries[q] = IF q \in old THEN NoSlot ELSE w.entries[q]
  BY DEF Evict
<1> HIDE DEF excess
<1>4. /\ Len(rest) = n - excess
      /\ \A i \in 1..(n - excess) : rest[i] = w.completed[excess + i]
  <2>1. \A i \in excess + 1 .. n : w.completed[i] \in Pid
    BY <1>1, <1>2
  <2>2. /\ Len(rest) = IF excess + 1 <= n THEN n - (excess + 1) + 1 ELSE 0
        /\ \A i \in 1 .. n - (excess + 1) + 1 : rest[i] = w.completed[(excess + 1) + i - 1]
    BY <1>1, <1>2, <2>1, SubSeqProperties
  <2> HIDE DEF rest, n
  <2>3. n - (excess + 1) + 1 = n - excess
    BY <1>1, <1>2
  <2>4. \A i \in 1..(n - excess) : (excess + 1) + i - 1 = excess + i
    BY <1>1, <1>2
  <2> QED BY <1>1, <1>2, <2>2, <2>3, <2>4
<1>5. \A p \in Pid : \A i \in 1..(n - excess) :
        At(Evict(w), i, p) <=> At(w, excess + i, p)
  <2> HIDE DEF rest, n
  <2> QED BY <1>1, <1>2, <1>3, <1>4 DEF At, n
<1>6. \A q \in Pid : q \in old <=> \E i \in 1..excess : At(w, i, q)
  <2>1. \A i \in 1..excess : i \in 1..Len(w.completed)
    BY <1>1, <1>2
  <2> QED BY <2>1 DEF At
<1>7. Len(Evict(w).completed) = n - excess
  BY <1>3, <1>4
<1> HIDE DEF rest, old
<1>8. \A q \in Pid : q \in old => TryGet(w, q) # NoExit
  BY <1>1, <1>2, <1>6 DEF Listed
<1>9. \A q \in Pid : TryGet(Evict(w), q) # NoExit
                        <=> (TryGet(w, q) # NoExit /\ q \notin old)
  <2>1. NoSlot.exit = NoExit
    BY DEF NoSlot
  <2>2. \A q \in Pid : TryGet(Evict(w), q) =
                          IF q \in old THEN NoExit ELSE TryGet(w, q)
    BY <1>3, <2>1 DEF TryGet
  <2> QED BY <2>2
<1>10. ASSUME NEW p \in Pid
       PROVE  TryGet(Evict(w), p) # NoExit
                <=> \E i \in 1..(n - excess) : At(Evict(w), i, p)
  <2> HIDE DEF n
  <2>1. ASSUME TryGet(Evict(w), p) # NoExit
        PROVE  \E i \in 1..(n - excess) : At(Evict(w), i, p)
    <3>1. PICK k \in 1..n : At(w, k, p)
      BY <1>9, <2>1 DEF Listed, n
    <3>2. k \notin 1..excess
      BY <1>6, <1>9, <2>1, <3>1
    <3>3. k - excess \in 1..(n - excess) /\ k = excess + (k - excess)
      BY <1>1, <1>2, <3>2
    <3> QED BY <1>5, <3>1, <3>3
  <2>2. ASSUME NEW i \in 1..(n - excess), At(Evict(w), i, p)
        PROVE  TryGet(Evict(w), p) # NoExit
    <3>1. excess + i \in 1..n /\ At(w, excess + i, p) /\ excess + i \notin 1..excess
      BY <1>1, <1>2, <1>5, <2>2
    <3>2. TryGet(w, p) # NoExit
      BY <3>1 DEF Listed, n
    <3>3. p \notin old
      <4>1. SUFFICES ASSUME NEW j \in 1..excess, At(w, j, p) PROVE FALSE
        BY <1>6
      <4>2. j \in 1..n
        BY <1>1, <1>2
      <4>3. j = excess + i
        BY <3>1, <4>1, <4>2 DEF Listed, n
      <4> QED BY <3>1, <4>3
    <3> QED BY <1>9, <3>2, <3>3
  <2> QED BY <2>1, <2>2
<1>11. ASSUME NEW p \in Pid, NEW i \in 1..(n - excess), NEW j \in 1..(n - excess),
              At(Evict(w), i, p), At(Evict(w), j, p)
       PROVE  i = j
  <2> HIDE DEF n
  <2>1. At(w, excess + i, p) /\ At(w, excess + j, p)
    BY <1>5, <1>11
  <2>2. excess + i \in 1..n /\ excess + j \in 1..n
    BY <1>1, <1>2
  <2>3. excess + i = excess + j
    BY <2>1, <2>2 DEF Listed, n
  <2> QED BY <1>1, <1>2, <2>3
<1>12. Listed(Evict(w))
  <2> HIDE DEF n
  <2> QED BY <1>7, <1>10, <1>11 DEF Listed
<1> QED BY <1>2, <1>3, <1>7, <1>8, <1>12

\* signal_exit keeps the queue exact, sets the slot of its process to the exit
\* unless it was complete, and clears no slot that has nothing published.
LEMMA SignalExact ==
  ASSUME NEW w \in WaiterRecord, Listed(w), WellFormed(w),
         Len(w.completed) <= HistoryBound,
         NEW p \in Pid, NEW how \in Outcome
  PROVE  LET next == SignalExit(w, p, how) IN
         /\ Listed(next) /\ Len(next.completed) <= HistoryBound
         /\ WellFormed(next)
         /\ \A q \in Pid \ {p} : \/ next.entries[q] = w.entries[q]
                                 \/ /\ next.entries[q] = NoSlot
                                    /\ TryGet(w, q) # NoExit
         /\ next.entries[p].kind = "Pending" => TryGet(next, p) = how
<1>1. CASE w.entries[p].kind = "Completed"
  BY <1>1 DEF SignalExit
<1>2. CASE w.entries[p].kind # "Completed"
  <2> DEFINE sort == IF how \in VerifiedOutcome THEN "Completed" ELSE "Pending"
             slot == [kind |-> sort, exit |-> how]
             queue == IF TryGet(w, p) # NoExit THEN w.completed
                      ELSE Append(w.completed, p)
             mid == [entries |-> [w.entries EXCEPT ![p] = slot], completed |-> queue]
  <2>1. SignalExit(w, p, how) = Evict(mid)
    BY <1>2 DEF SignalExit
  <2>2. w.completed \in Seq(Pid) /\ w.entries \in [Pid -> Slot]
    BY DEF WaiterRecord
  <2>3. slot \in Slot /\ slot.exit = how /\ slot.kind = sort
    BY DEF Slot, OptOutcome
  <2>4. how # NoExit
    BY DEF Outcome, VerifiedOutcome, UnverifiedOutcome, NoExit
  <2>5. \/ slot.kind = "Pending" /\ how \notin VerifiedOutcome
        \/ slot.kind = "Completed" /\ how \in VerifiedOutcome
    OBVIOUS
  <2> HIDE DEF slot, sort
  <2>6. queue \in Seq(Pid)
    BY <2>2, AppendProperties
  <2>7. /\ mid \in WaiterRecord /\ mid.completed = queue
        /\ \A q \in Pid : mid.entries[q] = IF q = p THEN slot ELSE w.entries[q]
        /\ \A q \in Pid : TryGet(mid, q) = IF q = p THEN how ELSE TryGet(w, q)
    <3> HIDE DEF queue
    <3> QED BY <2>2, <2>3, <2>6 DEF WaiterRecord, TryGet
  <2>8. Listed(mid)
    <3> HIDE DEF mid
    <3>1. CASE TryGet(w, p) # NoExit
      <4>1. mid.completed = w.completed
        BY <2>7, <3>1
      <4>2. \A q \in Pid, i \in 1..Len(w.completed) : At(mid, i, q) <=> At(w, i, q)
        BY <4>1 DEF At
      <4>3. \A q \in Pid : TryGet(mid, q) # NoExit <=> TryGet(w, q) # NoExit
        BY <2>4, <2>7, <3>1
      <4> QED BY <4>1, <4>2, <4>3 DEF Listed
    <3>2. CASE TryGet(w, p) = NoExit
      <4> DEFINE n == Len(w.completed)
      <4>1. /\ n \in Nat /\ Len(mid.completed) = n + 1
            /\ \A i \in 1..n : mid.completed[i] = w.completed[i]
            /\ mid.completed[n + 1] = p
        BY <2>2, <2>7, <3>2, AppendProperties, LenProperties
      <4> HIDE DEF n
      <4>2. \A i \in 1..(n + 1) : i \in 1..n \/ i = n + 1
        BY <4>1
      <4>3. \A q \in Pid, i \in 1..n : At(mid, i, q) <=> At(w, i, q)
        BY <4>1 DEF At, n
      <4>4. \A q \in Pid : At(mid, n + 1, q) <=> q = p
        BY <4>1 DEF At
      <4>5. \A i \in 1..n : ~At(w, i, p)
        BY <3>2 DEF Listed, n
      <4>6. n + 1 \in 1..(n + 1) /\ \A i \in 1..n : i \in 1..(n + 1)
        BY <4>1
      <4>7. \A q \in Pid : TryGet(mid, q) # NoExit
                             <=> \E i \in 1..(n + 1) : At(mid, i, q)
        <5> SUFFICES ASSUME NEW q \in Pid
                     PROVE  TryGet(mid, q) # NoExit
                              <=> \E i \in 1..(n + 1) : At(mid, i, q)
          OBVIOUS
        <5>1. CASE q = p
          BY <2>4, <2>7, <4>4, <4>6, <5>1
        <5>2. CASE q # p
          <6>1. TryGet(mid, q) # NoExit <=> \E i \in 1..n : At(w, i, q)
            BY <2>7, <5>2 DEF Listed, n
          <6> QED BY <4>2, <4>3, <4>4, <4>6, <5>2, <6>1
        <5> QED BY <5>1, <5>2
      <4>8. \A q \in Pid : \A i, j \in 1..(n + 1) :
              At(mid, i, q) /\ At(mid, j, q) => i = j
        <5>1. \A q \in Pid : \A i, j \in 1..n : At(w, i, q) /\ At(w, j, q) => i = j
          BY DEF Listed, n
        <5> QED BY <4>2, <4>3, <4>4, <4>5, <5>1
      <4> QED BY <4>1, <4>7, <4>8 DEF Listed
    <3> QED BY <3>1, <3>2
  <2>9. /\ Listed(Evict(mid)) /\ Len(Evict(mid).completed) <= HistoryBound
        /\ \A q \in Pid : \/ Evict(mid).entries[q] = mid.entries[q]
                          \/ /\ Evict(mid).entries[q] = NoSlot
                             /\ TryGet(mid, q) # NoExit
    <3> HIDE DEF mid
    <3> QED BY <2>7, <2>8, EvictExact
  <2> HIDE DEF mid
  <2>10. NoSlot.kind = "None"
    BY DEF NoSlot
  <2>11. WellFormed(Evict(mid))
    BY <2>3, <2>5, <2>7, <2>9 DEF WellFormed, TryGet
  <2>12. Evict(mid).entries[p].kind = "Pending" => TryGet(Evict(mid), p) = how
    BY <2>3, <2>7, <2>9, <2>10 DEF TryGet
  <2>13. \A q \in Pid \ {p} : \/ Evict(mid).entries[q] = w.entries[q]
                              \/ /\ Evict(mid).entries[q] = NoSlot
                                 /\ TryGet(w, q) # NoExit
    BY <2>7, <2>9
  <2> QED BY <2>1, <2>9, <2>11, <2>12, <2>13
<1> QED BY <1>1, <1>2

-----------------------------------------------------------------------------
(* The invariant in terms of the lemmas above. *)

HistoryInv == waiters \in WaiterRecord /\ WellFormed(waiters) /\ Exact(waiters)
ReceiverType ==
  /\ target \in [Receiver -> Pid \cup {NoPid}]
  /\ seen \in [Receiver -> OptOutcome]
  /\ attached \subseteq Receiver
Conjuncts == HistoryInv /\ ReceiverType /\ NoStrandedReceiver /\ AttachedMirrorsSlot

\* They are the conjuncts of the invariant, in another order.
LEMMA InvConjuncts == Inv <=> Conjuncts
BY DEF Inv, TypeOK, WellFormed, HistoryExact, Published, Exact, HistoryInv,
       ReceiverType, Conjuncts

\* No process has published, nobody waits.
LEMMA InitConjuncts == Init => Conjuncts
<1> SUFFICES ASSUME Init PROVE Conjuncts
  OBVIOUS
<1> USE DEF Init
<1>1. /\ waiters \in WaiterRecord /\ waiters.completed = <<>>
      /\ \A p \in Pid : waiters.entries[p] = NoSlot
  BY DEF NoWaiters, WaiterRecord, Slot, NoSlot, OptOutcome
<1>2. Len(waiters.completed) = 0 /\ NoSlot.exit = NoExit
  BY <1>1 DEF NoSlot
<1>3. WellFormed(waiters) /\ ReceiverType
  BY <1>1 DEF WellFormed, ReceiverType, OptOutcome
<1>4. Listed(waiters) /\ Len(waiters.completed) <= HistoryBound
  BY <1>1, <1>2, HistoryBoundAssumption DEF Listed, TryGet
<1>5. Exact(waiters)
  BY <1>1, <1>4, ExactIsListed
<1>6. NoStrandedReceiver /\ AttachedMirrorsSlot
  BY DEF NoStrandedReceiver, AttachedMirrorsSlot, Waiting
<1> QED BY <1>1, <1>3, <1>5, <1>6 DEF Conjuncts, HistoryInv

\* A new receiver holds its slot's channel unless it can be answered at once.
LEMMA WaitKeepsConjuncts ==
  ASSUME Conjuncts, NEW r \in Receiver, NEW p \in Pid, Wait(r, p)
  PROVE  Conjuncts'
<1> USE DEF Wait
<1>1. /\ waiters \in WaiterRecord /\ WellFormed(waiters) /\ Listed(waiters)
      /\ Len(waiters.completed) <= HistoryBound
      /\ target \in [Receiver -> Pid \cup {NoPid}]
      /\ seen \in [Receiver -> OptOutcome] /\ attached \subseteq Receiver
      /\ NoStrandedReceiver /\ AttachedMirrorsSlot
  BY ExactIsListed DEF Conjuncts, HistoryInv, ReceiverType
<1>2. NoSlot.kind = "None" /\ NoSlot.exit = NoExit
  BY DEF NoSlot
<1>3. /\ waiters' \in WaiterRecord /\ TryGet(waiters, p) \in OptOutcome
      /\ waiters'.completed = waiters.completed
      /\ \A q \in Pid : \/ waiters'.entries[q] = waiters.entries[q]
                        \/ /\ waiters.entries[q].kind = "None"
                           /\ waiters'.entries[q] = [kind |-> "Pending", exit |-> NoExit]
      /\ waiters'.entries[p].kind # "None"
  BY <1>1, WaitSlotType DEF WaitSlot, WaiterRecord
<1>4. /\ WellFormed(waiters') /\ \A q \in Pid : TryGet(waiters', q) = TryGet(waiters, q)
  BY <1>1, <1>2, <1>3 DEF WellFormed, TryGet, NoExit, VerifiedOutcome
<1>5. Listed(waiters') /\ Len(waiters'.completed) <= HistoryBound
  BY <1>1, <1>3, <1>4 DEF Listed, At
<1>6. /\ target' \in [Receiver -> Pid \cup {NoPid}]
      /\ seen' \in [Receiver -> OptOutcome] /\ attached' \subseteq Receiver
      /\ \A x \in Receiver : /\ target'[x] = IF x = r THEN p ELSE target[x]
                             /\ seen'[x] = IF x = r THEN TryGet(waiters, p) ELSE seen[x]
  BY <1>1, <1>3
<1>7. waiters.entries[p].kind = "Completed" => TryGet(waiters, p) # NoExit
  BY <1>1, <1>2 DEF WellFormed, NoExit, VerifiedOutcome
<1>8. waiters.entries[p].kind # "Completed" => waiters'.entries[p].kind = "Pending"
  BY <1>1, <1>3 DEF WaiterRecord, Slot
<1>9. \A q \in Pid : waiters.entries[q].kind = "Pending" =>
        waiters'.entries[q].kind = "Pending"
  BY <1>3
<1>10. r \notin attached
  BY <1>1 DEF AttachedMirrorsSlot
<1>11. \A x \in Receiver : target[x] # NoPid => target[x] \in Pid
  BY <1>1
<1>12. NoStrandedReceiver'
  BY <1>1, <1>4, <1>6, <1>7, <1>8, <1>9, <1>11 DEF NoStrandedReceiver, Waiting
<1>13. p # NoPid
  BY NoPidAssumption
<1>14. AttachedMirrorsSlot'
  BY <1>1, <1>4, <1>6, <1>8, <1>9, <1>10, <1>11, <1>13 DEF AttachedMirrorsSlot, Waiting
<1> QED
  BY <1>3, <1>4, <1>5, <1>6, <1>12, <1>14, ExactIsListed DEF Conjuncts, HistoryInv,
     ReceiverType

\* A publication reaches the receivers attached to its slot; the evictions it
\* causes detach only receivers that already have something to read.
LEMMA SignalKeepsConjuncts ==
  ASSUME Conjuncts, NEW p \in Pid, NEW how \in Outcome, Signal(p, how)
  PROVE  Conjuncts'
<1> USE DEF Signal
<1>1. /\ waiters \in WaiterRecord /\ WellFormed(waiters) /\ Listed(waiters)
      /\ Len(waiters.completed) <= HistoryBound
      /\ target \in [Receiver -> Pid \cup {NoPid}]
      /\ seen \in [Receiver -> OptOutcome] /\ attached \subseteq Receiver
      /\ NoStrandedReceiver /\ AttachedMirrorsSlot
  BY ExactIsListed DEF Conjuncts, HistoryInv, ReceiverType
<1>2. waiters' \in WaiterRecord
  BY <1>1, SignalExitType
<1>3. /\ Listed(waiters') /\ Len(waiters'.completed) <= HistoryBound
      /\ WellFormed(waiters')
      /\ \A q \in Pid \ {p} : \/ waiters'.entries[q] = waiters.entries[q]
                              \/ /\ waiters'.entries[q] = NoSlot
                                 /\ TryGet(waiters, q) # NoExit
      /\ waiters'.entries[p].kind = "Pending" => TryGet(waiters', p) = how
  BY <1>1, SignalExact
<1>4. how # NoExit /\ how \in OptOutcome /\ NoSlot.kind = "None"
  BY DEF Outcome, VerifiedOutcome, UnverifiedOutcome, NoExit, OptOutcome, NoSlot
<1>5. \A r \in Receiver : seen'[r] = IF /\ r \in attached /\ target[r] = p
                                        /\ waiters.entries[p].kind = "Pending"
                                     THEN how ELSE seen[r]
  OBVIOUS
<1>6. /\ ReceiverType' /\ UNCHANGED target
      /\ attached' = {r \in attached : waiters'.entries[target[r]].kind = "Pending"}
  BY <1>1, <1>4 DEF ReceiverType
<1>7. \A r \in Receiver : target[r] # NoPid => target[r] \in Pid
  BY <1>1
<1>8. AttachedMirrorsSlot'
  <2> SUFFICES ASSUME NEW r \in attached'
               PROVE  /\ target[r] # NoPid
                      /\ waiters'.entries[target[r]].kind = "Pending"
                      /\ seen'[r] = TryGet(waiters', target[r])
    BY <1>6 DEF AttachedMirrorsSlot, Waiting
  <2>1. /\ r \in attached /\ r \in Receiver /\ target[r] \in Pid /\ target[r] # NoPid
        /\ waiters.entries[target[r]].kind = "Pending"
        /\ waiters'.entries[target[r]].kind = "Pending"
        /\ seen[r] = TryGet(waiters, target[r])
    BY <1>1, <1>6, <1>7 DEF AttachedMirrorsSlot, Waiting
  <2>2. CASE target[r] = p
    BY <1>3, <1>5, <2>1, <2>2
  <2>3. CASE target[r] # p
    BY <1>3, <1>4, <1>5, <2>1, <2>3 DEF TryGet
  <2> QED BY <2>1, <2>2, <2>3
<1>9. NoStrandedReceiver'
  <2> SUFFICES ASSUME NEW r \in Receiver, target[r] # NoPid, seen'[r] = NoExit
               PROVE  /\ r \in attached'
                      /\ waiters'.entries[target[r]].kind = "Pending"
                      /\ TryGet(waiters', target[r]) = NoExit
    BY <1>6 DEF NoStrandedReceiver, Waiting
  <2>1. seen[r] = NoExit
    BY <1>4, <1>5
  <2>2. /\ r \in attached /\ target[r] \in Pid
        /\ waiters.entries[target[r]].kind = "Pending"
        /\ TryGet(waiters, target[r]) = NoExit
    BY <1>1, <1>7, <2>1 DEF NoStrandedReceiver, Waiting
  <2>3. target[r] # p
    BY <1>4, <1>5, <2>2
  <2>4. waiters'.entries[target[r]] = waiters.entries[target[r]]
    BY <1>3, <2>2, <2>3
  <2> QED BY <1>6, <2>2, <2>4 DEF TryGet
<1> QED
  BY <1>2, <1>3, <1>6, <1>8, <1>9, ExactIsListed DEF Conjuncts, HistoryInv

\* A receiver that has read its exit is gone.
LEMMA ResolveKeepsConjuncts ==
  ASSUME Conjuncts, NEW r \in Receiver, Resolve(r)
  PROVE  Conjuncts'
<1> USE DEF Resolve
<1>1. HistoryInv' /\ ReceiverType'
  BY DEF Conjuncts, HistoryInv, ReceiverType, OptOutcome
<1>2. \A x \in Receiver \ {r} : target'[x] = target[x] /\ seen'[x] = seen[x]
  BY DEF Conjuncts, ReceiverType
<1>3. target'[r] = NoPid
  BY DEF Conjuncts, ReceiverType
<1>4. NoStrandedReceiver'
  BY <1>2, <1>3 DEF Conjuncts, NoStrandedReceiver, Waiting
<1>5. AttachedMirrorsSlot'
  BY <1>2 DEF Conjuncts, ReceiverType, AttachedMirrorsSlot, Waiting
<1> QED BY <1>1, <1>4, <1>5 DEF Conjuncts

\* The four invariants of the waiter set, together inductive.
THEOREM WaitersInvariant == Spec => []Inv
<1>1. Init => Conjuncts
  BY InitConjuncts
<1>2. Conjuncts /\ [Next]_vars => Conjuncts'
  <2> SUFFICES ASSUME Conjuncts, [Next]_vars PROVE Conjuncts'
    OBVIOUS
  <2>1. CASE UNCHANGED vars
    BY <2>1 DEF vars, Conjuncts, HistoryInv, ReceiverType, WellFormed, Exact,
       NoStrandedReceiver, AttachedMirrorsSlot, Waiting
  <2>2. CASE Next
    BY <2>2, WaitKeepsConjuncts, SignalKeepsConjuncts, ResolveKeepsConjuncts DEF Next
  <2> QED BY <2>1, <2>2
<1>3. Conjuncts => Inv
  BY InvConjuncts
<1> QED BY <1>1, <1>2, <1>3, PTL DEF Spec

\* History eviction never strands a registered receiver, whatever the bound:
\* one with nothing to read holds the channel its process's next exit goes to.
THEOREM ReceiversAreReached == Spec => []NoStrandedReceiver
<1>1. Inv => NoStrandedReceiver
  BY DEF Inv
<1> QED BY <1>1, WaitersInvariant, PTL

\* The eviction queue lists exactly the published slots, each once, within the
\* bound.
THEOREM HistoryIsExact == Spec => []HistoryExact
<1>1. Inv => HistoryExact
  BY DEF Inv
<1> QED BY <1>1, WaitersInvariant, PTL

-----------------------------------------------------------------------------
(* Verified exits are kept. *)

\* A receiver that waits for nothing has nothing to read.
IdleSeesNothing == \A r \in Receiver : ~Waiting(r) => seen[r] = NoExit

\* It is given its value by wait and loses it when it resolves.
LEMMA IdleKept ==
  ASSUME Inv, IdleSeesNothing, [Next]_vars
  PROVE  IdleSeesNothing'
<1> USE DEF Inv, TypeOK, IdleSeesNothing, Waiting
<1>1. ASSUME NEW r \in Receiver, NEW p \in Pid, Wait(r, p) PROVE IdleSeesNothing'
  BY <1>1, NoPidAssumption DEF Wait
<1>2. ASSUME NEW p \in Pid, NEW how \in Outcome, Signal(p, how)
      PROVE  IdleSeesNothing'
  BY <1>2 DEF Signal, AttachedMirrorsSlot
<1>3. ASSUME NEW r \in Receiver, Resolve(r) PROVE IdleSeesNothing'
  BY <1>3 DEF Resolve
<1>4. CASE UNCHANGED vars
  BY <1>4 DEF vars
<1> QED BY <1>1, <1>2, <1>3, <1>4 DEF Next

\* signal_exit leaves the slot of a process with a verified exit as it is, or
\* evicts it.
LEMMA SignalKeepsVerified ==
  ASSUME Inv, NEW p \in Pid, NEW how \in Outcome, Signal(p, how),
         NEW q \in Pid, TryGet(waiters, q) \in VerifiedOutcome
  PROVE  TryGet(waiters', q) \in {TryGet(waiters, q), NoExit}
<1>1. /\ waiters \in WaiterRecord /\ WellFormed(waiters) /\ Exact(waiters)
      /\ waiters.entries[q].kind = "Completed"
      /\ NoSlot.exit = NoExit
  BY InvConjuncts
     DEF Conjuncts, HistoryInv, WellFormed, TryGet, NoSlot, VerifiedOutcome, NoExit
<1>2. CASE q = p
  BY <1>1, <1>2 DEF Signal, SignalExit
<1>3. CASE q # p
  <2>1. \/ waiters'.entries[q] = waiters.entries[q]
        \/ waiters'.entries[q] = NoSlot
    BY <1>1, <1>3, ExactIsListed, SignalExact DEF Signal
  <2> QED BY <1>1, <2>1 DEF TryGet
<1> QED BY <1>2, <1>3

\* A step leaves every verified exit where it is or takes it away.
LEMMA StepKeepsVerified ==
  ASSUME Inv, IdleSeesNothing, Next
  PROVE  /\ \A p \in Pid :
              TryGet(waiters, p) \in VerifiedOutcome =>
                TryGet(waiters', p) \in {TryGet(waiters, p), NoExit}
         /\ \A r \in Receiver :
              seen[r] \in VerifiedOutcome => seen'[r] \in {seen[r], NoExit}
<1> DEFINE Keeps ==
             /\ \A p \in Pid :
                  TryGet(waiters, p) \in VerifiedOutcome =>
                    TryGet(waiters', p) \in {TryGet(waiters, p), NoExit}
             /\ \A r \in Receiver :
                  seen[r] \in VerifiedOutcome => seen'[r] \in {seen[r], NoExit}
<1>1. NoExit \notin VerifiedOutcome
  BY DEF NoExit, VerifiedOutcome
<1>2. ASSUME NEW r \in Receiver, NEW p \in Pid, Wait(r, p) PROVE Keeps
  <2>1. \A q \in Pid : TryGet(waiters', q) = TryGet(waiters, q)
    BY <1>2 DEF Wait, WaitSlot, TryGet, Inv, TypeOK, WaiterRecord, NoSlot
  <2>2. seen[r] = NoExit /\ \A x \in Receiver \ {r} : seen'[x] = seen[x]
    BY <1>2 DEF Wait, IdleSeesNothing, Inv, TypeOK
  <2> QED BY <1>1, <2>1, <2>2
<1>3. ASSUME NEW p \in Pid, NEW how \in Outcome, Signal(p, how) PROVE Keeps
  <2>1. \A q \in Pid : TryGet(waiters, q) \in VerifiedOutcome =>
                         TryGet(waiters', q) \in {TryGet(waiters, q), NoExit}
    BY <1>3, SignalKeepsVerified
  <2>2. ASSUME NEW r \in Receiver, seen[r] \in VerifiedOutcome
        PROVE  seen'[r] = seen[r]
    <3>1. r \in attached => seen[r] \notin VerifiedOutcome
      BY InvConjuncts
         DEF Inv, AttachedMirrorsSlot, Waiting, Conjuncts, HistoryInv, WellFormed,
             ReceiverType, NoSlot
    <3> QED BY <1>3, <2>2, <3>1 DEF Signal
  <2> QED BY <2>1, <2>2
<1>4. ASSUME NEW r \in Receiver, Resolve(r) PROVE Keeps
  BY <1>4 DEF Resolve, Inv, TypeOK
<1> QED BY <1>2, <1>3, <1>4 DEF Next

\* A verified exit, once published, is what try_get answers until its slot is
\* evicted, and what every receiver that has read it keeps, for any history bound
\* and any order of late failure reports (signal_exit's early return).
THEOREM VerifiedExitsAreKept == Spec => VerifiedExitKept
<1>1. Init => IdleSeesNothing
  BY DEF Init, IdleSeesNothing
<1>2. Inv /\ IdleSeesNothing /\ [Next]_vars => IdleSeesNothing'
  BY IdleKept
<1>3. Inv /\ IdleSeesNothing /\ [Next]_vars =>
        [/\ \A p \in Pid :
              TryGet(waiters, p) \in VerifiedOutcome =>
                TryGet(waiters', p) \in {TryGet(waiters, p), NoExit}
         /\ \A r \in Receiver :
              seen[r] \in VerifiedOutcome => seen'[r] \in {seen[r], NoExit}]_vars
  BY StepKeepsVerified
<1> QED BY <1>1, <1>2, <1>3, WaitersInvariant, PTL DEF Spec, VerifiedExitKept

-----------------------------------------------------------------------------
(* Process groups.  The number of a group cannot be recycled while its       *)
(* anchor is unreaped (AnchorPins), and one party at a time may reap it      *)
(* (OneReaper); so whoever signals under the mutex signals the scope's own   *)
(* group, and the scope's processes are in it (GroupHoldsScope).             *)

\* The invariant holds initially.
LEMMA GroupsStart == Groups!Init => Groups!IndInv
  <1> SUFFICES ASSUME Groups!Init PROVE Groups!IndInv
    OBVIOUS
  <1>1. Groups!TypeOK
    BY DEF Groups!Init, Groups!TypeOK
  <1>2. Groups!GroupsLed /\ Groups!GroupsAreDisjoint
    BY DEF Groups!Init, Groups!GroupsLed, Groups!GroupsAreDisjoint
  <1>3. Groups!AnchorPins /\ Groups!OneReaper
    BY DEF Groups!Init, Groups!AnchorPins, Groups!OneReaper
  <1>4. Groups!GroupHoldsScope
    BY DEF Groups!Init, Groups!GroupHoldsScope, Groups!Stays
  <1>5. Groups!NoStrangerSignalled /\ Groups!RootsAreOwned
    BY DEF Groups!Init, Groups!NoStrangerSignalled, Groups!RootsAreOwned
  <1> QED
    BY <1>1, <1>2, <1>3, <1>4, <1>5 DEF Groups!IndInv

\* A stranger takes a free number; none that is pinned is free.
LEMMA GroupsForeignStart ==
  ASSUME Groups!IndInv, NEW n \in Num, Groups!ForeignStart(n)
  PROVE  Groups!IndInv'
  <1> USE InfraAssumption DEF Groups!IndInv, Groups!TypeOK, Groups!ForeignStart,
                              Groups!Appear, Groups!Unused, Groups!Members,
                              Groups!groupVars, Groups!workerVars, Groups!callVars
  <1>1. Groups!TypeOK'
    BY DEF Groups!OneReaper
  <1>2. Groups!GroupsLed'
    BY DEF Groups!GroupsLed, Groups!AnchorPins, Groups!Pins
  <1>3. Groups!GroupsAreDisjoint'
    BY DEF Groups!GroupsAreDisjoint, Groups!AnchorPins, Groups!Pins, Groups!GroupsLed
  <1>4. Groups!AnchorPins'
    BY DEF Groups!AnchorPins, Groups!Pins, Groups!OneReaper
  <1>5. Groups!OneReaper'
    BY DEF Groups!OneReaper, Groups!AnchorPins, Groups!Pins
  <1>6. Groups!GroupHoldsScope'
    BY DEF Groups!GroupHoldsScope, Groups!Stays, Groups!AnchorPins, Groups!Pins,
           Groups!OneReaper
  <1>7. Groups!NoStrangerSignalled'
    BY DEF Groups!NoStrangerSignalled
  <1>8. Groups!RootsAreOwned'
    BY DEF Groups!RootsAreOwned, Groups!OneReaper
  <1> QED
    BY <1>1, <1>2, <1>3, <1>4, <1>5, <1>6, <1>7, <1>8

\* A child joins the group of its parent, so the group stays one of one
\* scope.
LEMMA GroupsFork ==
  ASSUME Groups!IndInv, NEW p \in Num, NEW n \in Num, Groups!Fork(p, n)
  PROVE  Groups!IndInv'
  <1> USE InfraAssumption DEF Groups!IndInv, Groups!TypeOK, Groups!Fork,
                              Groups!Appear, Groups!Unused, Groups!Members,
                              Groups!groupVars, Groups!workerVars, Groups!callVars
  <1>1. Groups!TypeOK'
    BY DEF Groups!OneReaper
  <1>2. Groups!GroupsLed'
    BY DEF Groups!GroupsLed, Groups!AnchorPins, Groups!Pins
  <1>3. Groups!GroupsAreDisjoint'
    BY DEF Groups!GroupsAreDisjoint, Groups!AnchorPins, Groups!Pins, Groups!GroupsLed
  <1>4. Groups!AnchorPins'
    BY DEF Groups!AnchorPins, Groups!Pins, Groups!OneReaper
  <1>5. Groups!OneReaper'
    BY DEF Groups!OneReaper, Groups!AnchorPins, Groups!Pins
  <1>6. Groups!GroupHoldsScope'
    BY DEF Groups!GroupHoldsScope, Groups!Stays, Groups!AnchorPins, Groups!Pins,
           Groups!OneReaper
  <1>7. Groups!NoStrangerSignalled'
    BY DEF Groups!NoStrangerSignalled
  <1>8. Groups!RootsAreOwned'
    BY DEF Groups!RootsAreOwned, Groups!OneReaper
  <1> QED
    BY <1>1, <1>2, <1>3, <1>4, <1>5, <1>6, <1>7, <1>8

\* A process that leaves is no longer among those that stay.
LEMMA GroupsEscape ==
  ASSUME Groups!IndInv, NEW n \in Num, Groups!Escape(n)
  PROVE  Groups!IndInv'
  <1> USE InfraAssumption DEF Groups!IndInv, Groups!TypeOK, Groups!Escape,
                              Groups!groupVars, Groups!workerVars, Groups!callVars
  <1>1. Groups!TypeOK'
    BY DEF Groups!OneReaper
  <1>2. Groups!GroupsLed'
    BY DEF Groups!GroupsLed, Groups!AnchorPins, Groups!Pins
  <1>3. Groups!GroupsAreDisjoint'
    BY DEF Groups!GroupsAreDisjoint, Groups!AnchorPins, Groups!Pins, Groups!GroupsLed
  <1>4. Groups!AnchorPins'
    BY DEF Groups!AnchorPins, Groups!Pins, Groups!OneReaper
  <1>5. Groups!OneReaper'
    BY DEF Groups!OneReaper, Groups!AnchorPins, Groups!Pins
  <1>6. Groups!GroupHoldsScope'
    BY DEF Groups!GroupHoldsScope, Groups!Stays, Groups!AnchorPins, Groups!Pins,
           Groups!OneReaper
  <1>7. Groups!NoStrangerSignalled'
    BY DEF Groups!NoStrangerSignalled
  <1>8. Groups!RootsAreOwned'
    BY DEF Groups!RootsAreOwned, Groups!OneReaper
  <1> QED
    BY <1>1, <1>2, <1>3, <1>4, <1>5, <1>6, <1>7, <1>8

\* Anchors and roots that end stay zombies and pin their numbers.
LEMMA GroupsEnd ==
  ASSUME Groups!IndInv, NEW n \in Num, Groups!End(n)
  PROVE  Groups!IndInv'
  <1> USE InfraAssumption DEF Groups!IndInv, Groups!TypeOK, Groups!End, Groups!Vanish,
                              Groups!groupVars, Groups!workerVars, Groups!callVars
  <1>1. Groups!TypeOK'
    BY DEF Groups!OneReaper
  <1>2. Groups!GroupsLed'
    BY DEF Groups!GroupsLed, Groups!AnchorPins, Groups!Pins
  <1>3. Groups!GroupsAreDisjoint'
    BY DEF Groups!GroupsAreDisjoint, Groups!AnchorPins, Groups!Pins, Groups!GroupsLed
  <1>4. Groups!AnchorPins'
    BY DEF Groups!AnchorPins, Groups!Pins, Groups!OneReaper
  <1>5. Groups!OneReaper'
    <2>1. CASE kind[n] \in {"anchor", "root"}
      BY <2>1 DEF Groups!OneReaper
    <2>2. CASE kind[n] \notin {"anchor", "root"}
      <3>1. rootWait[n] = "none" /\ \A s \in Scope : newborn[s] # n
        BY <2>2 DEF Groups!OneReaper
      <3>2. n \notin orphans
        BY <2>2 DEF Groups!OneReaper
      <3> QED
        BY <2>2, <3>1, <3>2 DEF Groups!OneReaper
    <2> QED
      BY <2>1, <2>2
  <1>6. Groups!GroupHoldsScope'
    BY DEF Groups!GroupHoldsScope, Groups!Stays, Groups!AnchorPins, Groups!Pins,
           Groups!OneReaper
  <1>7. Groups!NoStrangerSignalled'
    BY DEF Groups!NoStrangerSignalled
  <1>8. Groups!RootsAreOwned'
    BY DEF Groups!RootsAreOwned, Groups!OneReaper
  <1> QED
    BY <1>1, <1>2, <1>3, <1>4, <1>5, <1>6, <1>7, <1>8

\* signal_group comes to killpg exactly when the anchor still pins the number.
LEMMA GroupSignal ==
  ASSUME Groups!IndInv, NEW s \in Scope
  PROVE  /\ Groups!SignalGroup(s) = "kill" <=>
              pgid[s] # NoNum /\ s \notin killed /\ anchorExit[s] = "none"
         /\ Groups!SignalGroup(s) = "skip" =>
              \/ pgid[s] = NoNum \/ s \in killed
              \/ Groups!Members(pgid[s]) = {}
         /\ Groups!SignalGroup(s) \in {"kill", "skip", "error"}
  BY DEF Groups!IndInv, Groups!TypeOK, Groups!AnchorPins, Groups!SignalGroup,
         Groups!GroupExists

\* While an anchor is waited for, its group is the scope's own, whole.
LEMMA GroupIsScope ==
  ASSUME Groups!IndInv, NEW s \in Scope, anchorExit[s] = "none"
  PROVE  /\ pgid[s] \in Num /\ anchorWait[s] = pgid[s]
         /\ Groups!Strangers(s, pgid[s]) = {}
         /\ \A n \in Num : Groups!Stays(s, n) => n \in Groups!Members(pgid[s])
  <1>1. pgid[s] \in Num /\ anchorWait[s] = pgid[s] /\ Groups!Pins(s, pgid[s])
    BY InfraAssumption DEF Groups!IndInv, Groups!TypeOK, Groups!AnchorPins
  <1>2. Groups!Strangers(s, pgid[s]) = {}
    BY <1>1 DEF Groups!IndInv, Groups!GroupsAreDisjoint, Groups!Pins,
                Groups!Strangers, Groups!Members
  <1>3. \A n \in Num : Groups!Stays(s, n) => n \in Groups!Members(pgid[s])
    BY <1>1, InfraAssumption
       DEF Groups!IndInv, Groups!GroupHoldsScope, Groups!Stays, Groups!Members
  <1> QED
    BY <1>1, <1>2, <1>3

\* A kill strikes no stranger, and everything that stays with a killed scope.
LEMMA GroupKill ==
  ASSUME Groups!IndInv, NEW ss \in SUBSET Scope, NEW rs \in SUBSET Num,
         Groups!KillScopes(ss, rs)
  PROVE  /\ st' \in [Num -> {"free", "live", "dying", "zombie"}]
         /\ \A n \in Num : st'[n] = st[n] \/ (st[n] = "live" /\ st'[n] = "dying")
         /\ struck' = {}
         /\ killed' \subseteq Scope
         /\ \A s \in killed' \ killed :
              anchorExit[s] = "none"
              /\ \A n \in Num : Groups!Stays(s, n) => st'[n] # "live"
         /\ \A s \in ss : Groups!SignalGroup(s) # "error" =>
              \A n \in Num : Groups!Stays(s, n) => st'[n] # "live"
  <1> DEFINE hit == UNION {Groups!Members(pgid[s]) : s \in Groups!Targets(ss)}
  <1>1. /\ st' = Groups!Doomed(hit \union rs)
        /\ struck' = struck \union
             UNION {Groups!Strangers(s, pgid[s]) : s \in Groups!Targets(ss)}
        /\ killed' = killed \union {s \in Groups!Targets(ss) : anchorExit[s] # "absent"}
    BY DEF Groups!KillScopes
  <1> HIDE DEF hit
  <1>2. \A s \in Groups!Targets(ss) : s \in ss /\ s \in Scope /\ anchorExit[s] = "none"
    BY GroupSignal DEF Groups!Targets
  <1>3. st' \in [Num -> {"free", "live", "dying", "zombie"}]
    BY <1>1 DEF Groups!Doomed, Groups!IndInv, Groups!TypeOK
  <1>4. \A n \in Num : st'[n] = st[n] \/ (st[n] = "live" /\ st'[n] = "dying")
    <2> SUFFICES ASSUME NEW n \in Num
                 PROVE  st'[n] = st[n] \/ (st[n] = "live" /\ st'[n] = "dying")
      OBVIOUS
    <2>1. st'[n] = IF n \in hit \union rs /\ st[n] = "live" THEN "dying" ELSE st[n]
      BY <1>1 DEF Groups!Doomed
    <2> QED
      BY <2>1
  <1>5. struck' = {}
    <2>1. \A s \in Groups!Targets(ss) : Groups!Strangers(s, pgid[s]) = {}
      BY <1>2, GroupIsScope
    <2> QED
      BY <1>1, <2>1 DEF Groups!IndInv, Groups!NoStrangerSignalled
  <1>6. \A s \in Groups!Targets(ss), n \in Num :
          Groups!Stays(s, n) => st'[n] # "live"
    <2> SUFFICES ASSUME NEW s \in Groups!Targets(ss), NEW n \in Num,
                        Groups!Stays(s, n)
                 PROVE  st'[n] # "live"
      OBVIOUS
    <2>1. n \in Groups!Members(pgid[s])
      BY <1>2, GroupIsScope
    <2>2. n \in hit
      BY <2>1 DEF hit
    <2> QED
      BY <1>1, <2>2 DEF Groups!Doomed
  <1>7. killed' \subseteq Scope
    BY <1>1, <1>2 DEF Groups!IndInv, Groups!TypeOK
  <1>8. \A s \in killed' \ killed : s \in Groups!Targets(ss)
    BY <1>1
  <1>9. ASSUME NEW s \in ss, Groups!SignalGroup(s) # "error",
               NEW n \in Num, Groups!Stays(s, n)
        PROVE  st'[n] # "live"
    <2>1. CASE Groups!SignalGroup(s) = "kill"
      BY <1>6, <1>9, <2>1 DEF Groups!Targets
    <2>2. CASE Groups!SignalGroup(s) = "skip"
      <3>1. CASE Groups!Members(pgid[s]) = {} /\ pgid[s] # NoNum
        BY <1>9, <3>1
           DEF Groups!Stays, Groups!IndInv, Groups!GroupHoldsScope, Groups!Members
      <3>2. CASE pgid[s] = NoNum \/ s \in killed
        BY <1>4, <1>9, <3>2
           DEF Groups!IndInv, Groups!GroupHoldsScope
      <3> QED
        BY <2>2, <3>1, <3>2, GroupSignal
    <2> QED
      BY <1>9, <2>1, <2>2, GroupSignal
  <1> QED
    BY <1>2, <1>3, <1>4, <1>5, <1>6, <1>7, <1>8, <1>9

\* What both kills leave of the invariant, from what GroupKill says of them.
LEMMA GroupKillFrames ==
  ASSUME Groups!IndInv, NEW ss \in SUBSET Scope, NEW rs \in SUBSET Num,
         Groups!KillScopes(ss, rs),
         UNCHANGED <<grp, kind, own, pgid, anchorExit, anchorWait, rootWait,
                     orphans, spawnPc, newborn, closed, cleaned>>
  PROVE  /\ Groups!GroupsLed' /\ Groups!GroupsAreDisjoint' /\ Groups!AnchorPins'
         /\ Groups!OneReaper' /\ Groups!NoStrangerSignalled'
         /\ Groups!RootsAreOwned'
  <1> USE DEF Groups!IndInv, Groups!TypeOK
  <1>1. /\ \A n \in Num : st'[n] = "free" <=> st[n] = "free"
        /\ struck' = {}
    BY GroupKill
  <1>2. Groups!GroupsLed'
    BY <1>1 DEF Groups!GroupsLed
  <1>3. Groups!GroupsAreDisjoint'
    BY <1>1 DEF Groups!GroupsAreDisjoint
  <1>4. Groups!AnchorPins'
    BY <1>1, InfraAssumption DEF Groups!AnchorPins, Groups!Pins
  <1>5. Groups!OneReaper' /\ Groups!RootsAreOwned'
    BY <1>1, InfraAssumption DEF Groups!OneReaper, Groups!RootsAreOwned
  <1> QED
    BY <1>1, <1>2, <1>3, <1>4, <1>5 DEF Groups!NoStrangerSignalled

\* A hard kill signals the groups of its scopes and their registered roots.
LEMMA GroupsHardKill ==
  ASSUME Groups!IndInv, NEW ss \in SUBSET Scope, Groups!HardKill(ss)
  PROVE  Groups!IndInv'
  <1> DEFINE rs == Groups!Registered(ss)
  <1>1. /\ rs \in SUBSET Num /\ Groups!KillScopes(ss, rs)
        /\ retry' = retry \union {n \in rs : rootWait[n] # "none"}
        /\ UNCHANGED <<grp, kind, own, pgid, live, failed, anchorExit, anchorWait,
                       rootWait, orphans, unpublished, spawnPc, newborn, cleanPc,
                       closed, cleaned, up, fails>>
    BY DEF Groups!HardKill, Groups!Registered, Groups!QueueRetries, Groups!callVars
  <1> HIDE DEF rs
  <1>2. /\ st' \in [Num -> {"free", "live", "dying", "zombie"}]
        /\ \A n \in Num : st'[n] = st[n] \/ (st[n] = "live" /\ st'[n] = "dying")
        /\ struck' = {} /\ killed' \subseteq Scope
        /\ \A s \in killed' \ killed :
             \A n \in Num : Groups!Stays(s, n) => st'[n] # "live"
    BY <1>1, GroupKill
  <1>3. Groups!TypeOK'
    BY <1>1, <1>2 DEF Groups!IndInv, Groups!TypeOK
  <1>4. Groups!GroupHoldsScope'
    <2>1. \A s \in Scope, n \in Num : Groups!Stays(s, n)' <=> Groups!Stays(s, n)
      BY <1>1, <1>2 DEF Groups!Stays
    <2> QED
      BY <1>1, <1>2, <2>1 DEF Groups!IndInv, Groups!GroupHoldsScope
  <1>5. /\ Groups!GroupsLed' /\ Groups!GroupsAreDisjoint' /\ Groups!AnchorPins'
        /\ Groups!OneReaper' /\ Groups!NoStrangerSignalled' /\ Groups!RootsAreOwned'
    BY <1>1, GroupKillFrames
  <1> QED
    BY <1>3, <1>4, <1>5 DEF Groups!IndInv

\* A cleanup kills the group of its scope.
LEMMA GroupsCleanupKill ==
  ASSUME Groups!IndInv, NEW s \in Scope, Groups!CleanupKill(s)
  PROVE  Groups!IndInv'
  <1> DEFINE rs == {n \in Groups!Registered({s}) : rootWait[n] # "none"}
  <1>1. /\ Groups!KillScopes({s}, {}) /\ cleanPc[s] = "kill"
        /\ retry' = retry \union rs
        /\ cleanPc' = [cleanPc EXCEPT ![s] =
                         IF Groups!SignalGroup(s) = "error" THEN "idle" ELSE "await"]
        /\ UNCHANGED <<grp, kind, own, pgid, live, failed, anchorExit, anchorWait,
                       rootWait, orphans, unpublished, spawnPc, newborn,
                       closed, cleaned, up, fails>>
    BY DEF Groups!CleanupKill, Groups!QueueRetries
  <1>a. rs \in SUBSET Num
    BY DEF Groups!Registered
  <1> HIDE DEF rs
  <1>2. /\ st' \in [Num -> {"free", "live", "dying", "zombie"}]
        /\ \A n \in Num : st'[n] = st[n] \/ (st[n] = "live" /\ st'[n] = "dying")
        /\ struck' = {} /\ killed' \subseteq Scope
        /\ \A q \in killed' \ killed :
             \A n \in Num : Groups!Stays(q, n) => st'[n] # "live"
        /\ Groups!SignalGroup(s) # "error" =>
             \A n \in Num : Groups!Stays(s, n) => st'[n] # "live"
    BY <1>1, GroupKill
  <1>3. Groups!TypeOK'
    BY <1>1, <1>a, <1>2 DEF Groups!IndInv, Groups!TypeOK
  <1>4. Groups!GroupHoldsScope'
    <2>1. \A q \in Scope, n \in Num : Groups!Stays(q, n)' <=> Groups!Stays(q, n)
      BY <1>1, <1>2 DEF Groups!Stays
    <2>2. /\ \A q \in Scope : q # s => cleanPc'[q] = cleanPc[q]
          /\ cleanPc'[s] \in {"idle", "await"}
          /\ cleanPc'[s] = "await" => Groups!SignalGroup(s) # "error"
      BY <1>1 DEF Groups!IndInv, Groups!TypeOK
    <2> QED
      BY <1>1, <1>2, <2>1, <2>2 DEF Groups!IndInv, Groups!GroupHoldsScope
  <1>5. /\ Groups!GroupsLed' /\ Groups!GroupsAreDisjoint' /\ Groups!AnchorPins'
        /\ Groups!OneReaper' /\ Groups!NoStrangerSignalled' /\ Groups!RootsAreOwned'
    BY <1>1, GroupKillFrames
  <1> QED
    BY <1>3, <1>4, <1>5 DEF Groups!IndInv

\* The waiter task reaps the anchor and publishes that in the same critical
\* section, so that nobody signals the group afterwards.
LEMMA GroupsPollExit ==
  ASSUME Groups!IndInv, NEW s \in Scope, Groups!PollExit(s)
  PROVE  Groups!IndInv'
  <1> USE InfraAssumption DEF Groups!IndInv, Groups!TypeOK, Groups!PollExit,
                              Groups!Vanish, Groups!callVars
  <1>1. Groups!TypeOK'
    BY DEF Groups!OneReaper
  <1>2. Groups!GroupsLed'
    BY DEF Groups!GroupsLed, Groups!AnchorPins, Groups!Pins
  <1>3. Groups!GroupsAreDisjoint'
    BY DEF Groups!GroupsAreDisjoint, Groups!AnchorPins, Groups!Pins, Groups!GroupsLed
  <1>4. Groups!AnchorPins'
    BY DEF Groups!AnchorPins, Groups!Pins, Groups!OneReaper
  <1>5. Groups!OneReaper'
    BY DEF Groups!OneReaper, Groups!AnchorPins, Groups!Pins
  <1>6. Groups!GroupHoldsScope'
    BY DEF Groups!GroupHoldsScope, Groups!Stays, Groups!AnchorPins, Groups!Pins,
           Groups!OneReaper
  <1>7. Groups!NoStrangerSignalled'
    BY DEF Groups!NoStrangerSignalled
  <1>8. Groups!RootsAreOwned'
    BY DEF Groups!RootsAreOwned, Groups!OneReaper
  <1> QED
    BY <1>1, <1>2, <1>3, <1>4, <1>5, <1>6, <1>7, <1>8

\* So it is when the host program has reaped the anchor.
LEMMA GroupsPollStolen ==
  ASSUME Groups!IndInv, NEW s \in Scope, Groups!PollStolen(s)
  PROVE  Groups!IndInv'
  <1> USE InfraAssumption DEF Groups!IndInv, Groups!TypeOK, Groups!PollStolen,
                              Groups!Vanish, Groups!callVars
  <1>1. Groups!TypeOK'
    BY DEF Groups!OneReaper
  <1>2. Groups!GroupsLed'
    BY DEF Groups!GroupsLed, Groups!AnchorPins, Groups!Pins
  <1>3. Groups!GroupsAreDisjoint'
    BY DEF Groups!GroupsAreDisjoint, Groups!AnchorPins, Groups!Pins, Groups!GroupsLed
  <1>4. Groups!AnchorPins'
    BY DEF Groups!AnchorPins, Groups!Pins, Groups!OneReaper
  <1>5. Groups!OneReaper'
    BY DEF Groups!OneReaper, Groups!AnchorPins, Groups!Pins
  <1>6. Groups!GroupHoldsScope'
    BY DEF Groups!GroupHoldsScope, Groups!Stays, Groups!AnchorPins, Groups!Pins,
           Groups!OneReaper
  <1>7. Groups!NoStrangerSignalled'
    BY DEF Groups!NoStrangerSignalled
  <1>8. Groups!RootsAreOwned'
    BY DEF Groups!RootsAreOwned, Groups!OneReaper
  <1> QED
    BY <1>1, <1>2, <1>3, <1>4, <1>5, <1>6, <1>7, <1>8

\* A waiter task that is dropped kills the group while its anchor is still
\* there.
LEMMA GroupsAnchorWaitDrop ==
  ASSUME Groups!IndInv, NEW s \in Scope, Groups!AnchorWaitDrop(s)
  PROVE  Groups!IndInv'
  <1> USE InfraAssumption DEF Groups!IndInv, Groups!TypeOK, Groups!AnchorWaitDrop,
                              Groups!Doomed, Groups!Members, Groups!Strangers,
                              Groups!callVars
  <1>1. Groups!TypeOK'
    BY DEF Groups!OneReaper
  <1>2. Groups!GroupsLed'
    BY DEF Groups!GroupsLed, Groups!AnchorPins, Groups!Pins
  <1>3. Groups!GroupsAreDisjoint'
    BY DEF Groups!GroupsAreDisjoint, Groups!AnchorPins, Groups!Pins, Groups!GroupsLed
  <1>4. Groups!AnchorPins'
    BY DEF Groups!AnchorPins, Groups!Pins, Groups!OneReaper
  <1>5. Groups!OneReaper'
    BY DEF Groups!OneReaper, Groups!AnchorPins, Groups!Pins
  <1>6. Groups!GroupHoldsScope'
    BY DEF Groups!GroupHoldsScope, Groups!Stays, Groups!AnchorPins, Groups!Pins,
           Groups!OneReaper
  <1>7. Groups!NoStrangerSignalled'
    <2>1. anchorExit[s] = "none" /\ anchorWait[s] = pgid[s]
      BY DEF Groups!AnchorPins
    <2>2. Groups!Strangers(s, pgid[s]) = {}
      BY <2>1, GroupIsScope
    <2> QED
      BY <2>1, <2>2 DEF Groups!NoStrangerSignalled
  <1>8. Groups!RootsAreOwned'
    BY DEF Groups!RootsAreOwned, Groups!OneReaper
  <1> QED
    BY <1>1, <1>2, <1>3, <1>4, <1>5, <1>6, <1>7, <1>8

\* The runtime ends and hands its roots to reaper threads.
LEMMA GroupsRuntimeDown ==
  ASSUME Groups!IndInv, Groups!RuntimeDown
  PROVE  Groups!IndInv'
  <1> USE InfraAssumption DEF Groups!IndInv, Groups!TypeOK, Groups!RuntimeDown,
                              Groups!kernelVars, Groups!groupVars
  <1>1. Groups!TypeOK'
    BY DEF Groups!OneReaper
  <1>2. Groups!GroupsLed'
    BY DEF Groups!GroupsLed, Groups!AnchorPins, Groups!Pins
  <1>3. Groups!GroupsAreDisjoint'
    BY DEF Groups!GroupsAreDisjoint, Groups!AnchorPins, Groups!Pins, Groups!GroupsLed
  <1>4. Groups!AnchorPins'
    BY DEF Groups!AnchorPins, Groups!Pins, Groups!OneReaper
  <1>5. Groups!OneReaper'
    BY DEF Groups!OneReaper, Groups!AnchorPins, Groups!Pins
  <1>6. Groups!GroupHoldsScope'
    BY DEF Groups!GroupHoldsScope, Groups!Stays, Groups!AnchorPins, Groups!Pins,
           Groups!OneReaper
  <1>7. Groups!NoStrangerSignalled'
    BY DEF Groups!NoStrangerSignalled
  <1>8. Groups!RootsAreOwned'
    BY DEF Groups!RootsAreOwned, Groups!OneReaper
  <1> QED
    BY <1>1, <1>2, <1>3, <1>4, <1>5, <1>6, <1>7, <1>8

\* A reaper thread reaps its root.
LEMMA GroupsOrphanReap ==
  ASSUME Groups!IndInv, NEW n \in Num, Groups!OrphanReap(n)
  PROVE  Groups!IndInv'
  <1> USE InfraAssumption DEF Groups!IndInv, Groups!TypeOK, Groups!OrphanReap,
                              Groups!Vanish, Groups!groupVars, Groups!callVars
  <1>1. Groups!TypeOK'
    BY DEF Groups!OneReaper
  <1>2. Groups!GroupsLed'
    BY DEF Groups!GroupsLed, Groups!AnchorPins, Groups!Pins
  <1>3. Groups!GroupsAreDisjoint'
    BY DEF Groups!GroupsAreDisjoint, Groups!AnchorPins, Groups!Pins, Groups!GroupsLed
  <1>4. Groups!AnchorPins'
    BY DEF Groups!AnchorPins, Groups!Pins, Groups!OneReaper
  <1>5. Groups!OneReaper'
    BY DEF Groups!OneReaper, Groups!AnchorPins, Groups!Pins
  <1>6. Groups!GroupHoldsScope'
    BY DEF Groups!GroupHoldsScope, Groups!Stays, Groups!AnchorPins, Groups!Pins,
           Groups!OneReaper
  <1>7. Groups!NoStrangerSignalled'
    BY DEF Groups!NoStrangerSignalled
  <1>8. Groups!RootsAreOwned'
    BY DEF Groups!RootsAreOwned, Groups!OneReaper
  <1> QED
    BY <1>1, <1>2, <1>3, <1>4, <1>5, <1>6, <1>7, <1>8

\* A spawn begins on a scope that is not being cleaned.
LEMMA GroupsSpawnBegin ==
  ASSUME Groups!IndInv, NEW s \in Scope, Groups!SpawnBegin(s)
  PROVE  Groups!IndInv'
  <1> USE InfraAssumption DEF Groups!IndInv, Groups!TypeOK, Groups!SpawnBegin,
                              Groups!kernelVars, Groups!groupVars, Groups!workerVars
  <1>1. Groups!TypeOK'
    BY DEF Groups!OneReaper
  <1>2. Groups!GroupsLed'
    BY DEF Groups!GroupsLed, Groups!AnchorPins, Groups!Pins
  <1>3. Groups!GroupsAreDisjoint'
    BY DEF Groups!GroupsAreDisjoint, Groups!AnchorPins, Groups!Pins, Groups!GroupsLed
  <1>4. Groups!AnchorPins'
    BY DEF Groups!AnchorPins, Groups!Pins, Groups!OneReaper
  <1>5. Groups!OneReaper'
    BY DEF Groups!OneReaper, Groups!AnchorPins, Groups!Pins
  <1>6. Groups!GroupHoldsScope'
    BY DEF Groups!GroupHoldsScope, Groups!Stays, Groups!AnchorPins, Groups!Pins,
           Groups!OneReaper
  <1>7. Groups!NoStrangerSignalled'
    BY DEF Groups!NoStrangerSignalled
  <1>8. Groups!RootsAreOwned'
    BY DEF Groups!RootsAreOwned, Groups!OneReaper
  <1> QED
    BY <1>1, <1>2, <1>3, <1>4, <1>5, <1>6, <1>7, <1>8

\* A spawn finds a live anchor, or clears the entry of one that is reaped and
\* whose group is empty.
LEMMA GroupsEnsureAnchor ==
  ASSUME Groups!IndInv, NEW s \in Scope, Groups!EnsureAnchor(s)
  PROVE  Groups!IndInv'
  <1> USE InfraAssumption DEF Groups!IndInv, Groups!TypeOK, Groups!EnsureAnchor,
                              Groups!SpawnFails, Groups!Replaceable,
                              Groups!GroupExists, Groups!Members, Groups!kernelVars,
                              Groups!groupVars, Groups!workerVars
  <1>1. Groups!TypeOK'
    BY DEF Groups!OneReaper
  <1>2. Groups!GroupsLed'
    BY DEF Groups!GroupsLed, Groups!AnchorPins, Groups!Pins
  <1>3. Groups!GroupsAreDisjoint'
    BY DEF Groups!GroupsAreDisjoint, Groups!AnchorPins, Groups!Pins, Groups!GroupsLed
  <1>4. Groups!AnchorPins'
    BY DEF Groups!AnchorPins, Groups!Pins, Groups!OneReaper
  <1>5. Groups!OneReaper'
    BY DEF Groups!OneReaper, Groups!AnchorPins, Groups!Pins
  <1>6. Groups!GroupHoldsScope'
    BY DEF Groups!GroupHoldsScope, Groups!Stays, Groups!AnchorPins, Groups!Pins,
           Groups!OneReaper
  <1>7. Groups!NoStrangerSignalled'
    BY DEF Groups!NoStrangerSignalled
  <1>8. Groups!RootsAreOwned'
    BY DEF Groups!RootsAreOwned, Groups!OneReaper
  <1> QED
    BY <1>1, <1>2, <1>3, <1>4, <1>5, <1>6, <1>7, <1>8

\* A new anchor leads a group of its own number, which was free.
LEMMA GroupsForkAnchor ==
  ASSUME Groups!IndInv, NEW s \in Scope, NEW n \in Num, Groups!ForkAnchor(s, n)
  PROVE  Groups!IndInv'
  <1> USE InfraAssumption DEF Groups!IndInv, Groups!TypeOK, Groups!ForkAnchor,
                              Groups!Appear, Groups!Unused, Groups!Members
  <1>1. Groups!TypeOK'
    BY DEF Groups!OneReaper
  <1>2. Groups!GroupsLed'
    BY DEF Groups!GroupsLed, Groups!AnchorPins, Groups!Pins
  <1>3. Groups!GroupsAreDisjoint'
    BY DEF Groups!GroupsAreDisjoint, Groups!AnchorPins, Groups!Pins, Groups!GroupsLed
  <1>4. Groups!AnchorPins'
    BY DEF Groups!AnchorPins, Groups!Pins, Groups!OneReaper
  <1>5. Groups!OneReaper'
    BY DEF Groups!OneReaper, Groups!AnchorPins, Groups!Pins
  <1>6. Groups!GroupHoldsScope'
    BY DEF Groups!GroupHoldsScope, Groups!Stays, Groups!AnchorPins, Groups!Pins,
           Groups!OneReaper
  <1>7. Groups!NoStrangerSignalled'
    BY DEF Groups!NoStrangerSignalled
  <1>8. Groups!RootsAreOwned'
    BY DEF Groups!RootsAreOwned, Groups!OneReaper
  <1> QED
    BY <1>1, <1>2, <1>3, <1>4, <1>5, <1>6, <1>7, <1>8

\* A root joins the group of its scope under the mutex.
LEMMA GroupsSpawnJoin ==
  ASSUME Groups!IndInv, NEW s \in Scope, NEW n \in Num, Groups!SpawnJoin(s, n)
  PROVE  Groups!IndInv'
  <1> USE InfraAssumption DEF Groups!IndInv, Groups!TypeOK, Groups!SpawnJoin,
                              Groups!Joinable, Groups!Appear, Groups!Unused,
                              Groups!Members, Groups!groupVars, Groups!workerVars
  <1>1. Groups!TypeOK'
    BY DEF Groups!OneReaper
  <1>2. Groups!GroupsLed'
    BY DEF Groups!GroupsLed, Groups!AnchorPins, Groups!Pins
  <1>3. Groups!GroupsAreDisjoint'
    BY DEF Groups!GroupsAreDisjoint, Groups!AnchorPins, Groups!Pins, Groups!GroupsLed
  <1>4. Groups!AnchorPins'
    BY DEF Groups!AnchorPins, Groups!Pins, Groups!OneReaper
  <1>5. Groups!OneReaper'
    BY DEF Groups!OneReaper, Groups!AnchorPins, Groups!Pins
  <1>6. Groups!GroupHoldsScope'
    BY DEF Groups!GroupHoldsScope, Groups!Stays, Groups!AnchorPins, Groups!Pins,
           Groups!OneReaper
  <1>7. Groups!NoStrangerSignalled'
    BY DEF Groups!NoStrangerSignalled
  <1>8. Groups!RootsAreOwned'
    BY DEF Groups!RootsAreOwned, Groups!OneReaper
  <1> QED
    BY <1>1, <1>2, <1>3, <1>4, <1>5, <1>6, <1>7, <1>8

\* A spawn that cannot join returns to the anchor or gives up.
LEMMA GroupsSpawnJoinFails ==
  ASSUME Groups!IndInv, NEW s \in Scope, Groups!SpawnJoinFails(s)
  PROVE  Groups!IndInv'
  <1> USE InfraAssumption DEF Groups!IndInv, Groups!TypeOK, Groups!SpawnJoinFails,
                              Groups!SpawnFails, Groups!kernelVars, Groups!groupVars,
                              Groups!workerVars
  <1>1. Groups!TypeOK'
    BY DEF Groups!OneReaper
  <1>2. Groups!GroupsLed'
    BY DEF Groups!GroupsLed, Groups!AnchorPins, Groups!Pins
  <1>3. Groups!GroupsAreDisjoint'
    BY DEF Groups!GroupsAreDisjoint, Groups!AnchorPins, Groups!Pins, Groups!GroupsLed
  <1>4. Groups!AnchorPins'
    BY DEF Groups!AnchorPins, Groups!Pins, Groups!OneReaper
  <1>5. Groups!OneReaper'
    BY DEF Groups!OneReaper, Groups!AnchorPins, Groups!Pins
  <1>6. Groups!GroupHoldsScope'
    BY DEF Groups!GroupHoldsScope, Groups!Stays, Groups!AnchorPins, Groups!Pins,
           Groups!OneReaper
  <1>7. Groups!NoStrangerSignalled'
    BY DEF Groups!NoStrangerSignalled
  <1>8. Groups!RootsAreOwned'
    BY DEF Groups!RootsAreOwned, Groups!OneReaper
  <1> QED
    BY <1>1, <1>2, <1>3, <1>4, <1>5, <1>6, <1>7, <1>8

\* A root passes from its spawn to its waiter task.
LEMMA GroupsRegister ==
  ASSUME Groups!IndInv, NEW s \in Scope, Groups!Register(s)
  PROVE  Groups!IndInv'
  <1> USE InfraAssumption DEF Groups!IndInv, Groups!TypeOK, Groups!Register,
                              Groups!kernelVars
  <1>1. Groups!TypeOK'
    BY DEF Groups!OneReaper
  <1>2. Groups!GroupsLed'
    BY DEF Groups!GroupsLed, Groups!AnchorPins, Groups!Pins
  <1>3. Groups!GroupsAreDisjoint'
    BY DEF Groups!GroupsAreDisjoint, Groups!AnchorPins, Groups!Pins, Groups!GroupsLed
  <1>4. Groups!AnchorPins'
    BY DEF Groups!AnchorPins, Groups!Pins, Groups!OneReaper
  <1>5. Groups!OneReaper'
    BY DEF Groups!OneReaper, Groups!AnchorPins, Groups!Pins
  <1>6. Groups!GroupHoldsScope'
    BY DEF Groups!GroupHoldsScope, Groups!Stays, Groups!AnchorPins, Groups!Pins,
           Groups!OneReaper
  <1>7. Groups!NoStrangerSignalled'
    BY DEF Groups!NoStrangerSignalled
  <1>8. Groups!RootsAreOwned'
    BY DEF Groups!RootsAreOwned, Groups!OneReaper
  <1> QED
    BY <1>1, <1>2, <1>3, <1>4, <1>5, <1>6, <1>7, <1>8

\* A spawn that fails after the fork hands its root to a reaper.
LEMMA GroupsSpawnPipeFails ==
  ASSUME Groups!IndInv, NEW s \in Scope, Groups!SpawnPipeFails(s)
  PROVE  Groups!IndInv'
  <1> USE InfraAssumption DEF Groups!IndInv, Groups!TypeOK, Groups!SpawnPipeFails,
                              Groups!SpawnFails, Groups!Doomed, Groups!groupVars
  <1>1. Groups!TypeOK'
    BY DEF Groups!OneReaper
  <1>2. Groups!GroupsLed'
    BY DEF Groups!GroupsLed, Groups!AnchorPins, Groups!Pins
  <1>3. Groups!GroupsAreDisjoint'
    BY DEF Groups!GroupsAreDisjoint, Groups!AnchorPins, Groups!Pins, Groups!GroupsLed
  <1>4. Groups!AnchorPins'
    BY DEF Groups!AnchorPins, Groups!Pins, Groups!OneReaper
  <1>5. Groups!OneReaper'
    BY DEF Groups!OneReaper, Groups!AnchorPins, Groups!Pins
  <1>6. Groups!GroupHoldsScope'
    BY DEF Groups!GroupHoldsScope, Groups!Stays, Groups!AnchorPins, Groups!Pins,
           Groups!OneReaper
  <1>7. Groups!NoStrangerSignalled'
    BY DEF Groups!NoStrangerSignalled
  <1>8. Groups!RootsAreOwned'
    BY DEF Groups!RootsAreOwned, Groups!OneReaper
  <1> QED
    BY <1>1, <1>2, <1>3, <1>4, <1>5, <1>6, <1>7, <1>8

\* A waiter task reaps its root.
LEMMA GroupsRootReap ==
  ASSUME Groups!IndInv, NEW n \in Num, Groups!RootReap(n)
  PROVE  Groups!IndInv'
  <1> USE InfraAssumption DEF Groups!IndInv, Groups!TypeOK, Groups!RootReap,
                              Groups!Vanish, Groups!groupVars, Groups!callVars
  <1>1. Groups!TypeOK'
    BY DEF Groups!OneReaper
  <1>2. Groups!GroupsLed'
    BY DEF Groups!GroupsLed, Groups!AnchorPins, Groups!Pins
  <1>3. Groups!GroupsAreDisjoint'
    BY DEF Groups!GroupsAreDisjoint, Groups!AnchorPins, Groups!Pins, Groups!GroupsLed
  <1>4. Groups!AnchorPins'
    BY DEF Groups!AnchorPins, Groups!Pins, Groups!OneReaper
  <1>5. Groups!OneReaper'
    BY DEF Groups!OneReaper, Groups!AnchorPins, Groups!Pins
  <1>6. Groups!GroupHoldsScope'
    BY DEF Groups!GroupHoldsScope, Groups!Stays, Groups!AnchorPins, Groups!Pins,
           Groups!OneReaper
  <1>7. Groups!NoStrangerSignalled'
    BY DEF Groups!NoStrangerSignalled
  <1>8. Groups!RootsAreOwned'
    BY DEF Groups!RootsAreOwned, Groups!OneReaper
  <1> QED
    BY <1>1, <1>2, <1>3, <1>4, <1>5, <1>6, <1>7, <1>8

\* The exit of a reaped root is published.
LEMMA GroupsPublishReaped ==
  ASSUME Groups!IndInv, NEW s \in Scope, Groups!PublishReaped(s)
  PROVE  Groups!IndInv'
  <1> USE InfraAssumption DEF Groups!IndInv, Groups!TypeOK, Groups!PublishReaped,
                              Groups!kernelVars, Groups!callVars
  <1>1. Groups!TypeOK'
    BY DEF Groups!OneReaper
  <1>2. Groups!GroupsLed'
    BY DEF Groups!GroupsLed, Groups!AnchorPins, Groups!Pins
  <1>3. Groups!GroupsAreDisjoint'
    BY DEF Groups!GroupsAreDisjoint, Groups!AnchorPins, Groups!Pins, Groups!GroupsLed
  <1>4. Groups!AnchorPins'
    BY DEF Groups!AnchorPins, Groups!Pins, Groups!OneReaper
  <1>5. Groups!OneReaper'
    BY DEF Groups!OneReaper, Groups!AnchorPins, Groups!Pins
  <1>6. Groups!GroupHoldsScope'
    BY DEF Groups!GroupHoldsScope, Groups!Stays, Groups!AnchorPins, Groups!Pins,
           Groups!OneReaper
  <1>7. Groups!NoStrangerSignalled'
    BY DEF Groups!NoStrangerSignalled
  <1>8. Groups!RootsAreOwned'
    BY DEF Groups!RootsAreOwned, Groups!OneReaper
  <1> QED
    BY <1>1, <1>2, <1>3, <1>4, <1>5, <1>6, <1>7, <1>8

\* A failed wait parks the task, which keeps its root.
LEMMA GroupsRootWaitFails ==
  ASSUME Groups!IndInv, NEW n \in Num, Groups!RootWaitFails(n)
  PROVE  Groups!IndInv'
  <1> USE InfraAssumption DEF Groups!IndInv, Groups!TypeOK, Groups!RootWaitFails,
                              Groups!kernelVars, Groups!callVars
  <1>1. Groups!TypeOK'
    BY DEF Groups!OneReaper
  <1>2. Groups!GroupsLed'
    BY DEF Groups!GroupsLed, Groups!AnchorPins, Groups!Pins
  <1>3. Groups!GroupsAreDisjoint'
    BY DEF Groups!GroupsAreDisjoint, Groups!AnchorPins, Groups!Pins, Groups!GroupsLed
  <1>4. Groups!AnchorPins'
    BY DEF Groups!AnchorPins, Groups!Pins, Groups!OneReaper
  <1>5. Groups!OneReaper'
    BY DEF Groups!OneReaper, Groups!AnchorPins, Groups!Pins
  <1>6. Groups!GroupHoldsScope'
    BY DEF Groups!GroupHoldsScope, Groups!Stays, Groups!AnchorPins, Groups!Pins,
           Groups!OneReaper
  <1>7. Groups!NoStrangerSignalled'
    BY DEF Groups!NoStrangerSignalled
  <1>8. Groups!RootsAreOwned'
    BY DEF Groups!RootsAreOwned, Groups!OneReaper
  <1> QED
    BY <1>1, <1>2, <1>3, <1>4, <1>5, <1>6, <1>7, <1>8

\* The host program has reaped the root.
LEMMA GroupsRootStolen ==
  ASSUME Groups!IndInv, NEW n \in Num, Groups!RootStolen(n)
  PROVE  Groups!IndInv'
  <1> USE InfraAssumption DEF Groups!IndInv, Groups!TypeOK, Groups!RootStolen,
                              Groups!Vanish, Groups!callVars
  <1>1. Groups!TypeOK'
    BY DEF Groups!OneReaper
  <1>2. Groups!GroupsLed'
    BY DEF Groups!GroupsLed, Groups!AnchorPins, Groups!Pins
  <1>3. Groups!GroupsAreDisjoint'
    BY DEF Groups!GroupsAreDisjoint, Groups!AnchorPins, Groups!Pins, Groups!GroupsLed
  <1>4. Groups!AnchorPins'
    BY DEF Groups!AnchorPins, Groups!Pins, Groups!OneReaper
  <1>5. Groups!OneReaper'
    BY DEF Groups!OneReaper, Groups!AnchorPins, Groups!Pins
  <1>6. Groups!GroupHoldsScope'
    BY DEF Groups!GroupHoldsScope, Groups!Stays, Groups!AnchorPins, Groups!Pins,
           Groups!OneReaper
  <1>7. Groups!NoStrangerSignalled'
    BY DEF Groups!NoStrangerSignalled
  <1>8. Groups!RootsAreOwned'
    BY DEF Groups!RootsAreOwned, Groups!OneReaper
  <1> QED
    BY <1>1, <1>2, <1>3, <1>4, <1>5, <1>6, <1>7, <1>8

\* A queued retry wakes a parked task.
LEMMA GroupsUnpark ==
  ASSUME Groups!IndInv, NEW n \in Num, Groups!Unpark(n)
  PROVE  Groups!IndInv'
  <1> USE InfraAssumption DEF Groups!IndInv, Groups!TypeOK, Groups!Unpark,
                              Groups!kernelVars, Groups!groupVars, Groups!callVars
  <1>1. Groups!TypeOK'
    BY DEF Groups!OneReaper
  <1>2. Groups!GroupsLed'
    BY DEF Groups!GroupsLed, Groups!AnchorPins, Groups!Pins
  <1>3. Groups!GroupsAreDisjoint'
    BY DEF Groups!GroupsAreDisjoint, Groups!AnchorPins, Groups!Pins, Groups!GroupsLed
  <1>4. Groups!AnchorPins'
    BY DEF Groups!AnchorPins, Groups!Pins, Groups!OneReaper
  <1>5. Groups!OneReaper'
    BY DEF Groups!OneReaper, Groups!AnchorPins, Groups!Pins
  <1>6. Groups!GroupHoldsScope'
    BY DEF Groups!GroupHoldsScope, Groups!Stays, Groups!AnchorPins, Groups!Pins,
           Groups!OneReaper
  <1>7. Groups!NoStrangerSignalled'
    BY DEF Groups!NoStrangerSignalled
  <1>8. Groups!RootsAreOwned'
    BY DEF Groups!RootsAreOwned, Groups!OneReaper
  <1> QED
    BY <1>1, <1>2, <1>3, <1>4, <1>5, <1>6, <1>7, <1>8

\* A caller of wait queues a retry.
LEMMA GroupsWaitAgain ==
  ASSUME Groups!IndInv, NEW n \in Num, Groups!WaitAgain(n)
  PROVE  Groups!IndInv'
  <1> USE InfraAssumption DEF Groups!IndInv, Groups!TypeOK, Groups!WaitAgain,
                              Groups!kernelVars, Groups!groupVars, Groups!callVars
  <1>1. Groups!TypeOK'
    BY DEF Groups!OneReaper
  <1>2. Groups!GroupsLed'
    BY DEF Groups!GroupsLed, Groups!AnchorPins, Groups!Pins
  <1>3. Groups!GroupsAreDisjoint'
    BY DEF Groups!GroupsAreDisjoint, Groups!AnchorPins, Groups!Pins, Groups!GroupsLed
  <1>4. Groups!AnchorPins'
    BY DEF Groups!AnchorPins, Groups!Pins, Groups!OneReaper
  <1>5. Groups!OneReaper'
    BY DEF Groups!OneReaper, Groups!AnchorPins, Groups!Pins
  <1>6. Groups!GroupHoldsScope'
    BY DEF Groups!GroupHoldsScope, Groups!Stays, Groups!AnchorPins, Groups!Pins,
           Groups!OneReaper
  <1>7. Groups!NoStrangerSignalled'
    BY DEF Groups!NoStrangerSignalled
  <1>8. Groups!RootsAreOwned'
    BY DEF Groups!RootsAreOwned, Groups!OneReaper
  <1> QED
    BY <1>1, <1>2, <1>3, <1>4, <1>5, <1>6, <1>7, <1>8

\* A cleanup begins when no spawn uses the scope.
LEMMA GroupsCleanupBegin ==
  ASSUME Groups!IndInv, NEW s \in Scope, Groups!CleanupBegin(s)
  PROVE  Groups!IndInv'
  <1> USE InfraAssumption DEF Groups!IndInv, Groups!TypeOK, Groups!CleanupBegin,
                              Groups!kernelVars, Groups!groupVars, Groups!workerVars
  <1>1. Groups!TypeOK'
    BY DEF Groups!OneReaper
  <1>2. Groups!GroupsLed'
    BY DEF Groups!GroupsLed, Groups!AnchorPins, Groups!Pins
  <1>3. Groups!GroupsAreDisjoint'
    BY DEF Groups!GroupsAreDisjoint, Groups!AnchorPins, Groups!Pins, Groups!GroupsLed
  <1>4. Groups!AnchorPins'
    BY DEF Groups!AnchorPins, Groups!Pins, Groups!OneReaper
  <1>5. Groups!OneReaper'
    BY DEF Groups!OneReaper, Groups!AnchorPins, Groups!Pins
  <1>6. Groups!GroupHoldsScope'
    BY DEF Groups!GroupHoldsScope, Groups!Stays, Groups!AnchorPins, Groups!Pins,
           Groups!OneReaper
  <1>7. Groups!NoStrangerSignalled'
    BY DEF Groups!NoStrangerSignalled
  <1>8. Groups!RootsAreOwned'
    BY DEF Groups!RootsAreOwned, Groups!OneReaper
  <1> QED
    BY <1>1, <1>2, <1>3, <1>4, <1>5, <1>6, <1>7, <1>8

\* A cleanup retires a scope that has no anchor, or whose anchor is reaped.
LEMMA GroupsCleanupRetire ==
  ASSUME Groups!IndInv, NEW s \in Scope, Groups!CleanupRetire(s)
  PROVE  Groups!IndInv'
  <1> USE InfraAssumption DEF Groups!IndInv, Groups!TypeOK, Groups!CleanupRetire,
                              Groups!AnchorGone, Groups!kernelVars, Groups!workerVars
  <1>1. Groups!TypeOK'
    BY DEF Groups!OneReaper
  <1>2. Groups!GroupsLed'
    BY DEF Groups!GroupsLed, Groups!AnchorPins, Groups!Pins
  <1>3. Groups!GroupsAreDisjoint'
    BY DEF Groups!GroupsAreDisjoint, Groups!AnchorPins, Groups!Pins, Groups!GroupsLed
  <1>4. Groups!AnchorPins'
    BY DEF Groups!AnchorPins, Groups!Pins, Groups!OneReaper
  <1>5. Groups!OneReaper'
    BY DEF Groups!OneReaper, Groups!AnchorPins, Groups!Pins
  <1>6. Groups!GroupHoldsScope'
    BY DEF Groups!GroupHoldsScope, Groups!Stays, Groups!AnchorPins, Groups!Pins,
           Groups!OneReaper
  <1>7. Groups!NoStrangerSignalled'
    BY DEF Groups!NoStrangerSignalled
  <1>8. Groups!RootsAreOwned'
    BY DEF Groups!RootsAreOwned, Groups!OneReaper
  <1> QED
    BY <1>1, <1>2, <1>3, <1>4, <1>5, <1>6, <1>7, <1>8

\* A cleanup that gives up retires nothing.
LEMMA GroupsCleanupFails ==
  ASSUME Groups!IndInv, NEW s \in Scope, Groups!CleanupFails(s)
  PROVE  Groups!IndInv'
  <1> USE InfraAssumption DEF Groups!IndInv, Groups!TypeOK, Groups!CleanupFails,
                              Groups!kernelVars, Groups!groupVars, Groups!workerVars
  <1>1. Groups!TypeOK'
    BY DEF Groups!OneReaper
  <1>2. Groups!GroupsLed'
    BY DEF Groups!GroupsLed, Groups!AnchorPins, Groups!Pins
  <1>3. Groups!GroupsAreDisjoint'
    BY DEF Groups!GroupsAreDisjoint, Groups!AnchorPins, Groups!Pins, Groups!GroupsLed
  <1>4. Groups!AnchorPins'
    BY DEF Groups!AnchorPins, Groups!Pins, Groups!OneReaper
  <1>5. Groups!OneReaper'
    BY DEF Groups!OneReaper, Groups!AnchorPins, Groups!Pins
  <1>6. Groups!GroupHoldsScope'
    BY DEF Groups!GroupHoldsScope, Groups!Stays, Groups!AnchorPins, Groups!Pins,
           Groups!OneReaper
  <1>7. Groups!NoStrangerSignalled'
    BY DEF Groups!NoStrangerSignalled
  <1>8. Groups!RootsAreOwned'
    BY DEF Groups!RootsAreOwned, Groups!OneReaper
  <1> QED
    BY <1>1, <1>2, <1>3, <1>4, <1>5, <1>6, <1>7, <1>8

\* Every step of the process groups keeps the invariant.
LEMMA GroupsNext ==
  ASSUME Groups!IndInv, [Groups!Next]_(Groups!vars)
  PROVE  Groups!IndInv'
  <1>1. CASE UNCHANGED Groups!vars
    BY <1>1
       DEF Groups!vars, Groups!kernelVars, Groups!groupVars, Groups!workerVars,
           Groups!callVars, Groups!IndInv, Groups!TypeOK, Groups!GroupsLed,
           Groups!GroupsAreDisjoint, Groups!AnchorPins, Groups!Pins,
           Groups!OneReaper, Groups!GroupHoldsScope, Groups!Stays,
           Groups!NoStrangerSignalled, Groups!RootsAreOwned
  <1>2. ASSUME NEW n \in Num,
               \/ Groups!ForeignStart(n) \/ Groups!Escape(n) \/ Groups!End(n)
               \/ Groups!OrphanReap(n) \/ Groups!RootReap(n)
               \/ Groups!RootWaitFails(n) \/ Groups!RootStolen(n)
               \/ Groups!Unpark(n) \/ Groups!WaitAgain(n)
        PROVE  Groups!IndInv'
    BY <1>2, GroupsForeignStart, GroupsEscape, GroupsEnd, GroupsOrphanReap,
       GroupsRootReap, GroupsRootWaitFails, GroupsRootStolen, GroupsUnpark,
       GroupsWaitAgain
  <1>3. ASSUME NEW s \in Scope,
               \/ Groups!SpawnBegin(s) \/ Groups!EnsureAnchor(s)
               \/ Groups!SpawnJoinFails(s) \/ Groups!Register(s)
               \/ Groups!SpawnPipeFails(s) \/ Groups!PublishReaped(s)
               \/ Groups!CleanupBegin(s) \/ Groups!CleanupKill(s)
               \/ Groups!CleanupRetire(s) \/ Groups!CleanupFails(s)
               \/ Groups!PollExit(s) \/ Groups!PollStolen(s)
               \/ Groups!AnchorWaitDrop(s)
        PROVE  Groups!IndInv'
    BY <1>3, GroupsSpawnBegin, GroupsEnsureAnchor, GroupsSpawnJoinFails,
       GroupsRegister, GroupsSpawnPipeFails, GroupsPublishReaped,
       GroupsCleanupBegin, GroupsCleanupKill, GroupsCleanupRetire,
       GroupsCleanupFails, GroupsPollExit, GroupsPollStolen, GroupsAnchorWaitDrop
  <1>4. ASSUME NEW ss \in SUBSET Scope, Groups!HardKill(ss)
        PROVE  Groups!IndInv'
    BY <1>4, GroupsHardKill
  <1>5. ASSUME NEW p \in Num, NEW n \in Num, Groups!Fork(p, n)
        PROVE  Groups!IndInv'
    BY <1>5, GroupsFork
  <1>6. ASSUME NEW s \in Scope, NEW n \in Num,
               Groups!ForkAnchor(s, n) \/ Groups!SpawnJoin(s, n)
        PROVE  Groups!IndInv'
    BY <1>6, GroupsForkAnchor, GroupsSpawnJoin
  <1>7. CASE Groups!RuntimeDown
    BY <1>7, GroupsRuntimeDown
  <1>8. \A s \in Scope : {s} \in SUBSET Scope
    OBVIOUS
  <1>9. Scope \in SUBSET Scope
    OBVIOUS
  <1> QED
    BY <1>1, <1>2, <1>3, <1>4, <1>5, <1>6, <1>7, <1>8, <1>9 DEF Groups!Next

\* The invariant of the process groups holds for any number of scopes and
\* process numbers, however the kernel recycles them, and any bounds.
THEOREM GroupsInvariant == Groups!Spec => []Groups!IndInv
  <1>1. Groups!IndInv /\ [Groups!Next]_(Groups!vars) => Groups!IndInv'
    BY GroupsNext
  <1> QED
    BY <1>1, GroupsStart, PTL DEF Groups!Spec

\* cleanup_scope with process groups: once it has returned Ok no process of the
\* scope is runnable, but for those that left the group, and the anchor is reaped.
THEOREM CleanedGroupIsSwept == Groups!Spec => []Groups!CleanedScopeIsSwept
  <1>1. Groups!IndInv => Groups!CleanedScopeIsSwept
    BY InfraAssumption
       DEF Groups!IndInv, Groups!TypeOK, Groups!AnchorPins, Groups!GroupHoldsScope,
           Groups!Stays, Groups!CleanedScopeIsSwept
  <1> QED
    BY <1>1, GroupsInvariant, PTL

\* Containment by process groups: no group mixes two scopes, or ours with a
\* stranger's, and a root is in the hands of its spawn, its waiter task or a
\* reaper thread until it is reaped.
THEOREM GroupsContain ==
  Groups!Spec => [](Groups!GroupsAreDisjoint /\ Groups!RootsAreOwned)
  <1>1. Groups!IndInv => Groups!GroupsAreDisjoint /\ Groups!RootsAreOwned
    BY DEF Groups!IndInv
  <1> QED
    BY <1>1, GroupsInvariant, PTL

\* A number that was free comes to life as a root of scope s only when s has not
\* been killed.
LEMMA JoinNeedsOpenGroup ==
  ASSUME Groups!IndInv, Groups!Next, NEW s \in Scope, s \in killed, NEW n \in Num,
         st[n] = "free", kind'[n] = "root", own'[n] = s
  PROVE  st'[n] = "free"
  <1> USE DEF Groups!IndInv, Groups!TypeOK
  <1>1. ASSUME NEW m \in Num,
               \/ Groups!ForeignStart(m) \/ Groups!Escape(m) \/ Groups!End(m)
               \/ Groups!OrphanReap(m) \/ Groups!RootReap(m)
               \/ Groups!RootWaitFails(m) \/ Groups!RootStolen(m)
               \/ Groups!Unpark(m) \/ Groups!WaitAgain(m)
        PROVE  st'[n] = "free"
    BY <1>1
       DEF Groups!ForeignStart, Groups!Appear, Groups!Escape, Groups!End,
           Groups!Vanish, Groups!OrphanReap, Groups!RootReap, Groups!RootWaitFails,
           Groups!RootStolen, Groups!Unpark, Groups!WaitAgain, Groups!kernelVars
  <1>2. ASSUME NEW q \in Scope,
               \/ Groups!SpawnBegin(q) \/ Groups!EnsureAnchor(q)
               \/ Groups!SpawnJoinFails(q) \/ Groups!Register(q)
               \/ Groups!SpawnPipeFails(q) \/ Groups!PublishReaped(q)
               \/ Groups!CleanupBegin(q) \/ Groups!CleanupRetire(q)
               \/ Groups!CleanupFails(q) \/ Groups!PollExit(q)
               \/ Groups!PollStolen(q) \/ Groups!AnchorWaitDrop(q)
        PROVE  st'[n] = "free"
    BY <1>2
       DEF Groups!SpawnBegin, Groups!EnsureAnchor, Groups!SpawnJoinFails,
           Groups!Register, Groups!SpawnPipeFails, Groups!Doomed,
           Groups!PublishReaped, Groups!CleanupBegin, Groups!CleanupRetire,
           Groups!CleanupFails, Groups!PollExit, Groups!PollStolen, Groups!Vanish,
           Groups!AnchorWaitDrop, Groups!kernelVars
  <1>3. ASSUME NEW ss \in SUBSET Scope, NEW rs \in SUBSET Num,
               Groups!KillScopes(ss, rs)
        PROVE  st'[n] = "free"
    BY <1>3, GroupKill
  <1>4. ASSUME NEW q \in Scope, Groups!CleanupKill(q) PROVE st'[n] = "free"
    <2>1. {q} \in SUBSET Scope /\ {} \in SUBSET Num
      OBVIOUS
    <2> QED
      BY <1>3, <1>4, <2>1 DEF Groups!CleanupKill
  <1>5. ASSUME NEW ss \in SUBSET Scope, Groups!HardKill(ss) PROVE st'[n] = "free"
    <2>1. Groups!Registered(ss) \in SUBSET Num
      BY DEF Groups!Registered
    <2> QED
      BY <1>3, <1>5, <2>1 DEF Groups!HardKill
  <1>6. ASSUME NEW p \in Num, NEW m \in Num, Groups!Fork(p, m)
        PROVE  st'[n] = "free"
    BY <1>6 DEF Groups!Fork, Groups!Appear
  <1>7. ASSUME NEW q \in Scope, NEW m \in Num,
               Groups!ForkAnchor(q, m) \/ Groups!SpawnJoin(q, m)
        PROVE  st'[n] = "free"
    BY <1>7 DEF Groups!ForkAnchor, Groups!SpawnJoin, Groups!Joinable, Groups!Appear
  <1>8. CASE Groups!RuntimeDown
    BY <1>8 DEF Groups!RuntimeDown, Groups!kernelVars
  <1>9. \A q \in Scope : {q} \in SUBSET Scope
    OBVIOUS
  <1>10. Scope \in SUBSET Scope
    OBVIOUS
  <1> QED
    BY <1>1, <1>2, <1>4, <1>5, <1>6, <1>7, <1>8, <1>9, <1>10 DEF Groups!Next

\* No root enters the group of a scope once the group was killed: kill_issued
\* closes admission until cleanup has retired the group, whichever spawn had
\* looked at the anchor before the kill.
THEOREM KilledGroupIsClosed == Groups!Spec => Groups!NoJoinAfterKill
  <1>1. Groups!IndInv /\ [Groups!Next]_(Groups!vars) =>
          [\A s \in Scope : s \in killed =>
             \A n \in Num : kind'[n] = "root" /\ own'[n] = s /\ st'[n] # "free" =>
                              st[n] # "free"]_(Groups!vars)
    BY JoinNeedsOpenGroup DEF Groups!IndInv, Groups!TypeOK
  <1> QED
    BY <1>1, GroupsInvariant, PTL DEF Groups!Spec, Groups!NoJoinAfterKill

-----------------------------------------------------------------------------
(* Waiting for a child.  A slot is keyed by number and token (SlotIsKeyed),  *)
(* so a call subscribes to its own child, or, if the token is unavailable,   *)
(* to another one of that number without a token; what the waiter task       *)
(* publishes is what became of the child (WorkerKnows); and a failure that a *)
(* call can read is newer than the call (CallKnows).                         *)

\* The invariant holds initially.
LEMMA ChildInit == Children!Init => Children!IndInv
  BY InfraAssumption
     DEF Children!Init, Children!IndInv, Children!TypeOK, Children!SlotIsKeyed,
         Children!WorkerKnows, Children!CallKnows, Children!ExitIsOwn,
         Children!ErrorIsFresh, Children!SlotKeptUntilReaped, Children!Slot,
         Children!Key, Children!ChildKey

\* A new instance gets a key no living instance has: its token is its own, or
\* unavailable, and then it takes the slot of a reaped or lost one over.
LEMMA ChildSpawn ==
  ASSUME Children!IndInv, NEW c \in Child, NEW n \in ChildNum, Children!Spawn(c, n)
  PROVE  Children!IndInv'
  <1> USE InfraAssumption DEF Children!IndInv, Children!TypeOK, Children!Spawn,
                              Children!ChildKey, Children!callVars
  <1>a. PICK t \in {c, NoChild} : token' = [token EXCEPT ![c] = t]
    OBVIOUS
  <1>b. /\ <<n, t>> \in Children!Key /\ num[c] = NoNum
        /\ children' = [children EXCEPT ![<<n, t>>] = c]
        /\ num'[c] = n /\ token'[c] = t
        /\ \A d \in Child \ {c} : num'[d] = num[d] /\ token'[d] = token[d]
    BY <1>a DEF Children!Key, Children!WorkerKnows
  <1>1. Children!TypeOK'
    BY DEF Children!TypeOK, Children!Key, Children!WorkerKnows, Children!CallKnows,
           Children!Slot, Children!SlotIsKeyed
  <1>2. Children!SlotIsKeyed'
    <2> SUFFICES ASSUME NEW k \in Children!Key', children'[k] # NoChild
                 PROVE  Children!ChildKey(children[k])' = k
      BY DEF Children!SlotIsKeyed
    <2>1. k \in Children!Key
      BY DEF Children!Key
    <2>2. CASE k = <<n, t>>
      BY <2>1, <2>2, <1>b
    <2>3. CASE k # <<n, t>>
      <3>1. children'[k] = children[k] /\ children[k] \in Child
        BY <2>1, <2>3, <1>b
      <3>2. <<num[children[k]], token[children[k]]>> = k
        BY <2>1, <3>1 DEF Children!SlotIsKeyed
      <3>3. num[children[k]] \in ChildNum
        BY <2>1, <3>2 DEF Children!Key
      <3> QED
        BY <3>1, <3>2, <3>3, <1>b
    <2> QED
      BY <2>2, <2>3
  <1>3. Children!WorkerKnows'
    BY DEF Children!WorkerKnows, Children!ChildIsGivenUp, Children!Slot,
           Children!ChildKey, Children!Key, Children!SlotIsKeyed, Children!CallKnows
  <1>4. Children!CallKnows'
    <2>1. \A w \in Caller :
            Children!SameKey(subscribed[w], asked[w]) /\ num[asked[w]] \in ChildNum
              => Children!SameKey(subscribed[w], asked[w])' /\ num'[asked[w]] \in ChildNum
      BY <1>b DEF Children!SameKey
    <2>2. \A w \in Caller :
            Children!SameKey(subscribed[w], asked[w]) /\ num[asked[w]] \in ChildNum
              => subscribed[w] \in Child \ {c}
      BY <1>b DEF Children!SameKey
    <2> QED
      BY <2>1, <2>2 DEF Children!CallKnows
  <1>5. Children!ExitIsOwn'
    BY DEF Children!ExitIsOwn, Children!CallKnows, Children!SameKey,
           Children!WorkerKnows, Children!Slot, Children!ChildKey
  <1>6. Children!ErrorIsFresh'
    BY DEF Children!ErrorIsFresh, Children!CallKnows, Children!WorkerKnows
  <1>7. Children!SlotKeptUntilReaped'
    <2> SUFFICES ASSUME NEW d \in Child
                 PROVE  /\ os'[d] \in {"live", "zombie", "stolen"} /\ token'[d] # NoChild
                             => Children!Slot(d)' = d
                        /\ os'[d] \in {"live", "zombie"} => Children!Slot(d)' \in {d, NoChild}
      BY DEF Children!SlotKeptUntilReaped
    <2>1. CASE d = c
      BY <2>1, <1>b DEF Children!Slot
    <2>2. CASE d # c
      <3>1. Children!Slot(d)' = IF num[d] = n /\ token[d] = t THEN c ELSE Children!Slot(d)
        BY <2>2, <1>b DEF Children!Slot, Children!Key, Children!WorkerKnows
      <3>2. os[d] \in {"live", "zombie"} => num[d] # n
        BY DEF Children!Free
      <3>3. token[d] # NoChild => token[d] # t
        BY <2>2, <1>a
      <3> QED
        BY <2>2, <3>1, <3>2, <3>3, <1>b DEF Children!SlotKeptUntilReaped
    <2> QED
      BY <2>1, <2>2
  <1> QED
    BY <1>1, <1>2, <1>3, <1>4, <1>5, <1>6, <1>7

\* A child ends.
LEMMA ChildExit ==
  ASSUME Children!IndInv, NEW c \in Child, Children!Exit(c)
  PROVE  Children!IndInv'
  <1> USE InfraAssumption DEF Children!IndInv, Children!TypeOK, Children!Exit,
                              Children!taskVars, Children!callVars
  <1>1. Children!TypeOK'
    BY DEF Children!TypeOK, Children!Key, Children!WorkerKnows, Children!CallKnows,
           Children!Slot, Children!ChildKey, Children!SlotIsKeyed
  <1>2. Children!SlotIsKeyed'
    BY DEF Children!SlotIsKeyed, Children!Key, Children!ChildKey, Children!CallKnows
  <1>3. Children!WorkerKnows'
    BY DEF Children!WorkerKnows, Children!ChildIsGivenUp, Children!Slot,
           Children!ChildKey, Children!Key, Children!SlotIsKeyed, Children!CallKnows
  <1>4. Children!CallKnows'
    BY DEF Children!CallKnows, Children!SameKey, Children!WorkerKnows,
           Children!ChildIsGivenUp, Children!Slot, Children!SlotIsKeyed, Children!Key, Children!ChildKey
  <1>5. Children!ExitIsOwn'
    BY DEF Children!ExitIsOwn, Children!CallKnows, Children!SameKey,
           Children!WorkerKnows, Children!Slot, Children!ChildKey
  <1>6. Children!ErrorIsFresh'
    BY DEF Children!ErrorIsFresh, Children!CallKnows, Children!WorkerKnows
  <1>7. Children!SlotKeptUntilReaped'
    BY DEF Children!SlotKeptUntilReaped, Children!Slot, Children!ChildKey,
           Children!Key, Children!CallKnows, Children!WorkerKnows
  <1> QED
    BY <1>1, <1>2, <1>3, <1>4, <1>5, <1>6, <1>7

\* The host program takes a child away.
LEMMA ChildHostReap ==
  ASSUME Children!IndInv, NEW c \in Child, Children!HostReap(c)
  PROVE  Children!IndInv'
  <1> USE InfraAssumption DEF Children!IndInv, Children!TypeOK, Children!HostReap,
                              Children!taskVars, Children!callVars
  <1>1. Children!TypeOK'
    BY DEF Children!TypeOK, Children!Key, Children!WorkerKnows, Children!CallKnows,
           Children!Slot, Children!ChildKey, Children!SlotIsKeyed
  <1>2. Children!SlotIsKeyed'
    BY DEF Children!SlotIsKeyed, Children!Key, Children!ChildKey, Children!CallKnows
  <1>3. Children!WorkerKnows'
    BY DEF Children!WorkerKnows, Children!ChildIsGivenUp, Children!Slot,
           Children!ChildKey, Children!Key, Children!SlotIsKeyed, Children!CallKnows
  <1>4. Children!CallKnows'
    BY DEF Children!CallKnows, Children!SameKey, Children!WorkerKnows,
           Children!ChildIsGivenUp, Children!Slot, Children!SlotIsKeyed, Children!Key, Children!ChildKey
  <1>5. Children!ExitIsOwn'
    BY DEF Children!ExitIsOwn, Children!CallKnows, Children!SameKey,
           Children!WorkerKnows, Children!Slot, Children!ChildKey
  <1>6. Children!ErrorIsFresh'
    BY DEF Children!ErrorIsFresh, Children!CallKnows, Children!WorkerKnows
  <1>7. Children!SlotKeptUntilReaped'
    BY DEF Children!SlotKeptUntilReaped, Children!Slot, Children!ChildKey,
           Children!Key, Children!CallKnows, Children!WorkerKnows
  <1> QED
    BY <1>1, <1>2, <1>3, <1>4, <1>5, <1>6, <1>7

\* The waiter task reaps the child that it owns.
LEMMA ChildWaitOk ==
  ASSUME Children!IndInv, NEW c \in Child, Children!WaitOk(c)
  PROVE  Children!IndInv'
  <1> USE InfraAssumption DEF Children!IndInv, Children!TypeOK, Children!WaitOk,
                              Children!Attempt, Children!callVars
  <1>1. Children!TypeOK'
    BY DEF Children!TypeOK, Children!Key, Children!WorkerKnows, Children!CallKnows,
           Children!Slot, Children!ChildKey, Children!SlotIsKeyed
  <1>2. Children!SlotIsKeyed'
    BY DEF Children!SlotIsKeyed, Children!Key, Children!ChildKey, Children!CallKnows
  <1>3. Children!WorkerKnows'
    BY DEF Children!WorkerKnows, Children!ChildIsGivenUp, Children!Slot,
           Children!ChildKey, Children!Key, Children!SlotIsKeyed, Children!CallKnows
  <1>4. Children!CallKnows'
    BY DEF Children!CallKnows, Children!SameKey, Children!WorkerKnows,
           Children!ChildIsGivenUp, Children!Slot, Children!SlotIsKeyed, Children!Key, Children!ChildKey
  <1>5. Children!ExitIsOwn'
    BY DEF Children!ExitIsOwn, Children!CallKnows, Children!SameKey,
           Children!WorkerKnows, Children!Slot, Children!ChildKey
  <1>6. Children!ErrorIsFresh'
    BY DEF Children!ErrorIsFresh, Children!CallKnows, Children!WorkerKnows
  <1>7. Children!SlotKeptUntilReaped'
    BY DEF Children!SlotKeptUntilReaped, Children!Slot, Children!ChildKey,
           Children!Key, Children!CallKnows, Children!WorkerKnows
  <1> QED
    BY <1>1, <1>2, <1>3, <1>4, <1>5, <1>6, <1>7

\* An attempt fails and the child stays its own.
LEMMA ChildWaitErr ==
  ASSUME Children!IndInv, NEW c \in Child, Children!WaitErr(c)
  PROVE  Children!IndInv'
  <1> USE InfraAssumption DEF Children!IndInv, Children!TypeOK, Children!WaitErr,
                              Children!Attempt, Children!callVars
  <1>1. Children!TypeOK'
    BY DEF Children!TypeOK, Children!Key, Children!WorkerKnows, Children!CallKnows,
           Children!Slot, Children!ChildKey, Children!SlotIsKeyed
  <1>2. Children!SlotIsKeyed'
    BY DEF Children!SlotIsKeyed, Children!Key, Children!ChildKey, Children!CallKnows
  <1>3. Children!WorkerKnows'
    BY DEF Children!WorkerKnows, Children!ChildIsGivenUp, Children!Slot,
           Children!ChildKey, Children!Key, Children!SlotIsKeyed, Children!CallKnows
  <1>4. Children!CallKnows'
    BY DEF Children!CallKnows, Children!SameKey, Children!WorkerKnows,
           Children!ChildIsGivenUp, Children!Slot, Children!SlotIsKeyed, Children!Key, Children!ChildKey
  <1>5. Children!ExitIsOwn'
    BY DEF Children!ExitIsOwn, Children!CallKnows, Children!SameKey,
           Children!WorkerKnows, Children!Slot, Children!ChildKey
  <1>6. Children!ErrorIsFresh'
    BY DEF Children!ErrorIsFresh, Children!CallKnows, Children!WorkerKnows
  <1>7. Children!SlotKeptUntilReaped'
    BY DEF Children!SlotKeptUntilReaped, Children!Slot, Children!ChildKey,
           Children!Key, Children!CallKnows, Children!WorkerKnows
  <1> QED
    BY <1>1, <1>2, <1>3, <1>4, <1>5, <1>6, <1>7

\* The child is given up only when somebody else has reaped it.
LEMMA ChildWaitLost ==
  ASSUME Children!IndInv, NEW c \in Child, Children!WaitLost(c)
  PROVE  Children!IndInv'
  <1> USE InfraAssumption DEF Children!IndInv, Children!TypeOK, Children!WaitLost,
                              Children!Attempt, Children!callVars
  <1>1. Children!TypeOK'
    BY DEF Children!TypeOK, Children!Key, Children!WorkerKnows, Children!CallKnows,
           Children!Slot, Children!ChildKey, Children!SlotIsKeyed
  <1>2. Children!SlotIsKeyed'
    BY DEF Children!SlotIsKeyed, Children!Key, Children!ChildKey, Children!CallKnows
  <1>3. Children!WorkerKnows'
    BY DEF Children!WorkerKnows, Children!ChildIsGivenUp, Children!Slot,
           Children!ChildKey, Children!Key, Children!SlotIsKeyed, Children!CallKnows
  <1>4. Children!CallKnows'
    BY DEF Children!CallKnows, Children!SameKey, Children!WorkerKnows,
           Children!ChildIsGivenUp, Children!Slot, Children!SlotIsKeyed, Children!Key, Children!ChildKey
  <1>5. Children!ExitIsOwn'
    BY DEF Children!ExitIsOwn, Children!CallKnows, Children!SameKey,
           Children!WorkerKnows, Children!Slot, Children!ChildKey
  <1>6. Children!ErrorIsFresh'
    BY DEF Children!ErrorIsFresh, Children!CallKnows, Children!WorkerKnows
  <1>7. Children!SlotKeptUntilReaped'
    BY DEF Children!SlotKeptUntilReaped, Children!Slot, Children!ChildKey,
           Children!Key, Children!CallKnows, Children!WorkerKnows
  <1> QED
    BY <1>1, <1>2, <1>3, <1>4, <1>5, <1>6, <1>7

\* A failure is fresh to every call that is under way.
LEMMA ChildPublish ==
  ASSUME Children!IndInv, NEW c \in Child, Children!Publish(c)
  PROVE  Children!IndInv'
  <1> USE InfraAssumption DEF Children!IndInv, Children!TypeOK, Children!Publish,
                              Children!Watching, Children!childVars
  <1>1. Children!TypeOK'
    BY DEF Children!TypeOK, Children!Key, Children!WorkerKnows, Children!CallKnows,
           Children!Slot, Children!ChildKey, Children!SlotIsKeyed
  <1>2. Children!SlotIsKeyed'
    BY DEF Children!SlotIsKeyed, Children!Key, Children!ChildKey, Children!CallKnows
  <1>3. Children!WorkerKnows'
    BY DEF Children!WorkerKnows, Children!ChildIsGivenUp, Children!Slot,
           Children!ChildKey, Children!Key, Children!SlotIsKeyed, Children!CallKnows
  <1>4. Children!CallKnows'
    BY DEF Children!CallKnows, Children!SameKey, Children!WorkerKnows,
           Children!ChildIsGivenUp, Children!Slot, Children!SlotIsKeyed, Children!Key, Children!ChildKey
  <1>5. Children!ExitIsOwn'
    BY DEF Children!ExitIsOwn, Children!CallKnows, Children!SameKey,
           Children!WorkerKnows, Children!Slot, Children!ChildKey
  <1>6. Children!ErrorIsFresh'
    BY DEF Children!ErrorIsFresh, Children!CallKnows, Children!WorkerKnows
  <1>7. Children!SlotKeptUntilReaped'
    BY DEF Children!SlotKeptUntilReaped, Children!Slot, Children!ChildKey,
           Children!Key, Children!CallKnows, Children!WorkerKnows
  <1> QED
    BY <1>1, <1>2, <1>3, <1>4, <1>5, <1>6, <1>7

\* A parked task tries again.
LEMMA ChildRetry ==
  ASSUME Children!IndInv, NEW c \in Child, Children!Retry(c)
  PROVE  Children!IndInv'
  <1> USE InfraAssumption DEF Children!IndInv, Children!TypeOK, Children!Retry,
                              Children!childVars, Children!callVars
  <1>1. Children!TypeOK'
    BY DEF Children!TypeOK, Children!Key, Children!WorkerKnows, Children!CallKnows,
           Children!Slot, Children!ChildKey, Children!SlotIsKeyed
  <1>2. Children!SlotIsKeyed'
    BY DEF Children!SlotIsKeyed, Children!Key, Children!ChildKey, Children!CallKnows
  <1>3. Children!WorkerKnows'
    BY DEF Children!WorkerKnows, Children!ChildIsGivenUp, Children!Slot,
           Children!ChildKey, Children!Key, Children!SlotIsKeyed, Children!CallKnows
  <1>4. Children!CallKnows'
    BY DEF Children!CallKnows, Children!SameKey, Children!WorkerKnows,
           Children!ChildIsGivenUp, Children!Slot, Children!SlotIsKeyed, Children!Key, Children!ChildKey
  <1>5. Children!ExitIsOwn'
    BY DEF Children!ExitIsOwn, Children!CallKnows, Children!SameKey,
           Children!WorkerKnows, Children!Slot, Children!ChildKey
  <1>6. Children!ErrorIsFresh'
    BY DEF Children!ErrorIsFresh, Children!CallKnows, Children!WorkerKnows
  <1>7. Children!SlotKeptUntilReaped'
    BY DEF Children!SlotKeptUntilReaped, Children!Slot, Children!ChildKey,
           Children!Key, Children!CallKnows, Children!WorkerKnows
  <1> QED
    BY <1>1, <1>2, <1>3, <1>4, <1>5, <1>6, <1>7

\* The retry channel closes after a verdict.
LEMMA ChildClose ==
  ASSUME Children!IndInv, NEW c \in Child, Children!Close(c)
  PROVE  Children!IndInv'
  <1> USE InfraAssumption DEF Children!IndInv, Children!TypeOK, Children!Close,
                              Children!childVars, Children!callVars
  <1>1. Children!TypeOK'
    BY DEF Children!TypeOK, Children!Key, Children!WorkerKnows, Children!CallKnows,
           Children!Slot, Children!ChildKey, Children!SlotIsKeyed
  <1>2. Children!SlotIsKeyed'
    BY DEF Children!SlotIsKeyed, Children!Key, Children!ChildKey, Children!CallKnows
  <1>3. Children!WorkerKnows'
    BY DEF Children!WorkerKnows, Children!ChildIsGivenUp, Children!Slot,
           Children!ChildKey, Children!Key, Children!SlotIsKeyed, Children!CallKnows
  <1>4. Children!CallKnows'
    <2>1. ASSUME NEW w \in Caller, pc[w] = "changed", subscribed[w] = c,
                 version[c] = seenVersion[w]
          PROVE  outcome[c] = "lost"
      <3>1. watch[c] = "err"
        BY <2>1 DEF Children!CallKnows
      <3>2. c \in queued \/ outcome[c] = "lost"
        BY <2>1 DEF Children!CallKnows
      <3>3. outcome[c] # "err" \/ c \notin queued
        BY DEF Children!WorkerKnows, Children!ChildIsGivenUp
      <3> QED
        BY <3>1, <3>2, <3>3 DEF Children!WorkerKnows
    <2> QED
      BY <2>1 DEF Children!CallKnows, Children!SameKey, Children!ChildKey
  <1>5. Children!ExitIsOwn'
    BY DEF Children!ExitIsOwn, Children!CallKnows, Children!SameKey,
           Children!WorkerKnows, Children!Slot, Children!ChildKey
  <1>6. Children!ErrorIsFresh'
    BY DEF Children!ErrorIsFresh, Children!CallKnows, Children!WorkerKnows
  <1>7. Children!SlotKeptUntilReaped'
    BY DEF Children!SlotKeptUntilReaped, Children!Slot, Children!ChildKey,
           Children!Key, Children!CallKnows, Children!WorkerKnows
  <1> QED
    BY <1>1, <1>2, <1>3, <1>4, <1>5, <1>6, <1>7

\* A kill ends a child that is not reaped.
LEMMA ChildKill ==
  ASSUME Children!IndInv, NEW c \in Child, Children!Kill(c)
  PROVE  Children!IndInv'
  <1> USE InfraAssumption DEF Children!IndInv, Children!TypeOK, Children!Kill,
                              Children!callVars
  <1>1. Children!TypeOK'
    BY DEF Children!TypeOK, Children!Key, Children!WorkerKnows, Children!CallKnows,
           Children!Slot, Children!ChildKey, Children!SlotIsKeyed
  <1>2. Children!SlotIsKeyed'
    BY DEF Children!SlotIsKeyed, Children!Key, Children!ChildKey, Children!CallKnows
  <1>3. Children!WorkerKnows'
    BY DEF Children!WorkerKnows, Children!ChildIsGivenUp, Children!Slot,
           Children!ChildKey, Children!Key, Children!SlotIsKeyed, Children!CallKnows
  <1>4. Children!CallKnows'
    BY DEF Children!CallKnows, Children!SameKey, Children!WorkerKnows,
           Children!ChildIsGivenUp, Children!Slot, Children!SlotIsKeyed, Children!Key, Children!ChildKey
  <1>5. Children!ExitIsOwn'
    BY DEF Children!ExitIsOwn, Children!CallKnows, Children!SameKey,
           Children!WorkerKnows, Children!Slot, Children!ChildKey
  <1>6. Children!ErrorIsFresh'
    BY DEF Children!ErrorIsFresh, Children!CallKnows, Children!WorkerKnows
  <1>7. Children!SlotKeptUntilReaped'
    BY DEF Children!SlotKeptUntilReaped, Children!Slot, Children!ChildKey,
           Children!Key, Children!CallKnows, Children!WorkerKnows
  <1> QED
    BY <1>1, <1>2, <1>3, <1>4, <1>5, <1>6, <1>7

\* A kill that skips its root only asks for another attempt.
LEMMA ChildKillSkips ==
  ASSUME Children!IndInv, NEW c \in Child, Children!KillSkips(c)
  PROVE  Children!IndInv'
  <1> USE InfraAssumption DEF Children!IndInv, Children!TypeOK, Children!KillSkips,
                              Children!childVars, Children!callVars
  <1>1. Children!TypeOK'
    BY DEF Children!TypeOK, Children!Key, Children!WorkerKnows, Children!CallKnows,
           Children!Slot, Children!ChildKey, Children!SlotIsKeyed
  <1>2. Children!SlotIsKeyed'
    BY DEF Children!SlotIsKeyed, Children!Key, Children!ChildKey, Children!CallKnows
  <1>3. Children!WorkerKnows'
    BY DEF Children!WorkerKnows, Children!ChildIsGivenUp, Children!Slot,
           Children!ChildKey, Children!Key, Children!SlotIsKeyed, Children!CallKnows
  <1>4. Children!CallKnows'
    BY DEF Children!CallKnows, Children!SameKey, Children!WorkerKnows,
           Children!ChildIsGivenUp, Children!Slot, Children!SlotIsKeyed, Children!Key, Children!ChildKey
  <1>5. Children!ExitIsOwn'
    BY DEF Children!ExitIsOwn, Children!CallKnows, Children!SameKey,
           Children!WorkerKnows, Children!Slot, Children!ChildKey
  <1>6. Children!ErrorIsFresh'
    BY DEF Children!ErrorIsFresh, Children!CallKnows, Children!WorkerKnows
  <1>7. Children!SlotKeptUntilReaped'
    BY DEF Children!SlotKeptUntilReaped, Children!Slot, Children!ChildKey,
           Children!Key, Children!CallKnows, Children!WorkerKnows
  <1> QED
    BY <1>1, <1>2, <1>3, <1>4, <1>5, <1>6, <1>7

\* A task ends when nobody can ask it for another attempt.
LEMMA ChildParkedEnds ==
  ASSUME Children!IndInv, NEW c \in Child, Children!ParkedEnds(c)
  PROVE  Children!IndInv'
  <1> USE InfraAssumption DEF Children!IndInv, Children!TypeOK, Children!ParkedEnds,
                              Children!childVars, Children!callVars
  <1>1. Children!TypeOK'
    BY DEF Children!TypeOK, Children!Key, Children!WorkerKnows, Children!CallKnows,
           Children!Slot, Children!ChildKey, Children!SlotIsKeyed
  <1>2. Children!SlotIsKeyed'
    BY DEF Children!SlotIsKeyed, Children!Key, Children!ChildKey, Children!CallKnows
  <1>3. Children!WorkerKnows'
    <2>1. Children!ChildIsGivenUp(c)'
      BY DEF Children!ChildIsGivenUp, Children!Slot, Children!ChildKey
    <2>2. \A d \in Child : Children!ChildIsGivenUp(d) => Children!ChildIsGivenUp(d)'
      BY DEF Children!ChildIsGivenUp, Children!Slot, Children!ChildKey
    <2>3. outcome[c] = "err" /\ watch[c] = "err"
      BY DEF Children!WorkerKnows
    <2> QED
      BY <2>1, <2>2, <2>3 DEF Children!WorkerKnows
  <1>4. Children!CallKnows'
    BY DEF Children!CallKnows, Children!SameKey, Children!WorkerKnows,
           Children!ChildIsGivenUp, Children!Slot, Children!SlotIsKeyed, Children!Key, Children!ChildKey
  <1>5. Children!ExitIsOwn'
    BY DEF Children!ExitIsOwn, Children!CallKnows, Children!SameKey,
           Children!WorkerKnows, Children!Slot, Children!ChildKey
  <1>6. Children!ErrorIsFresh'
    BY DEF Children!ErrorIsFresh, Children!CallKnows, Children!WorkerKnows
  <1>7. Children!SlotKeptUntilReaped'
    BY DEF Children!SlotKeptUntilReaped, Children!Slot, Children!ChildKey,
           Children!Key, Children!CallKnows, Children!WorkerKnows
  <1> QED
    BY <1>1, <1>2, <1>3, <1>4, <1>5, <1>6, <1>7

\* The child that a task gave up is reaped by a thread.
LEMMA ChildOrphanReap ==
  ASSUME Children!IndInv, NEW c \in Child, Children!OrphanReap(c)
  PROVE  Children!IndInv'
  <1> USE InfraAssumption DEF Children!IndInv, Children!TypeOK, Children!OrphanReap,
                              Children!taskVars, Children!callVars
  <1>1. Children!TypeOK'
    BY DEF Children!TypeOK, Children!Key, Children!WorkerKnows, Children!CallKnows,
           Children!Slot, Children!ChildKey, Children!SlotIsKeyed
  <1>2. Children!SlotIsKeyed'
    BY DEF Children!SlotIsKeyed, Children!Key, Children!ChildKey, Children!CallKnows
  <1>3. Children!WorkerKnows'
    BY DEF Children!WorkerKnows, Children!ChildIsGivenUp, Children!Slot,
           Children!ChildKey, Children!Key, Children!SlotIsKeyed, Children!CallKnows
  <1>4. Children!CallKnows'
    BY DEF Children!CallKnows, Children!SameKey, Children!WorkerKnows,
           Children!ChildIsGivenUp, Children!Slot, Children!SlotIsKeyed, Children!Key, Children!ChildKey
  <1>5. Children!ExitIsOwn'
    BY DEF Children!ExitIsOwn, Children!CallKnows, Children!SameKey,
           Children!WorkerKnows, Children!Slot, Children!ChildKey
  <1>6. Children!ErrorIsFresh'
    BY DEF Children!ErrorIsFresh, Children!CallKnows, Children!WorkerKnows
  <1>7. Children!SlotKeptUntilReaped'
    BY DEF Children!SlotKeptUntilReaped, Children!Slot, Children!ChildKey,
           Children!Key, Children!CallKnows, Children!WorkerKnows
  <1> QED
    BY <1>1, <1>2, <1>3, <1>4, <1>5, <1>6, <1>7

\* A call subscribes to the slot of its key.
LEMMA ChildWaitBegin ==
  ASSUME Children!IndInv, NEW w \in Caller, NEW c \in Child, Children!WaitBegin(w, c)
  PROVE  Children!IndInv'
  <1> USE InfraAssumption DEF Children!IndInv, Children!TypeOK, Children!WaitBegin,
                              Children!childVars, Children!taskVars
  <1>1. Children!TypeOK'
    <2>1. os[c] # "unborn" /\ num[c] \in ChildNum
      BY DEF Children!WorkerKnows
    <2>2. Children!Slot(c) \in Child \cup {NoChild}
      BY <2>1 DEF Children!Slot, Children!Key, Children!ChildKey
    <2> QED
      BY <2>2
  <1>2. Children!SlotIsKeyed'
    BY DEF Children!SlotIsKeyed, Children!Key, Children!ChildKey, Children!CallKnows
  <1>3. Children!WorkerKnows'
    BY DEF Children!WorkerKnows, Children!ChildIsGivenUp, Children!Slot,
           Children!ChildKey, Children!Key, Children!SlotIsKeyed, Children!CallKnows
  <1>4. Children!CallKnows'
    BY DEF Children!CallKnows, Children!SameKey, Children!WorkerKnows,
           Children!ChildIsGivenUp, Children!Slot, Children!SlotIsKeyed, Children!Key, Children!ChildKey
  <1>5. Children!ExitIsOwn'
    BY DEF Children!ExitIsOwn, Children!CallKnows, Children!SameKey,
           Children!WorkerKnows, Children!Slot, Children!ChildKey
  <1>6. Children!ErrorIsFresh'
    BY DEF Children!ErrorIsFresh, Children!CallKnows, Children!WorkerKnows
  <1>7. Children!SlotKeptUntilReaped'
    BY DEF Children!SlotKeptUntilReaped, Children!Slot, Children!ChildKey,
           Children!Key, Children!CallKnows, Children!WorkerKnows
  <1> QED
    BY <1>1, <1>2, <1>3, <1>4, <1>5, <1>6, <1>7

\* A closed channel means that the latest value is a verdict.
LEMMA ChildAsk ==
  ASSUME Children!IndInv, NEW w \in Caller, Children!Ask(w)
  PROVE  Children!IndInv'
  <1> USE InfraAssumption DEF Children!IndInv, Children!TypeOK, Children!Ask,
                              Children!childVars
  <1>0. /\ subscribed[w] \in Child /\ asked[w] \in Child /\ num[asked[w]] \in ChildNum
        /\ <<num[subscribed[w]], token[subscribed[w]]>> = <<num[asked[w]], token[asked[w]]>>
    BY DEF Children!CallKnows, Children!SameKey, Children!ChildKey
  <1>1. Children!TypeOK'
    BY <1>0 DEF Children!TypeOK, Children!Key, Children!WorkerKnows, Children!CallKnows,
           Children!Slot, Children!ChildKey, Children!SlotIsKeyed
  <1>2. Children!SlotIsKeyed'
    BY DEF Children!SlotIsKeyed, Children!Key, Children!ChildKey, Children!CallKnows
  <1>3. Children!WorkerKnows'
    BY DEF Children!WorkerKnows, Children!ChildIsGivenUp, Children!Slot,
           Children!ChildKey, Children!Key, Children!SlotIsKeyed, Children!CallKnows
  <1>4. Children!CallKnows'
    <2>1. CASE worker[subscribed[w]] = "gone"
      <3>1. watch[subscribed[w]] = "err" => w \in fresh \/ outcome[subscribed[w]] = "lost"
        BY <1>0, <2>1
           DEF Children!CallKnows, Children!WorkerKnows, Children!ChildIsGivenUp
      <3> QED
        BY <1>0, <2>1, <3>1
           DEF Children!CallKnows, Children!SameKey, Children!ChildKey
    <2>2. CASE worker[subscribed[w]] # "gone"
      BY <1>0, <2>2 DEF Children!CallKnows, Children!SameKey, Children!ChildKey
    <2> QED
      BY <2>1, <2>2
  <1>5. Children!ExitIsOwn'
    BY DEF Children!ExitIsOwn, Children!CallKnows, Children!SameKey,
           Children!WorkerKnows, Children!Slot, Children!ChildKey
  <1>6. Children!ErrorIsFresh'
    BY DEF Children!ErrorIsFresh, Children!CallKnows, Children!WorkerKnows
  <1>7. Children!SlotKeptUntilReaped'
    BY DEF Children!SlotKeptUntilReaped, Children!Slot, Children!ChildKey,
           Children!Key, Children!CallKnows, Children!WorkerKnows
  <1> QED
    BY <1>1, <1>2, <1>3, <1>4, <1>5, <1>6, <1>7

\* What has changed was published since the call began.
LEMMA ChildChanged ==
  ASSUME Children!IndInv, NEW w \in Caller, Children!Changed(w)
  PROVE  Children!IndInv'
  <1> USE InfraAssumption DEF Children!IndInv, Children!TypeOK, Children!Changed,
                              Children!childVars, Children!taskVars
  <1>0. /\ subscribed[w] \in Child /\ asked[w] \in Child /\ num[asked[w]] \in ChildNum
        /\ <<num[subscribed[w]], token[subscribed[w]]>> = <<num[asked[w]], token[asked[w]]>>
    BY DEF Children!CallKnows, Children!SameKey, Children!ChildKey
  <1>1. Children!TypeOK'
    BY <1>0 DEF Children!TypeOK, Children!Key, Children!WorkerKnows, Children!CallKnows,
           Children!Slot, Children!ChildKey, Children!SlotIsKeyed
  <1>2. Children!SlotIsKeyed'
    BY DEF Children!SlotIsKeyed, Children!Key, Children!ChildKey, Children!CallKnows
  <1>3. Children!WorkerKnows'
    BY DEF Children!WorkerKnows, Children!ChildIsGivenUp, Children!Slot,
           Children!ChildKey, Children!Key, Children!SlotIsKeyed, Children!CallKnows
  <1>4. Children!CallKnows'
    BY DEF Children!CallKnows, Children!SameKey, Children!WorkerKnows,
           Children!ChildIsGivenUp, Children!Slot, Children!SlotIsKeyed, Children!Key, Children!ChildKey
  <1>5. Children!ExitIsOwn'
    BY DEF Children!ExitIsOwn, Children!CallKnows, Children!SameKey,
           Children!WorkerKnows, Children!Slot, Children!ChildKey
  <1>6. Children!ErrorIsFresh'
    BY DEF Children!ErrorIsFresh, Children!CallKnows, Children!WorkerKnows
  <1>7. Children!SlotKeptUntilReaped'
    BY DEF Children!SlotKeptUntilReaped, Children!Slot, Children!ChildKey,
           Children!Key, Children!CallKnows, Children!WorkerKnows
  <1> QED
    BY <1>1, <1>2, <1>3, <1>4, <1>5, <1>6, <1>7

\* A call finds its channel closed only if the child is lost.
LEMMA ChildChannelClosed ==
  ASSUME Children!IndInv, NEW w \in Caller, Children!ChannelClosed(w)
  PROVE  Children!IndInv'
  <1> USE InfraAssumption DEF Children!IndInv, Children!TypeOK, Children!ChannelClosed,
                              Children!childVars, Children!taskVars
  <1>0. /\ subscribed[w] \in Child /\ asked[w] \in Child /\ num[asked[w]] \in ChildNum
        /\ <<num[subscribed[w]], token[subscribed[w]]>> = <<num[asked[w]], token[asked[w]]>>
    BY DEF Children!CallKnows, Children!SameKey, Children!ChildKey
  <1>1. Children!TypeOK'
    BY <1>0 DEF Children!TypeOK, Children!Key, Children!WorkerKnows, Children!CallKnows,
           Children!Slot, Children!ChildKey, Children!SlotIsKeyed
  <1>2. Children!SlotIsKeyed'
    BY DEF Children!SlotIsKeyed, Children!Key, Children!ChildKey, Children!CallKnows
  <1>3. Children!WorkerKnows'
    BY DEF Children!WorkerKnows, Children!ChildIsGivenUp, Children!Slot,
           Children!ChildKey, Children!Key, Children!SlotIsKeyed, Children!CallKnows
  <1>4. Children!CallKnows'
    BY DEF Children!CallKnows, Children!SameKey, Children!WorkerKnows,
           Children!ChildIsGivenUp, Children!Slot, Children!SlotIsKeyed, Children!Key, Children!ChildKey
  <1>5. Children!ExitIsOwn'
    BY DEF Children!ExitIsOwn, Children!CallKnows, Children!SameKey,
           Children!WorkerKnows, Children!Slot, Children!ChildKey
  <1>6. Children!ErrorIsFresh'
    <2>1. outcome[subscribed[w]] = "lost"
      BY <1>0 DEF Children!CallKnows, Children!WorkerKnows
    <2> QED
      BY <2>1 DEF Children!ErrorIsFresh
  <1>7. Children!SlotKeptUntilReaped'
    BY DEF Children!SlotKeptUntilReaped, Children!Slot, Children!ChildKey,
           Children!Key, Children!CallKnows, Children!WorkerKnows
  <1> QED
    BY <1>1, <1>2, <1>3, <1>4, <1>5, <1>6, <1>7

\* A call answers, and removes the slot of a reaped child only.
LEMMA ChildRead ==
  ASSUME Children!IndInv, NEW w \in Caller, Children!Read(w)
  PROVE  Children!IndInv'
  <1> USE InfraAssumption DEF Children!IndInv, Children!TypeOK, Children!Read,
                              Children!taskVars
  <1>0. /\ subscribed[w] \in Child /\ asked[w] \in Child /\ num[asked[w]] \in ChildNum
        /\ <<num[subscribed[w]], token[subscribed[w]]>> = <<num[asked[w]], token[asked[w]]>>
    BY DEF Children!CallKnows, Children!SameKey, Children!ChildKey
  <1>1. Children!TypeOK'
    BY <1>0 DEF Children!TypeOK, Children!Key, Children!WorkerKnows, Children!CallKnows,
           Children!Slot, Children!ChildKey, Children!SlotIsKeyed
  <1>2. Children!SlotIsKeyed'
    BY DEF Children!SlotIsKeyed, Children!Key, Children!ChildKey, Children!CallKnows
  <1>3. Children!WorkerKnows'
    BY DEF Children!WorkerKnows, Children!ChildIsGivenUp, Children!Slot,
           Children!ChildKey, Children!Key, Children!SlotIsKeyed, Children!CallKnows
  <1>4. Children!CallKnows'
    BY DEF Children!CallKnows, Children!SameKey, Children!WorkerKnows,
           Children!ChildIsGivenUp, Children!Slot, Children!SlotIsKeyed, Children!Key, Children!ChildKey
  <1>5. Children!ExitIsOwn'
    BY DEF Children!ExitIsOwn, Children!CallKnows, Children!SameKey,
           Children!WorkerKnows, Children!Slot, Children!ChildKey
  <1>6. Children!ErrorIsFresh'
    BY DEF Children!ErrorIsFresh, Children!CallKnows, Children!WorkerKnows
  <1>7. Children!SlotKeptUntilReaped'
    <2>1. CASE watch[subscribed[w]] # "ok"
      BY <2>1 DEF Children!SlotKeptUntilReaped, Children!Slot, Children!ChildKey
    <2>2. CASE watch[subscribed[w]] = "ok"
      <3>1. os[subscribed[w]] = "reaped"
        BY <1>0, <2>2 DEF Children!WorkerKnows
      <3>2. /\ Children!ChildKey(asked[w]) \in Children!Key
            /\ children' = [children EXCEPT ![Children!ChildKey(asked[w])] = NoChild]
        BY <1>0, <2>2 DEF Children!Key, Children!ChildKey
      <3>3. ASSUME NEW d \in Child, os[d] # "reaped", token[d] # NoChild, num[d] # NoNum
            PROVE  Children!Slot(d)' = Children!Slot(d)
        <4>1. Children!ChildKey(d) # Children!ChildKey(asked[w])
          BY <1>0, <3>1, <3>3 DEF Children!ChildKey
        <4> QED
          BY <3>2, <3>3, <4>1 DEF Children!Slot, Children!ChildKey, Children!Key
      <3>4. ASSUME NEW d \in Child, num[d] # NoNum
            PROVE  Children!Slot(d)' \in {Children!Slot(d), NoChild}
        BY <3>2, <3>4 DEF Children!Slot, Children!ChildKey, Children!Key
      <3> QED
        BY <3>3, <3>4 DEF Children!SlotKeptUntilReaped, Children!WorkerKnows
    <2> QED
      BY <2>1, <2>2
  <1> QED
    BY <1>1, <1>2, <1>3, <1>4, <1>5, <1>6, <1>7

\* A call ends.
LEMMA ChildLeave ==
  ASSUME Children!IndInv, NEW w \in Caller, Children!Leave(w)
  PROVE  Children!IndInv'
  <1> USE InfraAssumption DEF Children!IndInv, Children!TypeOK, Children!Leave,
                              Children!childVars, Children!taskVars
  <1>1. Children!TypeOK'
    BY DEF Children!TypeOK, Children!Key, Children!WorkerKnows, Children!CallKnows,
           Children!Slot, Children!ChildKey, Children!SlotIsKeyed
  <1>2. Children!SlotIsKeyed'
    BY DEF Children!SlotIsKeyed, Children!Key, Children!ChildKey, Children!CallKnows
  <1>3. Children!WorkerKnows'
    BY DEF Children!WorkerKnows, Children!ChildIsGivenUp, Children!Slot,
           Children!ChildKey, Children!Key, Children!SlotIsKeyed, Children!CallKnows
  <1>4. Children!CallKnows'
    BY DEF Children!CallKnows, Children!SameKey, Children!WorkerKnows,
           Children!ChildIsGivenUp, Children!Slot, Children!SlotIsKeyed, Children!Key, Children!ChildKey
  <1>5. Children!ExitIsOwn'
    BY DEF Children!ExitIsOwn, Children!CallKnows, Children!SameKey,
           Children!WorkerKnows, Children!Slot, Children!ChildKey
  <1>6. Children!ErrorIsFresh'
    BY DEF Children!ErrorIsFresh, Children!CallKnows, Children!WorkerKnows
  <1>7. Children!SlotKeptUntilReaped'
    BY DEF Children!SlotKeptUntilReaped, Children!Slot, Children!ChildKey,
           Children!Key, Children!CallKnows, Children!WorkerKnows
  <1> QED
    BY <1>1, <1>2, <1>3, <1>4, <1>5, <1>6, <1>7

\* Every step around a child keeps the invariant.
LEMMA ChildrenNext ==
  ASSUME Children!IndInv, [Children!Next]_(Children!vars)
  PROVE  Children!IndInv'
  <1>1. CASE UNCHANGED Children!vars
    BY <1>1
       DEF Children!vars, Children!childVars, Children!taskVars,
           Children!callVars, Children!IndInv, Children!TypeOK, Children!SlotIsKeyed,
           Children!WorkerKnows, Children!ChildIsGivenUp, Children!CallKnows,
           Children!SameKey, Children!ExitIsOwn, Children!ErrorIsFresh,
           Children!SlotKeptUntilReaped, Children!Slot, Children!Key,
           Children!ChildKey
  <1>2. ASSUME NEW c \in Child,
               \/ Children!Exit(c) \/ Children!HostReap(c) \/ Children!WaitOk(c)
               \/ Children!WaitErr(c) \/ Children!WaitLost(c)
               \/ Children!Publish(c) \/ Children!Retry(c) \/ Children!Close(c)
               \/ Children!ParkedEnds(c) \/ Children!OrphanReap(c)
               \/ Children!Kill(c) \/ Children!KillSkips(c)
        PROVE  Children!IndInv'
    BY <1>2, ChildExit, ChildHostReap, ChildWaitOk, ChildWaitErr, ChildWaitLost,
       ChildPublish, ChildRetry, ChildClose, ChildParkedEnds, ChildOrphanReap,
       ChildKill, ChildKillSkips
  <1>3. ASSUME NEW c \in Child, NEW n \in ChildNum, Children!Spawn(c, n)
        PROVE  Children!IndInv'
    BY <1>3, ChildSpawn
  <1>4. ASSUME NEW w \in Caller,
               \/ Children!Ask(w) \/ Children!Changed(w) \/ Children!Read(w)
               \/ Children!ChannelClosed(w) \/ Children!Leave(w)
        PROVE  Children!IndInv'
    BY <1>4, ChildAsk, ChildChanged, ChildRead, ChildChannelClosed, ChildLeave
  <1>5. ASSUME NEW w \in Caller, NEW c \in Child, Children!WaitBegin(w, c)
        PROVE  Children!IndInv'
    BY <1>5, ChildWaitBegin
  <1> QED
    BY <1>1, <1>2, <1>3, <1>4, <1>5 DEF Children!Next

\* The invariant of waiting, for any number of children, numbers, callers and
\* failed attempts.
THEOREM ChildrenInvariant == Children!Spec => []Children!IndInv
  <1>1. Children!IndInv /\ [Children!Next]_(Children!vars) => Children!IndInv'
    BY ChildrenNext
  <1> QED
    BY <1>1, ChildInit, PTL DEF Children!Spec

\* wait on Unix answers with the exit of the child it was asked about, after its
\* reap, whoever has its number since, and the slot that a kill needs is there
\* until then, if the start time of the child could be read; if not, the exit is
\* that of a reaped child of the number, and until the reap the slot is the
\* child's own or gone.  An error is that of an attempt made since the call began,
\* or the loss of the child, whoever else asked for retries.
THEOREM WaitTellsTheTruth ==
  Children!Spec =>
    [](Children!ExitIsOwn /\ Children!SlotKeptUntilReaped /\ Children!ErrorIsFresh)
  <1>1. Children!IndInv =>
          /\ Children!ExitIsOwn /\ Children!SlotKeptUntilReaped
          /\ Children!ErrorIsFresh
    BY DEF Children!IndInv
  <1> QED
    BY <1>1, ChildrenInvariant, PTL

-----------------------------------------------------------------------------
(* cgroups.                                                                  *)

\* The finite sets of the module Cgroups are the finite sets.
LEMMA CgroupFiniteSets ==
  \A S : /\ Cgroup!IsFiniteSet(S) <=> IsFiniteSet(S)
        /\ Cgroup!Cardinality(S) = Cardinality(S)
  <1>1. \A S : Cgroup!IsFiniteSet(S) <=> IsFiniteSet(S)
    BY DEF Cgroup!IsFiniteSet, IsFiniteSet
  <1>2. \A S : Cgroup!Cardinality(S) = Cardinality(S)
    BY DEF Cgroup!Cardinality, Cardinality, Cgroup!IsFiniteSet, IsFiniteSet
  <1> QED
    BY <1>1, <1>2

\* The invariant holds initially.
LEMMA CgroupStart == Cgroup!Init => Cgroup!IndInv
  <1> SUFFICES ASSUME Cgroup!Init PROVE Cgroup!IndInv
    OBVIOUS
  <1>1. Cgroup!TypeOK
    BY InfraAssumption DEF Cgroup!Init, Cgroup!TypeOK
  <1>2. Cgroup!SpawnHasGroup /\ Cgroup!RunsInGroup
    BY DEF Cgroup!Init, Cgroup!SpawnHasGroup, Cgroup!RunsInGroup
  <1>3. Cgroup!TableIsTree
    BY FS_EmptySet, CgroupFiniteSets DEF Cgroup!Init, Cgroup!TableIsTree
  <1>4. /\ Cgroup!CleanupCloses /\ Cgroup!CleanedScopeIsGone /\ Cgroup!DroppedIsKilled
        /\ Cgroup!RootsAreAimedAt /\ Cgroup!StrayIsEmpty
    BY InfraAssumption
       DEF Cgroup!Init, Cgroup!CleanupCloses, Cgroup!CleanedScopeIsGone,
           Cgroup!DroppedIsKilled, Cgroup!RootsAreAimedAt, Cgroup!StrayIsEmpty
  <1> QED
    BY <1>1, <1>2, <1>3, <1>4 DEF Cgroup!IndInv

\* A descendant is born in the directory of its parent.
LEMMA CgroupFork ==
  ASSUME Cgroup!IndInv, NEW p \in GroupProc, NEW q \in GroupProc, Cgroup!Fork(p, q)
  PROVE  Cgroup!IndInv'
  <1> USE InfraAssumption DEF Cgroup!IndInv, Cgroup!TypeOK, Cgroup!rootVars, Cgroup!Fork,
                              Cgroup!callVars
  <1>1. Cgroup!TypeOK'
    BY DEF Cgroup!TypeOK, Cgroup!SpawnHasGroup, Cgroup!RunsInGroup
  <1>2. Cgroup!SpawnHasGroup'
    BY DEF Cgroup!SpawnHasGroup, Cgroup!RunsInGroup, Cgroup!TableIsTree,
           Cgroup!CleanupCloses
  <1>3. Cgroup!TableIsTree'
    BY FS_AddElement, FS_RemoveElement, FS_EmptySet
       DEF Cgroup!TableIsTree, Cgroup!CleanupCloses, Cgroup!SpawnHasGroup
  <1>4. Cgroup!CleanupCloses'
    BY DEF Cgroup!CleanupCloses
  <1>5. Cgroup!RunsInGroup'
    BY DEF Cgroup!RunsInGroup, Cgroup!SpawnHasGroup, Cgroup!TableIsTree,
           Cgroup!CleanupCloses, Cgroup!CleanedScopeIsGone
  <1>6. Cgroup!CleanedScopeIsGone'
    BY DEF Cgroup!CleanedScopeIsGone, Cgroup!StrayIsEmpty, Cgroup!SpawnHasGroup, Cgroup!TableIsTree,
           Cgroup!CleanupCloses, Cgroup!RunsInGroup, Cgroup!Alive
  <1>7. Cgroup!DroppedIsKilled'
    BY DEF Cgroup!DroppedIsKilled, Cgroup!SpawnHasGroup, Cgroup!RunsInGroup
  <1>8. Cgroup!RootsAreAimedAt'
    BY DEF Cgroup!RootsAreAimedAt, Cgroup!SpawnHasGroup, Cgroup!RunsInGroup
  <1>9. Cgroup!StrayIsEmpty'
    BY DEF Cgroup!StrayIsEmpty, Cgroup!TableIsTree, Cgroup!RunsInGroup,
           Cgroup!SpawnHasGroup
  <1> QED
    BY <1>1, <1>2, <1>3, <1>4, <1>5, <1>6, <1>7, <1>8, <1>9

\* Only a process of the scope makes directories in it.
LEMMA CgroupNest ==
  ASSUME Cgroup!IndInv, NEW p \in GroupProc, Cgroup!Nest(p)
  PROVE  Cgroup!IndInv'
  <1> USE InfraAssumption DEF Cgroup!IndInv, Cgroup!TypeOK, Cgroup!rootVars, Cgroup!Nest,
                              Cgroup!callVars
  <1>1. Cgroup!TypeOK'
    BY DEF Cgroup!TypeOK, Cgroup!SpawnHasGroup, Cgroup!RunsInGroup
  <1>2. Cgroup!SpawnHasGroup'
    BY DEF Cgroup!SpawnHasGroup, Cgroup!RunsInGroup, Cgroup!TableIsTree,
           Cgroup!CleanupCloses
  <1>3. Cgroup!TableIsTree'
    BY FS_AddElement, FS_RemoveElement, FS_EmptySet
       DEF Cgroup!TableIsTree, Cgroup!CleanupCloses, Cgroup!SpawnHasGroup
  <1>4. Cgroup!CleanupCloses'
    BY DEF Cgroup!CleanupCloses
  <1>5. Cgroup!RunsInGroup'
    BY DEF Cgroup!RunsInGroup, Cgroup!SpawnHasGroup, Cgroup!TableIsTree,
           Cgroup!CleanupCloses, Cgroup!CleanedScopeIsGone
  <1>6. Cgroup!CleanedScopeIsGone'
    BY DEF Cgroup!CleanedScopeIsGone, Cgroup!StrayIsEmpty, Cgroup!SpawnHasGroup, Cgroup!TableIsTree,
           Cgroup!CleanupCloses, Cgroup!RunsInGroup, Cgroup!Alive
  <1>7. Cgroup!DroppedIsKilled'
    BY DEF Cgroup!DroppedIsKilled, Cgroup!SpawnHasGroup, Cgroup!RunsInGroup
  <1>8. Cgroup!RootsAreAimedAt'
    BY DEF Cgroup!RootsAreAimedAt, Cgroup!SpawnHasGroup, Cgroup!RunsInGroup
  <1>9. Cgroup!StrayIsEmpty'
    BY DEF Cgroup!StrayIsEmpty, Cgroup!TableIsTree, Cgroup!RunsInGroup,
           Cgroup!SpawnHasGroup
  <1> QED
    BY <1>1, <1>2, <1>3, <1>4, <1>5, <1>6, <1>7, <1>8, <1>9

\* The end of a process.
LEMMA CgroupEnd ==
  ASSUME Cgroup!IndInv, NEW p \in GroupProc, Cgroup!End(p)
  PROVE  Cgroup!IndInv'
  <1> USE InfraAssumption DEF Cgroup!IndInv, Cgroup!TypeOK, Cgroup!rootVars, Cgroup!End,
                              Cgroup!callVars
  <1>1. Cgroup!TypeOK'
    BY DEF Cgroup!TypeOK, Cgroup!SpawnHasGroup, Cgroup!RunsInGroup
  <1>2. Cgroup!SpawnHasGroup'
    BY DEF Cgroup!SpawnHasGroup, Cgroup!RunsInGroup, Cgroup!TableIsTree,
           Cgroup!CleanupCloses
  <1>3. Cgroup!TableIsTree'
    BY FS_AddElement, FS_RemoveElement, FS_EmptySet
       DEF Cgroup!TableIsTree, Cgroup!CleanupCloses, Cgroup!SpawnHasGroup
  <1>4. Cgroup!CleanupCloses'
    BY DEF Cgroup!CleanupCloses
  <1>5. Cgroup!RunsInGroup'
    BY DEF Cgroup!RunsInGroup, Cgroup!SpawnHasGroup, Cgroup!TableIsTree,
           Cgroup!CleanupCloses, Cgroup!CleanedScopeIsGone
  <1>6. Cgroup!CleanedScopeIsGone'
    BY DEF Cgroup!CleanedScopeIsGone, Cgroup!StrayIsEmpty, Cgroup!SpawnHasGroup, Cgroup!TableIsTree,
           Cgroup!CleanupCloses, Cgroup!RunsInGroup, Cgroup!Alive
  <1>7. Cgroup!DroppedIsKilled'
    BY DEF Cgroup!DroppedIsKilled, Cgroup!SpawnHasGroup, Cgroup!RunsInGroup
  <1>8. Cgroup!RootsAreAimedAt'
    BY DEF Cgroup!RootsAreAimedAt, Cgroup!SpawnHasGroup, Cgroup!RunsInGroup
  <1>9. Cgroup!StrayIsEmpty'
    BY DEF Cgroup!StrayIsEmpty, Cgroup!TableIsTree, Cgroup!RunsInGroup,
           Cgroup!SpawnHasGroup
  <1> QED
    BY <1>1, <1>2, <1>3, <1>4, <1>5, <1>6, <1>7, <1>8, <1>9

\* A spawn makes the group of its scope before it forks.
LEMMA CgroupMembership ==
  ASSUME Cgroup!IndInv, NEW p \in GroupProc, NEW s \in GroupScope, Cgroup!Membership(p, s)
  PROVE  Cgroup!IndInv'
  <1> USE InfraAssumption DEF Cgroup!IndInv, Cgroup!TypeOK, Cgroup!rootVars, Cgroup!Membership,
                              Cgroup!callVars
  <1>1. Cgroup!TypeOK'
    BY DEF Cgroup!TypeOK, Cgroup!SpawnHasGroup, Cgroup!RunsInGroup
  <1>2. Cgroup!SpawnHasGroup'
    BY DEF Cgroup!SpawnHasGroup, Cgroup!RunsInGroup, Cgroup!TableIsTree,
           Cgroup!CleanupCloses
  <1>3. Cgroup!TableIsTree'
    <2>1. IsFiniteSet(groups) /\ groups' = groups \cup {s}
      BY CgroupFiniteSets DEF Cgroup!TableIsTree
    <2>2. Cgroup!IsFiniteSet(groups')
      BY <2>1, FS_AddElement, CgroupFiniteSets
    <2> QED
      BY <2>2 DEF Cgroup!TableIsTree, Cgroup!CleanupCloses, Cgroup!SpawnHasGroup
  <1>4. Cgroup!CleanupCloses'
    BY DEF Cgroup!CleanupCloses
  <1>5. Cgroup!RunsInGroup'
    BY DEF Cgroup!RunsInGroup, Cgroup!SpawnHasGroup, Cgroup!TableIsTree,
           Cgroup!CleanupCloses, Cgroup!CleanedScopeIsGone
  <1>6. Cgroup!CleanedScopeIsGone'
    BY DEF Cgroup!CleanedScopeIsGone, Cgroup!StrayIsEmpty, Cgroup!SpawnHasGroup, Cgroup!TableIsTree,
           Cgroup!CleanupCloses, Cgroup!RunsInGroup, Cgroup!Alive
  <1>7. Cgroup!DroppedIsKilled'
    BY DEF Cgroup!DroppedIsKilled, Cgroup!SpawnHasGroup, Cgroup!RunsInGroup
  <1>8. Cgroup!RootsAreAimedAt'
    BY DEF Cgroup!RootsAreAimedAt, Cgroup!SpawnHasGroup, Cgroup!RunsInGroup
  <1>9. Cgroup!StrayIsEmpty'
    BY DEF Cgroup!StrayIsEmpty, Cgroup!TableIsTree, Cgroup!RunsInGroup,
           Cgroup!SpawnHasGroup
  <1> QED
    BY <1>1, <1>2, <1>3, <1>4, <1>5, <1>6, <1>7, <1>8, <1>9

\* A spawn that fails leaves at most an empty group.
LEMMA CgroupMembershipFails ==
  ASSUME Cgroup!IndInv, NEW s \in GroupScope, Cgroup!MembershipFails(s)
  PROVE  Cgroup!IndInv'
  <1> USE InfraAssumption DEF Cgroup!IndInv, Cgroup!TypeOK, Cgroup!rootVars, Cgroup!MembershipFails,
                              Cgroup!Fail, Cgroup!callVars
  <1>1. Cgroup!TypeOK'
    BY DEF Cgroup!TypeOK, Cgroup!SpawnHasGroup, Cgroup!RunsInGroup
  <1>2. Cgroup!SpawnHasGroup'
    BY DEF Cgroup!SpawnHasGroup, Cgroup!RunsInGroup, Cgroup!TableIsTree,
           Cgroup!CleanupCloses
  <1>3. Cgroup!TableIsTree'
    <2>1. IsFiniteSet(groups) /\ groups' \in {groups, groups \cup {s}}
      BY CgroupFiniteSets DEF Cgroup!TableIsTree
    <2>2. Cgroup!IsFiniteSet(groups')
      BY <2>1, FS_AddElement, CgroupFiniteSets
    <2> QED
      BY <2>2 DEF Cgroup!TableIsTree, Cgroup!CleanupCloses, Cgroup!SpawnHasGroup
  <1>4. Cgroup!CleanupCloses'
    BY DEF Cgroup!CleanupCloses
  <1>5. Cgroup!RunsInGroup'
    BY DEF Cgroup!RunsInGroup, Cgroup!SpawnHasGroup, Cgroup!TableIsTree,
           Cgroup!CleanupCloses, Cgroup!CleanedScopeIsGone
  <1>6. Cgroup!CleanedScopeIsGone'
    BY DEF Cgroup!CleanedScopeIsGone, Cgroup!StrayIsEmpty, Cgroup!SpawnHasGroup, Cgroup!TableIsTree,
           Cgroup!CleanupCloses, Cgroup!RunsInGroup, Cgroup!Alive
  <1>7. Cgroup!DroppedIsKilled'
    BY DEF Cgroup!DroppedIsKilled, Cgroup!SpawnHasGroup, Cgroup!RunsInGroup
  <1>8. Cgroup!RootsAreAimedAt'
    BY DEF Cgroup!RootsAreAimedAt, Cgroup!SpawnHasGroup, Cgroup!RunsInGroup
  <1>9. Cgroup!StrayIsEmpty'
    BY DEF Cgroup!StrayIsEmpty, Cgroup!TableIsTree, Cgroup!RunsInGroup,
           Cgroup!SpawnHasGroup
  <1> QED
    BY <1>1, <1>2, <1>3, <1>4, <1>5, <1>6, <1>7, <1>8, <1>9

\* A forked child is in no directory until it writes itself there.
LEMMA CgroupForkRoot ==
  ASSUME Cgroup!IndInv, NEW p \in GroupProc, Cgroup!ForkRoot(p)
  PROVE  Cgroup!IndInv'
  <1> USE InfraAssumption DEF Cgroup!IndInv, Cgroup!TypeOK, Cgroup!rootVars, Cgroup!ForkRoot,
                              Cgroup!StateLocked, Cgroup!callVars
  <1>1. Cgroup!TypeOK'
    BY DEF Cgroup!TypeOK, Cgroup!SpawnHasGroup, Cgroup!RunsInGroup
  <1>2. Cgroup!SpawnHasGroup'
    BY DEF Cgroup!SpawnHasGroup, Cgroup!RunsInGroup, Cgroup!TableIsTree,
           Cgroup!CleanupCloses
  <1>3. Cgroup!TableIsTree'
    BY FS_AddElement, FS_RemoveElement, FS_EmptySet
       DEF Cgroup!TableIsTree, Cgroup!CleanupCloses, Cgroup!SpawnHasGroup
  <1>4. Cgroup!CleanupCloses'
    BY DEF Cgroup!CleanupCloses
  <1>5. Cgroup!RunsInGroup'
    BY DEF Cgroup!RunsInGroup, Cgroup!SpawnHasGroup, Cgroup!TableIsTree,
           Cgroup!CleanupCloses, Cgroup!CleanedScopeIsGone
  <1>6. Cgroup!CleanedScopeIsGone'
    BY DEF Cgroup!CleanedScopeIsGone, Cgroup!StrayIsEmpty, Cgroup!SpawnHasGroup, Cgroup!TableIsTree,
           Cgroup!CleanupCloses, Cgroup!RunsInGroup, Cgroup!Alive
  <1>7. Cgroup!DroppedIsKilled'
    BY DEF Cgroup!DroppedIsKilled, Cgroup!SpawnHasGroup, Cgroup!RunsInGroup
  <1>8. Cgroup!RootsAreAimedAt'
    BY DEF Cgroup!RootsAreAimedAt, Cgroup!SpawnHasGroup, Cgroup!RunsInGroup
  <1>9. Cgroup!StrayIsEmpty'
    BY DEF Cgroup!StrayIsEmpty, Cgroup!TableIsTree, Cgroup!RunsInGroup,
           Cgroup!SpawnHasGroup
  <1> QED
    BY <1>1, <1>2, <1>3, <1>4, <1>5, <1>6, <1>7, <1>8, <1>9

\* A child executes its program in its directory only.
LEMMA CgroupJoinExec ==
  ASSUME Cgroup!IndInv, NEW p \in GroupProc, Cgroup!JoinExec(p)
  PROVE  Cgroup!IndInv'
  <1> USE InfraAssumption DEF Cgroup!IndInv, Cgroup!TypeOK, Cgroup!rootVars, Cgroup!JoinExec,
                              Cgroup!callVars
  <1>1. Cgroup!TypeOK'
    BY DEF Cgroup!TypeOK, Cgroup!SpawnHasGroup, Cgroup!RunsInGroup
  <1>2. Cgroup!SpawnHasGroup'
    BY DEF Cgroup!SpawnHasGroup, Cgroup!RunsInGroup, Cgroup!TableIsTree,
           Cgroup!CleanupCloses
  <1>3. Cgroup!TableIsTree'
    BY FS_AddElement, FS_RemoveElement, FS_EmptySet
       DEF Cgroup!TableIsTree, Cgroup!CleanupCloses, Cgroup!SpawnHasGroup
  <1>4. Cgroup!CleanupCloses'
    BY DEF Cgroup!CleanupCloses
  <1>5. Cgroup!RunsInGroup'
    BY DEF Cgroup!RunsInGroup, Cgroup!SpawnHasGroup, Cgroup!TableIsTree,
           Cgroup!CleanupCloses, Cgroup!CleanedScopeIsGone
  <1>6. Cgroup!CleanedScopeIsGone'
    BY DEF Cgroup!CleanedScopeIsGone, Cgroup!StrayIsEmpty, Cgroup!SpawnHasGroup, Cgroup!TableIsTree,
           Cgroup!CleanupCloses, Cgroup!RunsInGroup, Cgroup!Alive
  <1>7. Cgroup!DroppedIsKilled'
    BY DEF Cgroup!DroppedIsKilled, Cgroup!SpawnHasGroup, Cgroup!RunsInGroup
  <1>8. Cgroup!RootsAreAimedAt'
    BY DEF Cgroup!RootsAreAimedAt, Cgroup!SpawnHasGroup, Cgroup!RunsInGroup
  <1>9. Cgroup!StrayIsEmpty'
    BY DEF Cgroup!StrayIsEmpty, Cgroup!TableIsTree, Cgroup!RunsInGroup,
           Cgroup!SpawnHasGroup
  <1> QED
    BY <1>1, <1>2, <1>3, <1>4, <1>5, <1>6, <1>7, <1>8, <1>9

\* A child that could not join ends.
LEMMA CgroupJoinFails ==
  ASSUME Cgroup!IndInv, NEW p \in GroupProc, Cgroup!JoinFails(p)
  PROVE  Cgroup!IndInv'
  <1> USE InfraAssumption DEF Cgroup!IndInv, Cgroup!TypeOK, Cgroup!rootVars, Cgroup!JoinFails,
                              Cgroup!Fail, Cgroup!callVars
  <1>1. Cgroup!TypeOK'
    BY DEF Cgroup!TypeOK, Cgroup!SpawnHasGroup, Cgroup!RunsInGroup
  <1>2. Cgroup!SpawnHasGroup'
    BY DEF Cgroup!SpawnHasGroup, Cgroup!RunsInGroup, Cgroup!TableIsTree,
           Cgroup!CleanupCloses
  <1>3. Cgroup!TableIsTree'
    BY FS_AddElement, FS_RemoveElement, FS_EmptySet
       DEF Cgroup!TableIsTree, Cgroup!CleanupCloses, Cgroup!SpawnHasGroup
  <1>4. Cgroup!CleanupCloses'
    BY DEF Cgroup!CleanupCloses
  <1>5. Cgroup!RunsInGroup'
    BY DEF Cgroup!RunsInGroup, Cgroup!SpawnHasGroup, Cgroup!TableIsTree,
           Cgroup!CleanupCloses, Cgroup!CleanedScopeIsGone
  <1>6. Cgroup!CleanedScopeIsGone'
    BY DEF Cgroup!CleanedScopeIsGone, Cgroup!StrayIsEmpty, Cgroup!SpawnHasGroup, Cgroup!TableIsTree,
           Cgroup!CleanupCloses, Cgroup!RunsInGroup, Cgroup!Alive
  <1>7. Cgroup!DroppedIsKilled'
    BY DEF Cgroup!DroppedIsKilled, Cgroup!SpawnHasGroup, Cgroup!RunsInGroup
  <1>8. Cgroup!RootsAreAimedAt'
    BY DEF Cgroup!RootsAreAimedAt, Cgroup!SpawnHasGroup, Cgroup!RunsInGroup
  <1>9. Cgroup!StrayIsEmpty'
    BY DEF Cgroup!StrayIsEmpty, Cgroup!TableIsTree, Cgroup!RunsInGroup,
           Cgroup!SpawnHasGroup
  <1> QED
    BY <1>1, <1>2, <1>3, <1>4, <1>5, <1>6, <1>7, <1>8, <1>9

\* register_child.
LEMMA CgroupRegister ==
  ASSUME Cgroup!IndInv, NEW p \in GroupProc, Cgroup!Register(p)
  PROVE  Cgroup!IndInv'
  <1> USE InfraAssumption DEF Cgroup!IndInv, Cgroup!TypeOK, Cgroup!rootVars, Cgroup!Register,
                              Cgroup!Fail, Cgroup!kernelVars, Cgroup!callVars
  <1>1. Cgroup!TypeOK'
    BY DEF Cgroup!TypeOK, Cgroup!SpawnHasGroup, Cgroup!RunsInGroup
  <1>2. Cgroup!SpawnHasGroup'
    BY DEF Cgroup!SpawnHasGroup, Cgroup!RunsInGroup, Cgroup!TableIsTree,
           Cgroup!CleanupCloses
  <1>3. Cgroup!TableIsTree'
    BY FS_AddElement, FS_RemoveElement, FS_EmptySet
       DEF Cgroup!TableIsTree, Cgroup!CleanupCloses, Cgroup!SpawnHasGroup
  <1>4. Cgroup!CleanupCloses'
    BY DEF Cgroup!CleanupCloses
  <1>5. Cgroup!RunsInGroup'
    BY DEF Cgroup!RunsInGroup, Cgroup!SpawnHasGroup, Cgroup!TableIsTree,
           Cgroup!CleanupCloses, Cgroup!CleanedScopeIsGone
  <1>6. Cgroup!CleanedScopeIsGone'
    BY DEF Cgroup!CleanedScopeIsGone, Cgroup!StrayIsEmpty, Cgroup!SpawnHasGroup, Cgroup!TableIsTree,
           Cgroup!CleanupCloses, Cgroup!RunsInGroup, Cgroup!Alive
  <1>7. Cgroup!DroppedIsKilled'
    BY DEF Cgroup!DroppedIsKilled, Cgroup!SpawnHasGroup, Cgroup!RunsInGroup
  <1>8. Cgroup!RootsAreAimedAt'
    BY DEF Cgroup!RootsAreAimedAt, Cgroup!SpawnHasGroup, Cgroup!RunsInGroup
  <1>9. Cgroup!StrayIsEmpty'
    BY DEF Cgroup!StrayIsEmpty, Cgroup!TableIsTree, Cgroup!RunsInGroup,
           Cgroup!SpawnHasGroup
  <1> QED
    BY <1>1, <1>2, <1>3, <1>4, <1>5, <1>6, <1>7, <1>8, <1>9

\* A verified exit removes the slot.
LEMMA CgroupReap ==
  ASSUME Cgroup!IndInv, NEW p \in GroupProc, Cgroup!Reap(p)
  PROVE  Cgroup!IndInv'
  <1> USE InfraAssumption DEF Cgroup!IndInv, Cgroup!TypeOK, Cgroup!rootVars, Cgroup!Reap,
                              Cgroup!kernelVars, Cgroup!callVars
  <1>1. Cgroup!TypeOK'
    BY DEF Cgroup!TypeOK, Cgroup!SpawnHasGroup, Cgroup!RunsInGroup
  <1>2. Cgroup!SpawnHasGroup'
    BY DEF Cgroup!SpawnHasGroup, Cgroup!RunsInGroup, Cgroup!TableIsTree,
           Cgroup!CleanupCloses
  <1>3. Cgroup!TableIsTree'
    BY FS_AddElement, FS_RemoveElement, FS_EmptySet
       DEF Cgroup!TableIsTree, Cgroup!CleanupCloses, Cgroup!SpawnHasGroup
  <1>4. Cgroup!CleanupCloses'
    BY DEF Cgroup!CleanupCloses
  <1>5. Cgroup!RunsInGroup'
    BY DEF Cgroup!RunsInGroup, Cgroup!SpawnHasGroup, Cgroup!TableIsTree,
           Cgroup!CleanupCloses, Cgroup!CleanedScopeIsGone
  <1>6. Cgroup!CleanedScopeIsGone'
    BY DEF Cgroup!CleanedScopeIsGone, Cgroup!StrayIsEmpty, Cgroup!SpawnHasGroup, Cgroup!TableIsTree,
           Cgroup!CleanupCloses, Cgroup!RunsInGroup, Cgroup!Alive
  <1>7. Cgroup!DroppedIsKilled'
    BY DEF Cgroup!DroppedIsKilled, Cgroup!SpawnHasGroup, Cgroup!RunsInGroup
  <1>8. Cgroup!RootsAreAimedAt'
    BY DEF Cgroup!RootsAreAimedAt, Cgroup!SpawnHasGroup, Cgroup!RunsInGroup
  <1>9. Cgroup!StrayIsEmpty'
    BY DEF Cgroup!StrayIsEmpty, Cgroup!TableIsTree, Cgroup!RunsInGroup,
           Cgroup!SpawnHasGroup
  <1> QED
    BY <1>1, <1>2, <1>3, <1>4, <1>5, <1>6, <1>7, <1>8, <1>9

\* A hard kill reaches members of the groups only, and never a child before
\* exec.
LEMMA CgroupHardKill ==
  ASSUME Cgroup!IndInv, NEW ss \in SUBSET GroupScope, Cgroup!HardKill(ss)
  PROVE  Cgroup!IndInv'
  <1> USE InfraAssumption DEF Cgroup!IndInv, Cgroup!TypeOK, Cgroup!rootVars, Cgroup!HardKill, Cgroup!RootsOf,
                              Cgroup!Fail, Cgroup!Doomed, Cgroup!Alive,
                              Cgroup!Members
  <1>1. Cgroup!TypeOK'
    BY DEF Cgroup!TypeOK, Cgroup!SpawnHasGroup, Cgroup!RunsInGroup
  <1>2. Cgroup!SpawnHasGroup'
    BY DEF Cgroup!SpawnHasGroup, Cgroup!RunsInGroup, Cgroup!TableIsTree,
           Cgroup!CleanupCloses
  <1>3. Cgroup!TableIsTree'
    BY FS_AddElement, FS_RemoveElement, FS_EmptySet
       DEF Cgroup!TableIsTree, Cgroup!CleanupCloses, Cgroup!SpawnHasGroup
  <1>4. Cgroup!CleanupCloses'
    BY DEF Cgroup!CleanupCloses
  <1>5. Cgroup!RunsInGroup'
    BY DEF Cgroup!RunsInGroup, Cgroup!SpawnHasGroup, Cgroup!TableIsTree,
           Cgroup!CleanupCloses, Cgroup!CleanedScopeIsGone
  <1>6. Cgroup!CleanedScopeIsGone'
    BY DEF Cgroup!CleanedScopeIsGone, Cgroup!StrayIsEmpty, Cgroup!SpawnHasGroup, Cgroup!TableIsTree,
           Cgroup!CleanupCloses, Cgroup!RunsInGroup
  <1>7. Cgroup!DroppedIsKilled'
    BY DEF Cgroup!DroppedIsKilled, Cgroup!SpawnHasGroup, Cgroup!RunsInGroup
  <1>8. Cgroup!RootsAreAimedAt'
    BY DEF Cgroup!RootsAreAimedAt, Cgroup!SpawnHasGroup, Cgroup!RunsInGroup
  <1>9. Cgroup!StrayIsEmpty'
    BY DEF Cgroup!StrayIsEmpty, Cgroup!TableIsTree, Cgroup!RunsInGroup,
           Cgroup!SpawnHasGroup
  <1> QED
    BY <1>1, <1>2, <1>3, <1>4, <1>5, <1>6, <1>7, <1>8, <1>9

\* The fallback kills registered roots.
LEMMA CgroupHardRoots ==
  ASSUME Cgroup!IndInv, Cgroup!HardRoots
  PROVE  Cgroup!IndInv'
  <1> USE InfraAssumption DEF Cgroup!IndInv, Cgroup!TypeOK, Cgroup!rootVars, Cgroup!HardRoots, Cgroup!RootsOf,
                              Cgroup!Doomed, Cgroup!Alive, Cgroup!StateLocked
  <1>1. Cgroup!TypeOK'
    BY DEF Cgroup!TypeOK, Cgroup!SpawnHasGroup, Cgroup!RunsInGroup
  <1>2. Cgroup!SpawnHasGroup'
    BY DEF Cgroup!SpawnHasGroup, Cgroup!RunsInGroup, Cgroup!TableIsTree,
           Cgroup!CleanupCloses
  <1>3. Cgroup!TableIsTree'
    BY FS_AddElement, FS_RemoveElement, FS_EmptySet
       DEF Cgroup!TableIsTree, Cgroup!CleanupCloses, Cgroup!SpawnHasGroup
  <1>4. Cgroup!CleanupCloses'
    BY DEF Cgroup!CleanupCloses
  <1>5. Cgroup!RunsInGroup'
    BY DEF Cgroup!RunsInGroup, Cgroup!SpawnHasGroup, Cgroup!TableIsTree,
           Cgroup!CleanupCloses, Cgroup!CleanedScopeIsGone
  <1>6. Cgroup!CleanedScopeIsGone'
    BY DEF Cgroup!CleanedScopeIsGone, Cgroup!StrayIsEmpty, Cgroup!SpawnHasGroup, Cgroup!TableIsTree,
           Cgroup!CleanupCloses, Cgroup!RunsInGroup
  <1>7. Cgroup!DroppedIsKilled'
    BY DEF Cgroup!DroppedIsKilled, Cgroup!SpawnHasGroup, Cgroup!RunsInGroup
  <1>8. Cgroup!RootsAreAimedAt'
    BY DEF Cgroup!RootsAreAimedAt, Cgroup!SpawnHasGroup, Cgroup!RunsInGroup
  <1>9. Cgroup!StrayIsEmpty'
    BY DEF Cgroup!StrayIsEmpty, Cgroup!TableIsTree, Cgroup!RunsInGroup,
           Cgroup!SpawnHasGroup
  <1> QED
    BY <1>1, <1>2, <1>3, <1>4, <1>5, <1>6, <1>7, <1>8, <1>9

\* A cleanup closes the scope, which no spawn is using.
LEMMA CgroupCleanKill ==
  ASSUME Cgroup!IndInv, NEW s \in GroupScope, Cgroup!CleanKill(s)
  PROVE  Cgroup!IndInv'
  <1> USE InfraAssumption DEF Cgroup!IndInv, Cgroup!TypeOK, Cgroup!rootVars, Cgroup!CleanKill,
                              Cgroup!Fail, Cgroup!Doomed, Cgroup!Alive,
                              Cgroup!Members
  <1>1. Cgroup!TypeOK'
    BY DEF Cgroup!TypeOK, Cgroup!SpawnHasGroup, Cgroup!RunsInGroup
  <1>2. Cgroup!SpawnHasGroup'
    BY DEF Cgroup!SpawnHasGroup, Cgroup!RunsInGroup, Cgroup!TableIsTree,
           Cgroup!CleanupCloses
  <1>3. Cgroup!TableIsTree'
    BY FS_AddElement, FS_RemoveElement, FS_EmptySet
       DEF Cgroup!TableIsTree, Cgroup!CleanupCloses, Cgroup!SpawnHasGroup
  <1>4. Cgroup!CleanupCloses'
    BY DEF Cgroup!CleanupCloses
  <1>5. Cgroup!RunsInGroup'
    BY DEF Cgroup!RunsInGroup, Cgroup!SpawnHasGroup, Cgroup!TableIsTree,
           Cgroup!CleanupCloses, Cgroup!CleanedScopeIsGone
  <1>6. Cgroup!CleanedScopeIsGone'
    BY DEF Cgroup!CleanedScopeIsGone, Cgroup!StrayIsEmpty, Cgroup!SpawnHasGroup, Cgroup!TableIsTree,
           Cgroup!CleanupCloses, Cgroup!RunsInGroup
  <1>7. Cgroup!DroppedIsKilled'
    BY DEF Cgroup!DroppedIsKilled, Cgroup!SpawnHasGroup, Cgroup!RunsInGroup
  <1>8. Cgroup!RootsAreAimedAt'
    BY DEF Cgroup!RootsAreAimedAt, Cgroup!SpawnHasGroup, Cgroup!RunsInGroup
  <1>9. Cgroup!StrayIsEmpty'
    BY DEF Cgroup!StrayIsEmpty, Cgroup!TableIsTree, Cgroup!RunsInGroup,
           Cgroup!SpawnHasGroup
  <1> QED
    BY <1>1, <1>2, <1>3, <1>4, <1>5, <1>6, <1>7, <1>8, <1>9

\* A cleanup that succeeds has found the directory empty, and everything that
\* ran for the scope was in it.
LEMMA CgroupFinish ==
  ASSUME Cgroup!IndInv, NEW s \in GroupScope, Cgroup!Finish(s)
  PROVE  Cgroup!IndInv'
  <1> USE InfraAssumption DEF Cgroup!IndInv, Cgroup!TypeOK, Cgroup!rootVars, Cgroup!Finish,
                              Cgroup!CleanOk, Cgroup!Populated, Cgroup!Alive
  <1>1. Cgroup!TypeOK'
    BY DEF Cgroup!TypeOK, Cgroup!SpawnHasGroup, Cgroup!RunsInGroup
  <1>2. Cgroup!SpawnHasGroup'
    BY DEF Cgroup!SpawnHasGroup, Cgroup!RunsInGroup, Cgroup!TableIsTree,
           Cgroup!CleanupCloses
  <1>3. Cgroup!TableIsTree'
    <2>1. IsFiniteSet(groups) /\ groups' = groups \ {s}
      BY CgroupFiniteSets DEF Cgroup!TableIsTree
    <2>2. Cgroup!IsFiniteSet(groups')
      BY <2>1, FS_RemoveElement, CgroupFiniteSets
    <2> QED
      BY <2>2 DEF Cgroup!TableIsTree, Cgroup!CleanupCloses, Cgroup!SpawnHasGroup
  <1>4. Cgroup!CleanupCloses'
    BY DEF Cgroup!CleanupCloses
  <1>5. Cgroup!RunsInGroup'
    BY DEF Cgroup!RunsInGroup, Cgroup!SpawnHasGroup, Cgroup!TableIsTree,
           Cgroup!CleanupCloses, Cgroup!CleanedScopeIsGone
  <1>6. Cgroup!CleanedScopeIsGone'
    BY DEF Cgroup!CleanedScopeIsGone, Cgroup!StrayIsEmpty, Cgroup!SpawnHasGroup, Cgroup!TableIsTree,
           Cgroup!CleanupCloses, Cgroup!RunsInGroup
  <1>7. Cgroup!DroppedIsKilled'
    BY DEF Cgroup!DroppedIsKilled, Cgroup!SpawnHasGroup, Cgroup!RunsInGroup
  <1>8. Cgroup!RootsAreAimedAt'
    BY DEF Cgroup!RootsAreAimedAt, Cgroup!SpawnHasGroup, Cgroup!RunsInGroup
  <1>9. Cgroup!StrayIsEmpty'
    BY DEF Cgroup!StrayIsEmpty, Cgroup!TableIsTree, Cgroup!RunsInGroup,
           Cgroup!SpawnHasGroup
  <1> QED
    BY <1>1, <1>2, <1>3, <1>4, <1>5, <1>6, <1>7, <1>8, <1>9

\* A removal that fails keeps the group.
LEMMA CgroupRemoveFails ==
  ASSUME Cgroup!IndInv, NEW s \in GroupScope, Cgroup!RemoveFails(s)
  PROVE  Cgroup!IndInv'
  <1> USE InfraAssumption DEF Cgroup!IndInv, Cgroup!TypeOK, Cgroup!rootVars, Cgroup!RemoveFails,
                              Cgroup!Fail
  <1>1. Cgroup!TypeOK'
    BY DEF Cgroup!TypeOK, Cgroup!SpawnHasGroup, Cgroup!RunsInGroup
  <1>2. Cgroup!SpawnHasGroup'
    BY DEF Cgroup!SpawnHasGroup, Cgroup!RunsInGroup, Cgroup!TableIsTree,
           Cgroup!CleanupCloses
  <1>3. Cgroup!TableIsTree'
    BY FS_AddElement, FS_RemoveElement, FS_EmptySet
       DEF Cgroup!TableIsTree, Cgroup!CleanupCloses, Cgroup!SpawnHasGroup
  <1>4. Cgroup!CleanupCloses'
    BY DEF Cgroup!CleanupCloses
  <1>5. Cgroup!RunsInGroup'
    BY DEF Cgroup!RunsInGroup, Cgroup!SpawnHasGroup, Cgroup!TableIsTree,
           Cgroup!CleanupCloses, Cgroup!CleanedScopeIsGone
  <1>6. Cgroup!CleanedScopeIsGone'
    BY DEF Cgroup!CleanedScopeIsGone, Cgroup!StrayIsEmpty, Cgroup!SpawnHasGroup, Cgroup!TableIsTree,
           Cgroup!CleanupCloses, Cgroup!RunsInGroup, Cgroup!Alive
  <1>7. Cgroup!DroppedIsKilled'
    BY DEF Cgroup!DroppedIsKilled, Cgroup!SpawnHasGroup, Cgroup!RunsInGroup
  <1>8. Cgroup!RootsAreAimedAt'
    BY DEF Cgroup!RootsAreAimedAt, Cgroup!SpawnHasGroup, Cgroup!RunsInGroup
  <1>9. Cgroup!StrayIsEmpty'
    BY DEF Cgroup!StrayIsEmpty, Cgroup!TableIsTree, Cgroup!RunsInGroup,
           Cgroup!SpawnHasGroup
  <1> QED
    BY <1>1, <1>2, <1>3, <1>4, <1>5, <1>6, <1>7, <1>8, <1>9

\* A cleanup that gives up keeps the group.
LEMMA CgroupFinishFails ==
  ASSUME Cgroup!IndInv, NEW s \in GroupScope, Cgroup!FinishFails(s)
  PROVE  Cgroup!IndInv'
  <1> USE InfraAssumption DEF Cgroup!IndInv, Cgroup!TypeOK, Cgroup!rootVars, Cgroup!FinishFails,
                              Cgroup!Fail, Cgroup!kernelVars
  <1>1. Cgroup!TypeOK'
    BY DEF Cgroup!TypeOK, Cgroup!SpawnHasGroup, Cgroup!RunsInGroup
  <1>2. Cgroup!SpawnHasGroup'
    BY DEF Cgroup!SpawnHasGroup, Cgroup!RunsInGroup, Cgroup!TableIsTree,
           Cgroup!CleanupCloses
  <1>3. Cgroup!TableIsTree'
    BY FS_AddElement, FS_RemoveElement, FS_EmptySet
       DEF Cgroup!TableIsTree, Cgroup!CleanupCloses, Cgroup!SpawnHasGroup
  <1>4. Cgroup!CleanupCloses'
    BY DEF Cgroup!CleanupCloses
  <1>5. Cgroup!RunsInGroup'
    BY DEF Cgroup!RunsInGroup, Cgroup!SpawnHasGroup, Cgroup!TableIsTree,
           Cgroup!CleanupCloses, Cgroup!CleanedScopeIsGone
  <1>6. Cgroup!CleanedScopeIsGone'
    BY DEF Cgroup!CleanedScopeIsGone, Cgroup!StrayIsEmpty, Cgroup!SpawnHasGroup, Cgroup!TableIsTree,
           Cgroup!CleanupCloses, Cgroup!RunsInGroup, Cgroup!Alive
  <1>7. Cgroup!DroppedIsKilled'
    BY DEF Cgroup!DroppedIsKilled, Cgroup!SpawnHasGroup, Cgroup!RunsInGroup
  <1>8. Cgroup!RootsAreAimedAt'
    BY DEF Cgroup!RootsAreAimedAt, Cgroup!SpawnHasGroup, Cgroup!RunsInGroup
  <1>9. Cgroup!StrayIsEmpty'
    BY DEF Cgroup!StrayIsEmpty, Cgroup!TableIsTree, Cgroup!RunsInGroup,
           Cgroup!SpawnHasGroup
  <1> QED
    BY <1>1, <1>2, <1>3, <1>4, <1>5, <1>6, <1>7, <1>8, <1>9

\* The drop of the backend: with one failed write at most, every group is
\* killed by kill_all or by its own drop.
LEMMA CgroupDrop ==
  ASSUME Cgroup!IndInv, Cgroup!Drop
  PROVE  Cgroup!IndInv'
  <1>0. PICK f \in SUBSET groups, g \in SUBSET groups :
          /\ groupFails + Cardinality(f) + Cardinality(g) <= MaxGroupFail
          /\ groupFails' = groupFails + Cardinality(f) + Cardinality(g)
          /\ Cgroup!DropBut(f \intersect g)
    BY CgroupFiniteSets DEF Cgroup!Drop
  <1>a. \A h \in SUBSET groups : Cardinality(h) \in Nat /\ (h # {} => Cardinality(h) > 0)
    <2> SUFFICES ASSUME NEW h \in SUBSET groups
                 PROVE  Cardinality(h) \in Nat /\ (h # {} => Cardinality(h) > 0)
      OBVIOUS
    <2>1. IsFiniteSet(h)
      BY FS_Subset, CgroupFiniteSets DEF Cgroup!IndInv, Cgroup!TableIsTree
    <2>2. Cardinality(h) \in Nat /\ (Cardinality(h) = 0 <=> h = {})
      BY <2>1, FS_CardinalityType, FS_EmptySet
    <2> QED
      BY <2>2
  <1>b. groupFails' \in 0 .. MaxGroupFail /\ groupFails' >= groupFails
    BY <1>0, <1>a, InfraAssumption DEF Cgroup!IndInv, Cgroup!TypeOK
  <1>c. groupFails' <= 1 => f \intersect g = {}
    BY <1>0, <1>a DEF Cgroup!IndInv, Cgroup!TypeOK
  <1> USE <1>0, InfraAssumption
  <1> USE DEF Cgroup!IndInv, Cgroup!TypeOK, Cgroup!rootVars,
                              Cgroup!DropBut, Cgroup!Quiet, Cgroup!Doomed,
                              Cgroup!Alive, Cgroup!Members, Cgroup!Removed,
                              Cgroup!Populated, Cgroup!callVars
  <1>1. Cgroup!TypeOK'
    BY <1>b DEF Cgroup!TypeOK, Cgroup!SpawnHasGroup, Cgroup!RunsInGroup
  <1>2. Cgroup!SpawnHasGroup'
    BY DEF Cgroup!SpawnHasGroup, Cgroup!RunsInGroup, Cgroup!TableIsTree,
           Cgroup!CleanupCloses
  <1>3. Cgroup!TableIsTree'
    <2>1. IsFiniteSet(groups) /\ groups' = {}
      BY CgroupFiniteSets DEF Cgroup!TableIsTree
    <2>2. Cgroup!IsFiniteSet(groups')
      BY <2>1, FS_EmptySet, CgroupFiniteSets
    <2> QED
      BY <2>2 DEF Cgroup!TableIsTree, Cgroup!CleanupCloses, Cgroup!SpawnHasGroup
  <1>4. Cgroup!CleanupCloses'
    BY DEF Cgroup!CleanupCloses
  <1>5. Cgroup!RunsInGroup'
    BY DEF Cgroup!RunsInGroup, Cgroup!SpawnHasGroup, Cgroup!TableIsTree,
           Cgroup!CleanupCloses, Cgroup!CleanedScopeIsGone
  <1>6. Cgroup!CleanedScopeIsGone'
    BY DEF Cgroup!CleanedScopeIsGone, Cgroup!StrayIsEmpty, Cgroup!SpawnHasGroup, Cgroup!TableIsTree,
           Cgroup!CleanupCloses, Cgroup!RunsInGroup
  <1>7. Cgroup!DroppedIsKilled'
    BY <1>b, <1>c DEF Cgroup!DroppedIsKilled, Cgroup!SpawnHasGroup, Cgroup!RunsInGroup
  <1>8. Cgroup!RootsAreAimedAt'
    BY DEF Cgroup!RootsAreAimedAt, Cgroup!SpawnHasGroup, Cgroup!RunsInGroup
  <1>9. Cgroup!StrayIsEmpty'
    BY DEF Cgroup!StrayIsEmpty, Cgroup!TableIsTree, Cgroup!RunsInGroup,
           Cgroup!SpawnHasGroup
  <1> QED
    BY <1>1, <1>2, <1>3, <1>4, <1>5, <1>6, <1>7, <1>8, <1>9

\* A crash changes nothing in the kernel.
LEMMA CgroupCrash ==
  ASSUME Cgroup!IndInv, Cgroup!Crash
  PROVE  Cgroup!IndInv'
  <1> USE InfraAssumption DEF Cgroup!IndInv, Cgroup!TypeOK, Cgroup!rootVars, Cgroup!Crash,
                              Cgroup!kernelVars
  <1>1. Cgroup!TypeOK'
    BY DEF Cgroup!TypeOK, Cgroup!SpawnHasGroup, Cgroup!RunsInGroup
  <1>2. Cgroup!SpawnHasGroup'
    BY DEF Cgroup!SpawnHasGroup, Cgroup!RunsInGroup, Cgroup!TableIsTree,
           Cgroup!CleanupCloses
  <1>3. Cgroup!TableIsTree'
    <2>1. IsFiniteSet(groups) /\ groups' = {}
      BY CgroupFiniteSets DEF Cgroup!TableIsTree
    <2>2. Cgroup!IsFiniteSet(groups')
      BY <2>1, FS_EmptySet, CgroupFiniteSets
    <2> QED
      BY <2>2 DEF Cgroup!TableIsTree, Cgroup!CleanupCloses, Cgroup!SpawnHasGroup
  <1>4. Cgroup!CleanupCloses'
    BY DEF Cgroup!CleanupCloses
  <1>5. Cgroup!RunsInGroup'
    BY DEF Cgroup!RunsInGroup, Cgroup!SpawnHasGroup, Cgroup!TableIsTree,
           Cgroup!CleanupCloses, Cgroup!CleanedScopeIsGone
  <1>6. Cgroup!CleanedScopeIsGone'
    BY DEF Cgroup!CleanedScopeIsGone, Cgroup!StrayIsEmpty, Cgroup!SpawnHasGroup, Cgroup!TableIsTree,
           Cgroup!CleanupCloses, Cgroup!RunsInGroup, Cgroup!Alive
  <1>7. Cgroup!DroppedIsKilled'
    BY DEF Cgroup!DroppedIsKilled, Cgroup!SpawnHasGroup, Cgroup!RunsInGroup
  <1>8. Cgroup!RootsAreAimedAt'
    BY DEF Cgroup!RootsAreAimedAt, Cgroup!SpawnHasGroup, Cgroup!RunsInGroup
  <1>9. Cgroup!StrayIsEmpty'
    BY DEF Cgroup!StrayIsEmpty, Cgroup!TableIsTree, Cgroup!RunsInGroup,
           Cgroup!SpawnHasGroup
  <1> QED
    BY <1>1, <1>2, <1>3, <1>4, <1>5, <1>6, <1>7, <1>8, <1>9

\* Every step of the cgroups keeps the invariant.
LEMMA CgroupNext ==
  ASSUME Cgroup!IndInv, [Cgroup!Next]_(Cgroup!vars)
  PROVE  Cgroup!IndInv'
  <1>1. CASE UNCHANGED Cgroup!vars
    BY <1>1
       DEF Cgroup!vars, Cgroup!kernelVars, Cgroup!callVars, Cgroup!rootVars,
           Cgroup!IndInv, Cgroup!RootsAreAimedAt, Cgroup!StrayIsEmpty,
           Cgroup!TypeOK, Cgroup!SpawnHasGroup, Cgroup!TableIsTree,
           Cgroup!CleanupCloses, Cgroup!RunsInGroup, Cgroup!CleanedScopeIsGone,
           Cgroup!Alive, Cgroup!DroppedIsKilled
  <1>2. ASSUME NEW p \in GroupProc,
               \/ Cgroup!Nest(p) \/ Cgroup!End(p) \/ Cgroup!ForkRoot(p)
               \/ Cgroup!JoinExec(p) \/ Cgroup!JoinFails(p)
               \/ Cgroup!Register(p) \/ Cgroup!Reap(p)
        PROVE  Cgroup!IndInv'
    BY <1>2, CgroupNest, CgroupEnd, CgroupForkRoot, CgroupJoinExec,
       CgroupJoinFails, CgroupRegister, CgroupReap
  <1>3. ASSUME NEW p \in GroupProc, NEW q \in GroupProc, Cgroup!Fork(p, q)
        PROVE  Cgroup!IndInv'
    BY <1>3, CgroupFork
  <1>4. ASSUME NEW p \in GroupProc, NEW s \in GroupScope, Cgroup!Membership(p, s)
        PROVE  Cgroup!IndInv'
    BY <1>4, CgroupMembership
  <1>5. ASSUME NEW s \in GroupScope,
               \/ Cgroup!MembershipFails(s) \/ Cgroup!CleanKill(s)
               \/ Cgroup!Finish(s) \/ Cgroup!RemoveFails(s)
               \/ Cgroup!FinishFails(s)
        PROVE  Cgroup!IndInv'
    BY <1>5, CgroupMembershipFails, CgroupCleanKill, CgroupFinish,
       CgroupRemoveFails, CgroupFinishFails
  <1>6. ASSUME NEW ss \in SUBSET GroupScope, Cgroup!HardKill(ss)
        PROVE  Cgroup!IndInv'
    BY <1>6, CgroupHardKill
  <1>7. CASE Cgroup!HardRoots \/ Cgroup!Drop \/ Cgroup!Crash
    BY <1>7, CgroupHardRoots, CgroupDrop, CgroupCrash
  <1>8. \A s \in GroupScope : {s} \in SUBSET GroupScope
    OBVIOUS
  <1>9. GroupScope \in SUBSET GroupScope
    OBVIOUS
  <1> QED
    BY <1>1, <1>2, <1>3, <1>4, <1>5, <1>6, <1>7, <1>8, <1>9 DEF Cgroup!Next

\* The invariant of the cgroups, for any number of scopes and processes and any
\* number of failing calls.
THEOREM CgroupInvariant == Cgroup!Spec => []Cgroup!IndInv
  <1>1. Cgroup!IndInv /\ [Cgroup!Next]_(Cgroup!vars) => Cgroup!IndInv'
    BY CgroupNext
  <1> QED
    BY <1>1, CgroupStart, PTL DEF Cgroup!Spec

\* cleanup_scope with cgroups: once it has returned Ok the scope has no process,
\* detached ones included, and no directory, unless it is the one that a failed
\* Group::create could not remove, in which no process was ever started.
THEOREM CleanedCgroupIsGone == Cgroup!Spec => []Cgroup!CleanedScopeIsGone
  <1>1. Cgroup!IndInv => Cgroup!CleanedScopeIsGone
    BY DEF Cgroup!IndInv
  <1> QED
    BY <1>1, CgroupInvariant, PTL

\* Containment by cgroups: user code runs in the directory of its scope only,
\* which cgroup.kill can reach, and a dropped backend leaves nothing running
\* unless two of its writes failed.
THEOREM CgroupsContain ==
  Cgroup!Spec => [](Cgroup!RunsInGroup /\ Cgroup!DroppedIsKilled)
  <1>1. Cgroup!IndInv => Cgroup!RunsInGroup /\ Cgroup!DroppedIsKilled
    BY DEF Cgroup!IndInv
  <1> QED
    BY <1>1, CgroupInvariant, PTL

\* A hard kill ends every root that was registered when it began, although one
\* thing failed before or during it: between its two critical sections nothing
\* takes a root back, whose cgroup was killed or whose pidfd is there.
THEOREM HardKillFallsBack == Cgroup!Spec => Cgroup!HardKillReachesRoots
  <1>1. ASSUME Cgroup!IndInv, Cgroup!Next, hard # {}, hard' = {}, groupUp' = "up",
               groupFails <= 1, NEW p \in aimed
        PROVE  ps'[p] # "running"
    <2>1. CASE Cgroup!HardRoots
      <3>1. PICK skipped \in SUBSET (Cgroup!RootsOf(hard) \ pidfd) :
              ps' = Cgroup!Doomed(Cgroup!RootsOf(hard) \ skipped)
        BY <2>1 DEF Cgroup!HardRoots
      <3>2. CASE ps[p] # "running"
        BY <1>1, <3>1, <3>2 DEF Cgroup!Doomed, Cgroup!Alive, Cgroup!IndInv, Cgroup!TypeOK
      <3>3. CASE ps[p] = "running"
        <4>1. p \in Cgroup!RootsOf(hard) /\ p \in pidfd
          BY <1>1, <3>3, InfraAssumption
             DEF Cgroup!IndInv, Cgroup!TypeOK, Cgroup!RootsAreAimedAt, Cgroup!RootsOf
        <4> QED
          BY <1>1, <3>1, <4>1 DEF Cgroup!Doomed, Cgroup!Alive, Cgroup!IndInv, Cgroup!TypeOK
      <3> QED
        BY <3>2, <3>3
    <2>2. CASE ~Cgroup!HardRoots
      BY <1>1, <2>2
         DEF Cgroup!Next, Cgroup!Nest, Cgroup!End, Cgroup!ForkRoot,
             Cgroup!JoinExec, Cgroup!JoinFails, Cgroup!Register, Cgroup!Reap,
             Cgroup!Fork, Cgroup!Membership, Cgroup!MembershipFails,
             Cgroup!CleanKill, Cgroup!Finish, Cgroup!CleanOk, Cgroup!RemoveFails,
             Cgroup!FinishFails, Cgroup!HardKill, Cgroup!Drop, Cgroup!DropBut,
             Cgroup!Crash, Cgroup!callVars
    <2> QED
      BY <2>1, <2>2
  <1>2. Cgroup!IndInv /\ [Cgroup!Next]_(Cgroup!vars) =>
          [hard # {} /\ hard' = {} /\ groupUp' = "up" /\ groupFails <= 1 =>
             \A p \in aimed : ps'[p] # "running"]_(Cgroup!vars)
    BY <1>1
  <1> QED
    BY <1>2, CgroupInvariant, PTL DEF Cgroup!Spec, Cgroup!HardKillReachesRoots

-----------------------------------------------------------------------------
(* Job Objects.                                                              *)

\* What is assumed of the constants holds of both parts.
LEMMA JobConstants ==
  ASSUME NEW CONSTANT k \in BOOLEAN
  PROVE  /\ NoScope \notin JobScopes(k) /\ NoProc \notin JobProcs(k)
         /\ MaxJobFails(k) \in Nat
  BY InfraAssumption DEF JobScopes, JobProcs, MaxJobFails

\* The invariant holds initially.
LEMMA JobStart ==
  ASSUME NEW CONSTANT k \in BOOLEAN
  PROVE  Jobs(k)!Init => Jobs(k)!IndInv
  <1> SUFFICES ASSUME Jobs(k)!Init PROVE Jobs(k)!IndInv
    OBVIOUS
  <1>1. Jobs(k)!TypeOK
    BY JobConstants DEF Jobs!Init, Jobs!TypeOK
  <1>2. Jobs(k)!SpawnIsSuspended /\ Jobs(k)!CleanupCloses /\ Jobs(k)!FlagBeforeKill
    BY DEF Jobs!Init, Jobs!SpawnIsSuspended, Jobs!CleanupCloses,
           Jobs!FlagBeforeKill, Jobs!Alive, Jobs!SlotsOf, Jobs!KILLED,
           Jobs!STILL_ACTIVE
  <1>3. Jobs(k)!WaiterHasSlot /\ Jobs(k)!CallerKnows /\ Jobs(k)!RunsInJob
    BY DEF Jobs!Init, Jobs!WaiterHasSlot, Jobs!CallerKnows, Jobs!RunsInJob
  <1>4. /\ Jobs(k)!CleanedScopeIsDead /\ Jobs(k)!OrderedDeathIsKill
        /\ Jobs(k)!KillWasOrdered /\ Jobs(k)!KillIsOurs
    BY DEF Jobs!Init, Jobs!CleanedScopeIsDead, Jobs!OrderedDeathIsKill,
           Jobs!KillWasOrdered, Jobs!KillIsOurs
  <1> QED
    BY <1>1, <1>2, <1>3, <1>4 DEF Jobs!IndInv

\* A descendant is born in the job of its parent.
LEMMA JobFork ==
  ASSUME NEW CONSTANT k \in BOOLEAN, Jobs(k)!IndInv, NEW p \in JobProcs(k),
         NEW q \in JobProcs(k), Jobs(k)!Fork(p, q)
  PROVE  Jobs(k)!IndInv'
  <1> USE JobConstants DEF Jobs!IndInv, Jobs!TypeOK, Jobs!Fork, Jobs!stateVars,
                              Jobs!scopeVars, Jobs!workVars, Jobs!callVars
  <1>1. Jobs(k)!TypeOK'
    BY DEF Jobs!TypeOK, Jobs!SpawnIsSuspended, Jobs!CallerKnows, Jobs!WaiterHasSlot,
           Jobs!RunsInJob
  <1>2. Jobs(k)!SpawnIsSuspended'
    BY DEF Jobs!SpawnIsSuspended, Jobs!Leftover, Jobs!Alive, Jobs!FlagBeforeKill, Jobs!RunsInJob,
           Jobs!CleanupCloses, Jobs!WaiterHasSlot
  <1>3. Jobs(k)!CleanupCloses'
    BY DEF Jobs!CleanupCloses
  <1>4. Jobs(k)!FlagBeforeKill'
    BY DEF Jobs!FlagBeforeKill, Jobs!SlotsOf, Jobs!KILLED, Jobs!STILL_ACTIVE,
           Jobs!SpawnIsSuspended, Jobs!WaiterHasSlot, Jobs!Alive
  <1>5. Jobs(k)!WaiterHasSlot'
    BY DEF Jobs!WaiterHasSlot, Jobs!SpawnIsSuspended, Jobs!CallerKnows, Jobs!Alive
  <1>6. Jobs(k)!CallerKnows'
    BY DEF Jobs!CallerKnows, Jobs!WaiterHasSlot
  <1>7. Jobs(k)!RunsInJob'
    BY DEF Jobs!RunsInJob, Jobs!SpawnIsSuspended, Jobs!Alive
  <1>8. Jobs(k)!CleanedScopeIsDead'
    BY DEF Jobs!CleanedScopeIsDead, Jobs!Leftover, Jobs!Alive, Jobs!SpawnIsSuspended,
           Jobs!CleanupCloses, Jobs!RunsInJob
  <1>9. Jobs(k)!OrderedDeathIsKill'
    BY DEF Jobs!OrderedDeathIsKill, Jobs!FlagBeforeKill, Jobs!WaiterHasSlot,
           Jobs!Alive
  <1>10. Jobs(k)!KillWasOrdered'
    BY DEF Jobs!KillWasOrdered
  <1>11. Jobs(k)!KillIsOurs'
    BY DEF Jobs!KillIsOurs, Jobs!FlagBeforeKill, Jobs!KILLED, Jobs!WaiterHasSlot
  <1> QED
    BY <1>1, <1>2, <1>3, <1>4, <1>5, <1>6, <1>7, <1>8, <1>9, <1>10, <1>11

\* A program that ends by itself was not ended by a kill.
LEMMA JobEnd ==
  ASSUME NEW CONSTANT k \in BOOLEAN, Jobs(k)!IndInv, NEW p \in JobProcs(k),
         NEW c \in JobCodes(k), Jobs(k)!End(p, c)
  PROVE  Jobs(k)!IndInv'
  <1> USE JobConstants DEF Jobs!IndInv, Jobs!TypeOK, Jobs!End, Jobs!stateVars,
                              Jobs!scopeVars, Jobs!workVars, Jobs!callVars
  <1>1. Jobs(k)!TypeOK'
    BY DEF Jobs!TypeOK, Jobs!SpawnIsSuspended, Jobs!CallerKnows, Jobs!WaiterHasSlot,
           Jobs!RunsInJob
  <1>2. Jobs(k)!SpawnIsSuspended'
    BY DEF Jobs!SpawnIsSuspended, Jobs!Leftover, Jobs!Alive, Jobs!FlagBeforeKill, Jobs!RunsInJob,
           Jobs!CleanupCloses, Jobs!WaiterHasSlot
  <1>3. Jobs(k)!CleanupCloses'
    BY DEF Jobs!CleanupCloses
  <1>4. Jobs(k)!FlagBeforeKill'
    BY DEF Jobs!FlagBeforeKill, Jobs!SlotsOf, Jobs!KILLED, Jobs!STILL_ACTIVE,
           Jobs!SpawnIsSuspended, Jobs!WaiterHasSlot, Jobs!Alive
  <1>5. Jobs(k)!WaiterHasSlot'
    BY DEF Jobs!WaiterHasSlot, Jobs!SpawnIsSuspended, Jobs!CallerKnows, Jobs!Alive
  <1>6. Jobs(k)!CallerKnows'
    BY DEF Jobs!CallerKnows, Jobs!WaiterHasSlot
  <1>7. Jobs(k)!RunsInJob'
    BY DEF Jobs!RunsInJob, Jobs!SpawnIsSuspended, Jobs!Alive
  <1>8. Jobs(k)!CleanedScopeIsDead'
    BY DEF Jobs!CleanedScopeIsDead, Jobs!Leftover, Jobs!Alive, Jobs!SpawnIsSuspended,
           Jobs!CleanupCloses, Jobs!RunsInJob
  <1>9. Jobs(k)!OrderedDeathIsKill'
    BY DEF Jobs!OrderedDeathIsKill, Jobs!FlagBeforeKill, Jobs!WaiterHasSlot,
           Jobs!Alive
  <1>10. Jobs(k)!KillWasOrdered'
    BY DEF Jobs!KillWasOrdered
  <1>11. Jobs(k)!KillIsOurs'
    BY DEF Jobs!KillIsOurs, Jobs!FlagBeforeKill, Jobs!KILLED, Jobs!WaiterHasSlot
  <1> QED
    BY <1>1, <1>2, <1>3, <1>4, <1>5, <1>6, <1>7, <1>8, <1>9, <1>10, <1>11

\* A termination takes effect; an ordered one has the code of the backend.
LEMMA JobDie ==
  ASSUME NEW CONSTANT k \in BOOLEAN, Jobs(k)!IndInv, NEW p \in JobProcs(k),
         Jobs(k)!Die(p)
  PROVE  Jobs(k)!IndInv'
  <1> USE JobConstants DEF Jobs!IndInv, Jobs!TypeOK, Jobs!Die, Jobs!stateVars,
                              Jobs!scopeVars, Jobs!workVars, Jobs!callVars
  <1>1. Jobs(k)!TypeOK'
    BY DEF Jobs!TypeOK, Jobs!SpawnIsSuspended, Jobs!CallerKnows, Jobs!WaiterHasSlot,
           Jobs!RunsInJob
  <1>2. Jobs(k)!SpawnIsSuspended'
    BY DEF Jobs!SpawnIsSuspended, Jobs!Leftover, Jobs!Alive, Jobs!FlagBeforeKill, Jobs!RunsInJob,
           Jobs!CleanupCloses, Jobs!WaiterHasSlot
  <1>3. Jobs(k)!CleanupCloses'
    BY DEF Jobs!CleanupCloses
  <1>4. Jobs(k)!FlagBeforeKill'
    BY DEF Jobs!FlagBeforeKill, Jobs!SlotsOf, Jobs!KILLED, Jobs!STILL_ACTIVE,
           Jobs!SpawnIsSuspended, Jobs!WaiterHasSlot, Jobs!Alive
  <1>5. Jobs(k)!WaiterHasSlot'
    BY DEF Jobs!WaiterHasSlot, Jobs!SpawnIsSuspended, Jobs!CallerKnows, Jobs!Alive
  <1>6. Jobs(k)!CallerKnows'
    BY DEF Jobs!CallerKnows, Jobs!WaiterHasSlot
  <1>7. Jobs(k)!RunsInJob'
    BY DEF Jobs!RunsInJob, Jobs!SpawnIsSuspended, Jobs!Alive
  <1>8. Jobs(k)!CleanedScopeIsDead'
    BY DEF Jobs!CleanedScopeIsDead, Jobs!Leftover, Jobs!Alive, Jobs!SpawnIsSuspended,
           Jobs!CleanupCloses, Jobs!RunsInJob
  <1>9. Jobs(k)!OrderedDeathIsKill'
    BY DEF Jobs!OrderedDeathIsKill, Jobs!FlagBeforeKill, Jobs!WaiterHasSlot,
           Jobs!Alive
  <1>10. Jobs(k)!KillWasOrdered'
    BY DEF Jobs!KillWasOrdered
  <1>11. Jobs(k)!KillIsOurs'
    BY DEF Jobs!KillIsOurs, Jobs!FlagBeforeKill, Jobs!KILLED, Jobs!WaiterHasSlot
  <1> QED
    BY <1>1, <1>2, <1>3, <1>4, <1>5, <1>6, <1>7, <1>8, <1>9, <1>10, <1>11

\* A root is created suspended.
LEMMA JobCreate ==
  ASSUME NEW CONSTANT k \in BOOLEAN, Jobs(k)!IndInv, NEW p \in JobProcs(k),
         NEW s \in JobScopes(k), Jobs(k)!Create(p, s)
  PROVE  Jobs(k)!IndInv'
  <1> USE JobConstants DEF Jobs!IndInv, Jobs!TypeOK, Jobs!Create, Jobs!stateVars,
                              Jobs!scopeVars, Jobs!workVars, Jobs!callVars
  <1>1. Jobs(k)!TypeOK'
    BY DEF Jobs!TypeOK, Jobs!SpawnIsSuspended, Jobs!CallerKnows, Jobs!WaiterHasSlot,
           Jobs!RunsInJob
  <1>2. Jobs(k)!SpawnIsSuspended'
    BY DEF Jobs!SpawnIsSuspended, Jobs!Leftover, Jobs!Alive, Jobs!FlagBeforeKill, Jobs!RunsInJob,
           Jobs!CleanupCloses, Jobs!WaiterHasSlot
  <1>3. Jobs(k)!CleanupCloses'
    BY DEF Jobs!CleanupCloses
  <1>4. Jobs(k)!FlagBeforeKill'
    BY DEF Jobs!FlagBeforeKill, Jobs!SlotsOf, Jobs!KILLED, Jobs!STILL_ACTIVE,
           Jobs!SpawnIsSuspended, Jobs!WaiterHasSlot, Jobs!Alive
  <1>5. Jobs(k)!WaiterHasSlot'
    BY DEF Jobs!WaiterHasSlot, Jobs!SpawnIsSuspended, Jobs!CallerKnows, Jobs!Alive
  <1>6. Jobs(k)!CallerKnows'
    BY DEF Jobs!CallerKnows, Jobs!WaiterHasSlot
  <1>7. Jobs(k)!RunsInJob'
    BY DEF Jobs!RunsInJob, Jobs!SpawnIsSuspended, Jobs!Alive
  <1>8. Jobs(k)!CleanedScopeIsDead'
    BY DEF Jobs!CleanedScopeIsDead, Jobs!Leftover, Jobs!Alive, Jobs!SpawnIsSuspended,
           Jobs!CleanupCloses, Jobs!RunsInJob
  <1>9. Jobs(k)!OrderedDeathIsKill'
    BY DEF Jobs!OrderedDeathIsKill, Jobs!FlagBeforeKill, Jobs!WaiterHasSlot,
           Jobs!Alive
  <1>10. Jobs(k)!KillWasOrdered'
    BY DEF Jobs!KillWasOrdered
  <1>11. Jobs(k)!KillIsOurs'
    BY DEF Jobs!KillIsOurs, Jobs!FlagBeforeKill, Jobs!KILLED, Jobs!WaiterHasSlot
  <1> QED
    BY <1>1, <1>2, <1>3, <1>4, <1>5, <1>6, <1>7, <1>8, <1>9, <1>10, <1>11

\* Assignment under the mutex.
LEMMA JobAssign ==
  ASSUME NEW CONSTANT k \in BOOLEAN, Jobs(k)!IndInv, NEW p \in JobProcs(k),
         Jobs(k)!Assign(p)
  PROVE  Jobs(k)!IndInv'
  <1> USE JobConstants DEF Jobs!IndInv, Jobs!TypeOK, Jobs!Assign, Jobs!Locked,
                              Jobs!scopeVars, Jobs!workVars, Jobs!callVars
  <1>1. Jobs(k)!TypeOK'
    BY DEF Jobs!TypeOK, Jobs!SpawnIsSuspended, Jobs!CallerKnows, Jobs!WaiterHasSlot,
           Jobs!RunsInJob
  <1>2. Jobs(k)!SpawnIsSuspended'
    BY DEF Jobs!SpawnIsSuspended, Jobs!Leftover, Jobs!Alive, Jobs!FlagBeforeKill, Jobs!RunsInJob,
           Jobs!CleanupCloses, Jobs!WaiterHasSlot
  <1>3. Jobs(k)!CleanupCloses'
    BY DEF Jobs!CleanupCloses
  <1>4. Jobs(k)!FlagBeforeKill'
    BY DEF Jobs!FlagBeforeKill, Jobs!SlotsOf, Jobs!KILLED, Jobs!STILL_ACTIVE,
           Jobs!SpawnIsSuspended, Jobs!WaiterHasSlot, Jobs!Alive
  <1>5. Jobs(k)!WaiterHasSlot'
    BY DEF Jobs!WaiterHasSlot, Jobs!SpawnIsSuspended, Jobs!CallerKnows, Jobs!Alive
  <1>6. Jobs(k)!CallerKnows'
    BY DEF Jobs!CallerKnows, Jobs!WaiterHasSlot
  <1>7. Jobs(k)!RunsInJob'
    BY DEF Jobs!RunsInJob, Jobs!SpawnIsSuspended, Jobs!Alive
  <1>8. Jobs(k)!CleanedScopeIsDead'
    BY DEF Jobs!CleanedScopeIsDead, Jobs!Leftover, Jobs!Alive, Jobs!SpawnIsSuspended,
           Jobs!CleanupCloses, Jobs!RunsInJob
  <1>9. Jobs(k)!OrderedDeathIsKill'
    BY DEF Jobs!OrderedDeathIsKill, Jobs!FlagBeforeKill, Jobs!WaiterHasSlot,
           Jobs!Alive
  <1>10. Jobs(k)!KillWasOrdered'
    BY DEF Jobs!KillWasOrdered
  <1>11. Jobs(k)!KillIsOurs'
    BY DEF Jobs!KillIsOurs, Jobs!FlagBeforeKill, Jobs!KILLED, Jobs!WaiterHasSlot
  <1> QED
    BY <1>1, <1>2, <1>3, <1>4, <1>5, <1>6, <1>7, <1>8, <1>9, <1>10, <1>11

\* A root runs once it is in the job, and not if a kill came first.
LEMMA JobResume ==
  ASSUME NEW CONSTANT k \in BOOLEAN, Jobs(k)!IndInv, NEW p \in JobProcs(k),
         Jobs(k)!Resume(p)
  PROVE  Jobs(k)!IndInv'
  <1> USE JobConstants DEF Jobs!IndInv, Jobs!TypeOK, Jobs!Resume, Jobs!scopeVars,
                              Jobs!callVars
  <1>1. Jobs(k)!TypeOK'
    BY DEF Jobs!TypeOK, Jobs!SpawnIsSuspended, Jobs!CallerKnows, Jobs!WaiterHasSlot,
           Jobs!RunsInJob
  <1>2. Jobs(k)!SpawnIsSuspended'
    BY DEF Jobs!SpawnIsSuspended, Jobs!Leftover, Jobs!Alive, Jobs!FlagBeforeKill, Jobs!RunsInJob,
           Jobs!CleanupCloses, Jobs!WaiterHasSlot
  <1>3. Jobs(k)!CleanupCloses'
    BY DEF Jobs!CleanupCloses
  <1>4. Jobs(k)!FlagBeforeKill'
    BY DEF Jobs!FlagBeforeKill, Jobs!SlotsOf, Jobs!KILLED, Jobs!STILL_ACTIVE,
           Jobs!SpawnIsSuspended, Jobs!WaiterHasSlot, Jobs!Alive
  <1>5. Jobs(k)!WaiterHasSlot'
    BY DEF Jobs!WaiterHasSlot, Jobs!SpawnIsSuspended, Jobs!CallerKnows, Jobs!Alive
  <1>6. Jobs(k)!CallerKnows'
    BY DEF Jobs!CallerKnows, Jobs!WaiterHasSlot
  <1>7. Jobs(k)!RunsInJob'
    BY DEF Jobs!RunsInJob, Jobs!SpawnIsSuspended, Jobs!Alive
  <1>8. Jobs(k)!CleanedScopeIsDead'
    BY DEF Jobs!CleanedScopeIsDead, Jobs!Leftover, Jobs!Alive, Jobs!SpawnIsSuspended,
           Jobs!CleanupCloses, Jobs!RunsInJob
  <1>9. Jobs(k)!OrderedDeathIsKill'
    BY DEF Jobs!OrderedDeathIsKill, Jobs!FlagBeforeKill, Jobs!WaiterHasSlot,
           Jobs!Alive
  <1>10. Jobs(k)!KillWasOrdered'
    BY DEF Jobs!KillWasOrdered
  <1>11. Jobs(k)!KillIsOurs'
    BY DEF Jobs!KillIsOurs, Jobs!FlagBeforeKill, Jobs!KILLED, Jobs!WaiterHasSlot
  <1> QED
    BY <1>1, <1>2, <1>3, <1>4, <1>5, <1>6, <1>7, <1>8, <1>9, <1>10, <1>11

\* A setup that fails.
LEMMA JobSetupFails ==
  ASSUME NEW CONSTANT k \in BOOLEAN, Jobs(k)!IndInv, NEW p \in JobProcs(k),
         Jobs(k)!SetupFails(p)
  PROVE  Jobs(k)!IndInv'
  <1> USE JobConstants DEF Jobs!IndInv, Jobs!TypeOK, Jobs!SetupFails, Jobs!Fail,
                              Jobs!Locked, Jobs!kernelVars, Jobs!scopeVars,
                              Jobs!workVars, Jobs!callVars
  <1>1. Jobs(k)!TypeOK'
    BY DEF Jobs!TypeOK, Jobs!SpawnIsSuspended, Jobs!CallerKnows, Jobs!WaiterHasSlot,
           Jobs!RunsInJob
  <1>2. Jobs(k)!SpawnIsSuspended'
    BY DEF Jobs!SpawnIsSuspended, Jobs!Leftover, Jobs!Alive, Jobs!FlagBeforeKill, Jobs!RunsInJob,
           Jobs!CleanupCloses, Jobs!WaiterHasSlot
  <1>3. Jobs(k)!CleanupCloses'
    BY DEF Jobs!CleanupCloses
  <1>4. Jobs(k)!FlagBeforeKill'
    BY DEF Jobs!FlagBeforeKill, Jobs!SlotsOf, Jobs!KILLED, Jobs!STILL_ACTIVE,
           Jobs!SpawnIsSuspended, Jobs!WaiterHasSlot, Jobs!Alive
  <1>5. Jobs(k)!WaiterHasSlot'
    BY DEF Jobs!WaiterHasSlot, Jobs!SpawnIsSuspended, Jobs!CallerKnows, Jobs!Alive
  <1>6. Jobs(k)!CallerKnows'
    BY DEF Jobs!CallerKnows, Jobs!WaiterHasSlot
  <1>7. Jobs(k)!RunsInJob'
    BY DEF Jobs!RunsInJob, Jobs!SpawnIsSuspended, Jobs!Alive
  <1>8. Jobs(k)!CleanedScopeIsDead'
    BY DEF Jobs!CleanedScopeIsDead, Jobs!Leftover, Jobs!Alive, Jobs!SpawnIsSuspended,
           Jobs!CleanupCloses, Jobs!RunsInJob
  <1>9. Jobs(k)!OrderedDeathIsKill'
    BY DEF Jobs!OrderedDeathIsKill, Jobs!FlagBeforeKill, Jobs!WaiterHasSlot,
           Jobs!Alive
  <1>10. Jobs(k)!KillWasOrdered'
    BY DEF Jobs!KillWasOrdered
  <1>11. Jobs(k)!KillIsOurs'
    BY DEF Jobs!KillIsOurs, Jobs!FlagBeforeKill, Jobs!KILLED, Jobs!WaiterHasSlot
  <1> QED
    BY <1>1, <1>2, <1>3, <1>4, <1>5, <1>6, <1>7, <1>8, <1>9, <1>10, <1>11

\* A failed setup kills its root, if it can.
LEMMA JobUndoKill ==
  ASSUME NEW CONSTANT k \in BOOLEAN, Jobs(k)!IndInv, NEW p \in JobProcs(k),
         Jobs(k)!UndoKill(p)
  PROVE  Jobs(k)!IndInv'
  <1> USE JobConstants DEF Jobs!IndInv, Jobs!TypeOK, Jobs!UndoKill, Jobs!Fail,
                              Jobs!Terminated, Jobs!Alive,
                              Jobs!stateVars, Jobs!scopeVars, Jobs!workVars,
                              Jobs!callVars
  <1>1. Jobs(k)!TypeOK'
    BY DEF Jobs!TypeOK, Jobs!SpawnIsSuspended, Jobs!CallerKnows, Jobs!WaiterHasSlot,
           Jobs!RunsInJob
  <1>2. Jobs(k)!SpawnIsSuspended'
    BY DEF Jobs!SpawnIsSuspended, Jobs!Leftover, Jobs!Alive, Jobs!FlagBeforeKill, Jobs!RunsInJob,
           Jobs!CleanupCloses, Jobs!WaiterHasSlot
  <1>3. Jobs(k)!CleanupCloses'
    BY DEF Jobs!CleanupCloses
  <1>4. Jobs(k)!FlagBeforeKill'
    BY DEF Jobs!FlagBeforeKill, Jobs!SlotsOf, Jobs!KILLED, Jobs!STILL_ACTIVE,
           Jobs!SpawnIsSuspended, Jobs!WaiterHasSlot, Jobs!Alive
  <1>5. Jobs(k)!WaiterHasSlot'
    BY DEF Jobs!WaiterHasSlot, Jobs!SpawnIsSuspended, Jobs!CallerKnows, Jobs!Alive
  <1>6. Jobs(k)!CallerKnows'
    BY DEF Jobs!CallerKnows, Jobs!WaiterHasSlot
  <1>7. Jobs(k)!RunsInJob'
    BY DEF Jobs!RunsInJob, Jobs!SpawnIsSuspended, Jobs!Alive
  <1>8. Jobs(k)!CleanedScopeIsDead'
    BY DEF Jobs!CleanedScopeIsDead, Jobs!Leftover, Jobs!Alive, Jobs!SpawnIsSuspended,
           Jobs!CleanupCloses, Jobs!RunsInJob
  <1>9. Jobs(k)!OrderedDeathIsKill'
    BY DEF Jobs!OrderedDeathIsKill, Jobs!FlagBeforeKill, Jobs!WaiterHasSlot,
           Jobs!Alive
  <1>10. Jobs(k)!KillWasOrdered'
    BY DEF Jobs!KillWasOrdered
  <1>11. Jobs(k)!KillIsOurs'
    BY DEF Jobs!KillIsOurs, Jobs!FlagBeforeKill, Jobs!KILLED, Jobs!WaiterHasSlot
  <1> QED
    BY <1>1, <1>2, <1>3, <1>4, <1>5, <1>6, <1>7, <1>8, <1>9, <1>10, <1>11

\* A setup that cannot wait for its root either leaves it behind, in its job or
\* in none.
LEMMA JobUndoWait ==
  ASSUME NEW CONSTANT k \in BOOLEAN, Jobs(k)!IndInv, NEW p \in JobProcs(k),
         Jobs(k)!UndoWait(p)
  PROVE  Jobs(k)!IndInv'
  <1> USE JobConstants DEF Jobs!IndInv, Jobs!TypeOK, Jobs!UndoWait, Jobs!Fail,
                              Jobs!kernelVars,
                              Jobs!stateVars, Jobs!scopeVars, Jobs!workVars,
                              Jobs!callVars
  <1>1. Jobs(k)!TypeOK'
    BY DEF Jobs!TypeOK, Jobs!SpawnIsSuspended, Jobs!CallerKnows, Jobs!WaiterHasSlot,
           Jobs!RunsInJob
  <1>2. Jobs(k)!SpawnIsSuspended'
    BY DEF Jobs!SpawnIsSuspended, Jobs!Leftover, Jobs!Alive, Jobs!FlagBeforeKill, Jobs!RunsInJob,
           Jobs!CleanupCloses, Jobs!WaiterHasSlot
  <1>3. Jobs(k)!CleanupCloses'
    BY DEF Jobs!CleanupCloses
  <1>4. Jobs(k)!FlagBeforeKill'
    BY DEF Jobs!FlagBeforeKill, Jobs!SlotsOf, Jobs!KILLED, Jobs!STILL_ACTIVE,
           Jobs!SpawnIsSuspended, Jobs!WaiterHasSlot, Jobs!Alive
  <1>5. Jobs(k)!WaiterHasSlot'
    BY DEF Jobs!WaiterHasSlot, Jobs!SpawnIsSuspended, Jobs!CallerKnows, Jobs!Alive
  <1>6. Jobs(k)!CallerKnows'
    BY DEF Jobs!CallerKnows, Jobs!WaiterHasSlot
  <1>7. Jobs(k)!RunsInJob'
    BY DEF Jobs!RunsInJob, Jobs!SpawnIsSuspended, Jobs!Alive
  <1>8. Jobs(k)!CleanedScopeIsDead'
    BY DEF Jobs!CleanedScopeIsDead, Jobs!Leftover, Jobs!Alive, Jobs!SpawnIsSuspended,
           Jobs!CleanupCloses, Jobs!RunsInJob
  <1>9. Jobs(k)!OrderedDeathIsKill'
    BY DEF Jobs!OrderedDeathIsKill, Jobs!FlagBeforeKill, Jobs!WaiterHasSlot,
           Jobs!Alive
  <1>10. Jobs(k)!KillWasOrdered'
    BY DEF Jobs!KillWasOrdered
  <1>11. Jobs(k)!KillIsOurs'
    BY DEF Jobs!KillIsOurs, Jobs!FlagBeforeKill, Jobs!KILLED, Jobs!WaiterHasSlot
  <1> QED
    BY <1>1, <1>2, <1>3, <1>4, <1>5, <1>6, <1>7, <1>8, <1>9, <1>10, <1>11

\* A kill of one root sets its flag.
LEMMA JobSignal ==
  ASSUME NEW CONSTANT k \in BOOLEAN, Jobs(k)!IndInv, NEW p \in JobProcs(k),
         Jobs(k)!Signal(p)
  PROVE  Jobs(k)!IndInv'
  <1> USE JobConstants DEF Jobs!IndInv, Jobs!TypeOK, Jobs!Signal,
                              Jobs!Terminated, Jobs!scopeVars, Jobs!workVars,
                              Jobs!callVars
  <1>1. Jobs(k)!TypeOK'
    BY DEF Jobs!TypeOK, Jobs!SpawnIsSuspended, Jobs!CallerKnows, Jobs!WaiterHasSlot,
           Jobs!RunsInJob
  <1>2. Jobs(k)!SpawnIsSuspended'
    BY DEF Jobs!SpawnIsSuspended, Jobs!Leftover, Jobs!Alive, Jobs!FlagBeforeKill, Jobs!RunsInJob,
           Jobs!CleanupCloses, Jobs!WaiterHasSlot
  <1>3. Jobs(k)!CleanupCloses'
    BY DEF Jobs!CleanupCloses
  <1>4. Jobs(k)!FlagBeforeKill'
    BY DEF Jobs!FlagBeforeKill, Jobs!SlotsOf, Jobs!KILLED, Jobs!STILL_ACTIVE,
           Jobs!SpawnIsSuspended, Jobs!WaiterHasSlot, Jobs!Alive
  <1>5. Jobs(k)!WaiterHasSlot'
    BY DEF Jobs!WaiterHasSlot, Jobs!SpawnIsSuspended, Jobs!CallerKnows, Jobs!Alive
  <1>6. Jobs(k)!CallerKnows'
    BY DEF Jobs!CallerKnows, Jobs!WaiterHasSlot
  <1>7. Jobs(k)!RunsInJob'
    BY DEF Jobs!RunsInJob, Jobs!SpawnIsSuspended, Jobs!Alive
  <1>8. Jobs(k)!CleanedScopeIsDead'
    BY DEF Jobs!CleanedScopeIsDead, Jobs!Leftover, Jobs!Alive, Jobs!SpawnIsSuspended,
           Jobs!CleanupCloses, Jobs!RunsInJob
  <1>9. Jobs(k)!OrderedDeathIsKill'
    BY DEF Jobs!OrderedDeathIsKill, Jobs!FlagBeforeKill, Jobs!WaiterHasSlot,
           Jobs!Alive
  <1>10. Jobs(k)!KillWasOrdered'
    BY DEF Jobs!KillWasOrdered
  <1>11. Jobs(k)!KillIsOurs'
    BY DEF Jobs!KillIsOurs, Jobs!FlagBeforeKill, Jobs!KILLED, Jobs!WaiterHasSlot
  <1> QED
    BY <1>1, <1>2, <1>3, <1>4, <1>5, <1>6, <1>7, <1>8, <1>9, <1>10, <1>11

\* A hard kill flags every slot of its scopes.
LEMMA JobHardFlag ==
  ASSUME NEW CONSTANT k \in BOOLEAN, Jobs(k)!IndInv,
         NEW ss \in SUBSET JobScopes(k), Jobs(k)!HardFlag(ss)
  PROVE  Jobs(k)!IndInv'
  <1> USE JobConstants DEF Jobs!IndInv, Jobs!TypeOK, Jobs!HardFlag, Jobs!Locked,
                              Jobs!SlotsOf, Jobs!kernelVars, Jobs!workVars,
                              Jobs!callVars
  <1>1. Jobs(k)!TypeOK'
    BY DEF Jobs!TypeOK, Jobs!SpawnIsSuspended, Jobs!CallerKnows, Jobs!WaiterHasSlot,
           Jobs!RunsInJob
  <1>2. Jobs(k)!SpawnIsSuspended'
    BY DEF Jobs!SpawnIsSuspended, Jobs!Leftover, Jobs!Alive, Jobs!FlagBeforeKill, Jobs!RunsInJob,
           Jobs!CleanupCloses, Jobs!WaiterHasSlot
  <1>3. Jobs(k)!CleanupCloses'
    BY DEF Jobs!CleanupCloses
  <1>4. Jobs(k)!FlagBeforeKill'
    BY DEF Jobs!FlagBeforeKill, Jobs!KILLED, Jobs!STILL_ACTIVE,
           Jobs!SpawnIsSuspended, Jobs!WaiterHasSlot, Jobs!Alive
  <1>5. Jobs(k)!WaiterHasSlot'
    BY DEF Jobs!WaiterHasSlot, Jobs!SpawnIsSuspended, Jobs!CallerKnows, Jobs!Alive
  <1>6. Jobs(k)!CallerKnows'
    BY DEF Jobs!CallerKnows, Jobs!WaiterHasSlot
  <1>7. Jobs(k)!RunsInJob'
    BY DEF Jobs!RunsInJob, Jobs!SpawnIsSuspended, Jobs!Alive
  <1>8. Jobs(k)!CleanedScopeIsDead'
    BY DEF Jobs!CleanedScopeIsDead, Jobs!Leftover, Jobs!Alive, Jobs!SpawnIsSuspended,
           Jobs!CleanupCloses, Jobs!RunsInJob
  <1>9. Jobs(k)!OrderedDeathIsKill'
    BY DEF Jobs!OrderedDeathIsKill, Jobs!FlagBeforeKill, Jobs!WaiterHasSlot,
           Jobs!Alive
  <1>10. Jobs(k)!KillWasOrdered'
    BY DEF Jobs!KillWasOrdered
  <1>11. Jobs(k)!KillIsOurs'
    BY DEF Jobs!KillIsOurs, Jobs!FlagBeforeKill, Jobs!KILLED, Jobs!WaiterHasSlot
  <1> QED
    BY <1>1, <1>2, <1>3, <1>4, <1>5, <1>6, <1>7, <1>8, <1>9, <1>10, <1>11

\* TerminateJobObject ends members of the jobs of the scopes ss, and nothing else.
LEMMA JobTermination ==
  ASSUME NEW CONSTANT k \in BOOLEAN, Jobs(k)!IndInv,
         NEW ss \in SUBSET JobScopes(k), Jobs(k)!TerminateJobs(ss)
  PROVE  /\ jobPs' \in [JobProcs(k) -> {"none", "suspended", "running", "dying", "exited"}]
         /\ ordered' \subseteq JobProcs(k) /\ ordered \subseteq ordered'
         /\ \A p \in JobProcs(k) :
              jobPs'[p] = jobPs[p] \/ (Jobs(k)!Alive(p) /\ jobPs'[p] = "dying")
         /\ \A p \in ordered' \ ordered :
              Jobs(k)!Alive(p) /\ jobPs'[p] = "dying" /\ inJob[p] \in ss
  <1> DEFINE victims == UNION {Jobs(k)!Active(s) : s \in ss \intersect jobs}
  <1>1. /\ jobPs' = Jobs(k)!Terminated(victims)
        /\ ordered' = ordered \union {p \in victims : jobPs[p] # "dying"}
    BY DEF Jobs!TerminateJobs
  <1>2. \A p \in victims : p \in JobProcs(k) /\ Jobs(k)!Alive(p) /\ inJob[p] \in ss
    BY DEF Jobs!Active
  <1> HIDE DEF victims
  <1>3. \A p \in JobProcs(k) : jobPs'[p] =
          IF p \in victims /\ Jobs(k)!Alive(p) THEN "dying" ELSE jobPs[p]
    BY <1>1 DEF Jobs!Terminated
  <1>4. jobPs' \in [JobProcs(k) -> {"none", "suspended", "running", "dying", "exited"}]
    BY <1>1 DEF Jobs!Terminated, Jobs!IndInv, Jobs!TypeOK
  <1>5. ordered' \subseteq JobProcs(k)
    BY <1>1, <1>2 DEF Jobs!IndInv, Jobs!TypeOK
  <1> QED
    BY <1>1, <1>2, <1>3, <1>4, <1>5

\* What a termination under the mutex, after the flags, leaves of the invariant.
LEMMA JobTerminationFrames ==
  ASSUME NEW CONSTANT k \in BOOLEAN, Jobs(k)!IndInv,
         NEW ss \in SUBSET JobScopes(k), Jobs(k)!TerminateJobs(ss),
         jobUp, Jobs(k)!SlotsOf(ss) \subseteq flag,
         \A p \in JobProcs(k) : jobSpawn[p] # "assigned",
         jobHard' \in {jobHard, {}}, jobFails' \in Nat, jobFails' >= jobFails,
         \A s \in JobScopes(k) : jobClean'[s] # "idle" => jobClean[s] # "idle",
         \A s \in JobScopes(k) : jobClean'[s] = "flagged" => jobClean[s] = "flagged",
         UNCHANGED <<code, inJob, jobOf, jobs, jobSlots, flag, jobSpawn, jobClosed,
                     jobCleaned, exit, work, callPc, callee, unseen, jobUp>>
  PROVE  /\ Jobs(k)!SpawnIsSuspended' /\ Jobs(k)!CleanupCloses' /\ Jobs(k)!FlagBeforeKill'
         /\ Jobs(k)!WaiterHasSlot' /\ Jobs(k)!CallerKnows' /\ Jobs(k)!RunsInJob'
         /\ Jobs(k)!CleanedScopeIsDead' /\ Jobs(k)!OrderedDeathIsKill'
         /\ Jobs(k)!KillWasOrdered' /\ Jobs(k)!KillIsOurs'
  <1> USE DEF Jobs!IndInv
  <1>1. /\ ordered' \subseteq JobProcs(k) /\ ordered \subseteq ordered'
        /\ \A p \in JobProcs(k) :
             jobPs'[p] = jobPs[p] \/ (Jobs(k)!Alive(p) /\ jobPs'[p] = "dying")
        /\ \A p \in ordered' \ ordered :
             Jobs(k)!Alive(p) /\ jobPs'[p] = "dying" /\ inJob[p] \in ss
    BY JobTermination
  <1>2. \A p \in JobProcs(k) : Jobs(k)!Alive(p)' <=> Jobs(k)!Alive(p)
    BY <1>1 DEF Jobs!Alive
  <1>3. \A p \in ordered' \ ordered : jobSpawn[p] # "created"
    BY <1>1, JobConstants DEF Jobs!SpawnIsSuspended
  <1>4. Jobs(k)!SpawnIsSuspended'
    <2>1. jobFails \in Nat
      BY JobConstants DEF Jobs!TypeOK
    <2>2. \A p \in JobProcs(k) : Jobs(k)!Leftover(p) => Jobs(k)!Leftover(p)'
      BY <1>1, <2>1 DEF Jobs!Leftover
    <2> QED
      BY <1>1, <1>2, <1>3, <2>1, <2>2 DEF Jobs!SpawnIsSuspended, Jobs!Alive
  <1>5. \A p \in ordered' \ ordered : work[p] # "none" => p \in flag
    <2> SUFFICES ASSUME NEW p \in ordered' \ ordered, work[p] # "none"
                 PROVE  p \in flag
      OBVIOUS
    <2>1. p \in JobProcs(k) /\ Jobs(k)!Alive(p) /\ inJob[p] \in ss
      BY <1>1
    <2>2. exit[p] \notin {"exit", "kill"}
      BY <2>1 DEF Jobs!WaiterHasSlot, Jobs!Alive
    <2>4. p \in jobSlots
      BY <2>1, <2>2 DEF Jobs!WaiterHasSlot, Jobs!TypeOK
    <2>5. jobOf[p] \in ss
      BY <2>1, JobConstants DEF Jobs!SpawnIsSuspended
    <2> QED
      BY <2>4, <2>5 DEF Jobs!SlotsOf
  <1>6. Jobs(k)!FlagBeforeKill'
    BY <1>1, <1>5 DEF Jobs!FlagBeforeKill, Jobs!SlotsOf, Jobs!TypeOK, Jobs!Alive
  <1>7. Jobs(k)!WaiterHasSlot' /\ Jobs(k)!CallerKnows'
    BY <1>1 DEF Jobs!WaiterHasSlot, Jobs!CallerKnows, Jobs!TypeOK, Jobs!Alive
  <1>8. Jobs(k)!RunsInJob' /\ Jobs(k)!CleanupCloses'
    BY <1>1 DEF Jobs!RunsInJob, Jobs!CleanupCloses
  <1>9. Jobs(k)!CleanedScopeIsDead'
    BY <1>1, <1>2, JobConstants
       DEF Jobs!CleanedScopeIsDead, Jobs!Leftover, Jobs!TypeOK
  <1>10. Jobs(k)!OrderedDeathIsKill'
    BY <1>1 DEF Jobs!OrderedDeathIsKill, Jobs!WaiterHasSlot, Jobs!Alive
  <1>11. Jobs(k)!KillWasOrdered' /\ Jobs(k)!KillIsOurs'
    BY <1>1 DEF Jobs!KillWasOrdered, Jobs!KillIsOurs
  <1> QED
    BY <1>4, <1>6, <1>7, <1>8, <1>9, <1>10, <1>11

\* A hard kill ends members of jobs whose roots it has flagged.
LEMMA JobHardTerminate ==
  ASSUME NEW CONSTANT k \in BOOLEAN, Jobs(k)!IndInv, Jobs(k)!HardTerminate
  PROVE  Jobs(k)!IndInv'
  <1>1. PICK ss \in SUBSET jobHard : Jobs(k)!TerminateJobs(ss)
    BY DEF Jobs!HardTerminate
  <1>2. /\ jobUp /\ jobHard # {} /\ jobHard' = {}
        /\ jobRetry' = jobRetry \union Jobs(k)!SlotsOf(jobHard)
        /\ UNCHANGED <<code, inJob, jobOf, jobs, jobSlots, flag, jobSpawn, jobClean,
                       jobClosed, jobCleaned, exit, work, callPc, callee, answer,
                       unseen, jobUp>>
    BY DEF Jobs!HardTerminate, Jobs!stateVars, Jobs!callVars
  <1>b. /\ jobFails' \in 0 .. MaxJobFails(k)
        /\ jobFails' \in Nat /\ jobFails' >= jobFails
    <2>1. jobFails' = jobFails \/ Jobs(k)!Fail
      BY Zenon DEF Jobs!HardTerminate
    <2> QED
      BY <2>1, JobConstants DEF Jobs!Fail, Jobs!IndInv, Jobs!TypeOK
  <1>3. ss \in SUBSET JobScopes(k) /\ Jobs(k)!SlotsOf(ss) \subseteq flag
    BY DEF Jobs!IndInv, Jobs!TypeOK, Jobs!FlagBeforeKill, Jobs!SlotsOf
  <1>4. \A p \in JobProcs(k) : jobSpawn[p] # "assigned"
    BY <1>2 DEF Jobs!IndInv, Jobs!SpawnIsSuspended
  <1>5. Jobs(k)!TypeOK'
    <2>1. Jobs(k)!SlotsOf(jobHard) \subseteq JobProcs(k)
      BY DEF Jobs!SlotsOf, Jobs!IndInv, Jobs!TypeOK
    <2> QED
      BY <1>1, <1>2, <1>b, <1>3, <2>1, JobTermination DEF Jobs!IndInv, Jobs!TypeOK
  <1>6. /\ Jobs(k)!SpawnIsSuspended' /\ Jobs(k)!CleanupCloses' /\ Jobs(k)!FlagBeforeKill'
        /\ Jobs(k)!WaiterHasSlot' /\ Jobs(k)!CallerKnows' /\ Jobs(k)!RunsInJob'
        /\ Jobs(k)!CleanedScopeIsDead' /\ Jobs(k)!OrderedDeathIsKill'
        /\ Jobs(k)!KillWasOrdered' /\ Jobs(k)!KillIsOurs'
    BY <1>1, <1>2, <1>b, <1>3, <1>4, JobTerminationFrames
  <1> QED
    BY <1>5, <1>6 DEF Jobs!IndInv

\* A cleanup flags every slot, and closes a scope that no spawn is using.
LEMMA JobCleanFlag ==
  ASSUME NEW CONSTANT k \in BOOLEAN, Jobs(k)!IndInv, NEW s \in JobScopes(k),
         Jobs(k)!CleanFlag(s)
  PROVE  Jobs(k)!IndInv'
  <1> USE JobConstants DEF Jobs!IndInv, Jobs!TypeOK, Jobs!CleanFlag, Jobs!Locked,
                              Jobs!Spawning, Jobs!SlotsOf, Jobs!kernelVars,
                              Jobs!workVars, Jobs!callVars
  <1>1. Jobs(k)!TypeOK'
    BY DEF Jobs!TypeOK, Jobs!SpawnIsSuspended, Jobs!CallerKnows, Jobs!WaiterHasSlot,
           Jobs!RunsInJob
  <1>2. Jobs(k)!SpawnIsSuspended'
    BY DEF Jobs!SpawnIsSuspended, Jobs!Leftover, Jobs!Alive, Jobs!FlagBeforeKill, Jobs!RunsInJob,
           Jobs!CleanupCloses, Jobs!WaiterHasSlot
  <1>3. Jobs(k)!CleanupCloses'
    BY DEF Jobs!CleanupCloses
  <1>4. Jobs(k)!FlagBeforeKill'
    BY DEF Jobs!FlagBeforeKill, Jobs!KILLED, Jobs!STILL_ACTIVE,
           Jobs!SpawnIsSuspended, Jobs!WaiterHasSlot, Jobs!Alive
  <1>5. Jobs(k)!WaiterHasSlot'
    BY DEF Jobs!WaiterHasSlot, Jobs!SpawnIsSuspended, Jobs!CallerKnows, Jobs!Alive
  <1>6. Jobs(k)!CallerKnows'
    BY DEF Jobs!CallerKnows, Jobs!WaiterHasSlot
  <1>7. Jobs(k)!RunsInJob'
    BY DEF Jobs!RunsInJob, Jobs!SpawnIsSuspended, Jobs!Alive
  <1>8. Jobs(k)!CleanedScopeIsDead'
    BY DEF Jobs!CleanedScopeIsDead, Jobs!Leftover, Jobs!Alive, Jobs!SpawnIsSuspended,
           Jobs!CleanupCloses, Jobs!RunsInJob
  <1>9. Jobs(k)!OrderedDeathIsKill'
    BY DEF Jobs!OrderedDeathIsKill, Jobs!FlagBeforeKill, Jobs!WaiterHasSlot,
           Jobs!Alive
  <1>10. Jobs(k)!KillWasOrdered'
    BY DEF Jobs!KillWasOrdered
  <1>11. Jobs(k)!KillIsOurs'
    BY DEF Jobs!KillIsOurs, Jobs!FlagBeforeKill, Jobs!KILLED, Jobs!WaiterHasSlot
  <1> QED
    BY <1>1, <1>2, <1>3, <1>4, <1>5, <1>6, <1>7, <1>8, <1>9, <1>10, <1>11

\* A cleanup ends members of the job whose roots it has flagged.
LEMMA JobCleanTerminate ==
  ASSUME NEW CONSTANT k \in BOOLEAN, Jobs(k)!IndInv, NEW s \in JobScopes(k),
         Jobs(k)!CleanTerminate(s)
  PROVE  Jobs(k)!IndInv'
  <1>0. \E ss \in SUBSET {s} : Jobs(k)!TerminateJobs(ss)
    <2>1. CASE Jobs(k)!TerminateJobs({s})
      <3>1. {s} \in SUBSET {s}
        OBVIOUS
      <3> QED
        BY <2>1, <3>1
    <2>2. CASE UNCHANGED <<jobPs, ordered>>
      <3>1. Jobs(k)!TerminateJobs({})
        BY <2>2 DEF Jobs!TerminateJobs, Jobs!Terminated, Jobs!IndInv, Jobs!TypeOK
      <3>2. {} \in SUBSET {s}
        OBVIOUS
      <3> QED
        BY <3>1, <3>2
    <2>3. Jobs(k)!TerminateJobs({s}) \/ UNCHANGED <<jobPs, ordered>>
      BY Zenon DEF Jobs!CleanTerminate
    <2> QED
      BY <2>1, <2>2, <2>3
  <1>1. PICK ss \in SUBSET {s} : Jobs(k)!TerminateJobs(ss)
    BY <1>0
  <1>2. /\ jobUp /\ jobClean[s] = "flagged"
        /\ jobRetry' = jobRetry \union Jobs(k)!SlotsOf({s})
        /\ jobFails' \in 0 .. MaxJobFails(k)
        /\ jobFails' \in Nat /\ jobFails' >= jobFails
        /\ \E pc1 \in {"poll", "idle"} : jobClean' = [jobClean EXCEPT ![s] = pc1]
        /\ UNCHANGED <<code, inJob, jobOf, jobs, jobSlots, flag, jobSpawn, jobHard,
                       jobClosed, jobCleaned, exit, work, callPc, callee, answer,
                       unseen, jobUp>>
    BY JobConstants
       DEF Jobs!CleanTerminate, Jobs!Fail, Jobs!stateVars, Jobs!callVars,
           Jobs!IndInv, Jobs!TypeOK
  <1>3. ss \in SUBSET JobScopes(k) /\ Jobs(k)!SlotsOf(ss) \subseteq flag
    BY <1>2 DEF Jobs!IndInv, Jobs!TypeOK, Jobs!FlagBeforeKill, Jobs!SlotsOf
  <1>4. \A p \in JobProcs(k) : jobSpawn[p] # "assigned"
    BY <1>2 DEF Jobs!IndInv, Jobs!SpawnIsSuspended
  <1>a. /\ \A q \in JobScopes(k) : jobClean'[q] # "idle" => jobClean[q] # "idle"
        /\ \A q \in JobScopes(k) : jobClean'[q] = "flagged" => jobClean[q] = "flagged"
    BY <1>2 DEF Jobs!IndInv, Jobs!TypeOK
  <1>5. Jobs(k)!TypeOK'
    <2>1. Jobs(k)!SlotsOf({s}) \subseteq JobProcs(k)
      BY DEF Jobs!SlotsOf, Jobs!IndInv, Jobs!TypeOK
    <2>2. jobClean' \in [JobScopes(k) -> {"idle", "flagged", "poll"}]
      BY <1>2 DEF Jobs!IndInv, Jobs!TypeOK
    <2>3. /\ jobPs' \in [JobProcs(k) -> {"none", "suspended", "running", "dying", "exited"}]
          /\ ordered' \subseteq JobProcs(k)
      BY <1>1, <1>3, JobTermination
    <2>4. jobRetry' \subseteq JobProcs(k)
      BY <1>2, <2>1 DEF Jobs!IndInv, Jobs!TypeOK
    <2> QED
      BY <1>2, <2>2, <2>3, <2>4 DEF Jobs!IndInv, Jobs!TypeOK
  <1>6. /\ Jobs(k)!SpawnIsSuspended' /\ Jobs(k)!CleanupCloses' /\ Jobs(k)!FlagBeforeKill'
        /\ Jobs(k)!WaiterHasSlot' /\ Jobs(k)!CallerKnows' /\ Jobs(k)!RunsInJob'
        /\ Jobs(k)!CleanedScopeIsDead' /\ Jobs(k)!OrderedDeathIsKill'
        /\ Jobs(k)!KillWasOrdered' /\ Jobs(k)!KillIsOurs'
    BY <1>1, <1>2, <1>3, <1>4, <1>a, JobTerminationFrames
  <1> QED
    BY <1>5, <1>6 DEF Jobs!IndInv

\* A cleanup that succeeds has found the job empty, and everything alive was
\* in it.
LEMMA JobCleanPoll ==
  ASSUME NEW CONSTANT k \in BOOLEAN, Jobs(k)!IndInv, NEW s \in JobScopes(k),
         Jobs(k)!CleanPoll(s)
  PROVE  Jobs(k)!IndInv'
  <1> USE JobConstants DEF Jobs!IndInv, Jobs!TypeOK, Jobs!CleanPoll, Jobs!Active,
                              Jobs!kernelVars, Jobs!workVars, Jobs!callVars
  <1>1. Jobs(k)!TypeOK'
    BY DEF Jobs!TypeOK, Jobs!SpawnIsSuspended, Jobs!CallerKnows, Jobs!WaiterHasSlot,
           Jobs!RunsInJob
  <1>2. Jobs(k)!SpawnIsSuspended'
    BY DEF Jobs!SpawnIsSuspended, Jobs!Leftover, Jobs!Alive, Jobs!FlagBeforeKill, Jobs!RunsInJob,
           Jobs!CleanupCloses, Jobs!WaiterHasSlot
  <1>3. Jobs(k)!CleanupCloses'
    BY DEF Jobs!CleanupCloses
  <1>4. Jobs(k)!FlagBeforeKill'
    BY DEF Jobs!FlagBeforeKill, Jobs!SlotsOf, Jobs!KILLED, Jobs!STILL_ACTIVE,
           Jobs!SpawnIsSuspended, Jobs!WaiterHasSlot, Jobs!Alive
  <1>5. Jobs(k)!WaiterHasSlot'
    BY DEF Jobs!WaiterHasSlot, Jobs!SpawnIsSuspended, Jobs!CallerKnows, Jobs!Alive
  <1>6. Jobs(k)!CallerKnows'
    BY DEF Jobs!CallerKnows, Jobs!WaiterHasSlot
  <1>7. Jobs(k)!RunsInJob'
    BY DEF Jobs!RunsInJob, Jobs!SpawnIsSuspended, Jobs!Alive
  <1>8. Jobs(k)!CleanedScopeIsDead'
    <2>1. ASSUME NEW p \in JobProcs(k), jobOf[p] = s, Jobs(k)!Alive(p)
          PROVE  Jobs(k)!Leftover(p)
      <3>1. jobSpawn[p] = "none"
        BY <2>1 DEF Jobs!SpawnIsSuspended, Jobs!CleanupCloses
      <3>2. inJob[p] # s
        <4> SUFFICES ASSUME inJob[p] = s PROVE FALSE
          OBVIOUS
        <4>a. inJob[p] # NoScope /\ jobUp
          BY JobConstants
        <4>1. s \in jobs
          BY <2>1, <4>a DEF Jobs!SpawnIsSuspended
        <4>2. p \in Jobs(k)!Active(s)
          BY <2>1 DEF Jobs!Active
        <4> QED
          BY <4>1, <4>2
      <3> QED
        BY <2>1, <3>1, <3>2 DEF Jobs!SpawnIsSuspended
    <2> QED
      BY <2>1 DEF Jobs!CleanedScopeIsDead, Jobs!Leftover, Jobs!Alive
  <1>9. Jobs(k)!OrderedDeathIsKill'
    BY DEF Jobs!OrderedDeathIsKill, Jobs!FlagBeforeKill, Jobs!WaiterHasSlot,
           Jobs!Alive
  <1>10. Jobs(k)!KillWasOrdered'
    BY DEF Jobs!KillWasOrdered
  <1>11. Jobs(k)!KillIsOurs'
    BY DEF Jobs!KillIsOurs, Jobs!FlagBeforeKill, Jobs!KILLED, Jobs!WaiterHasSlot
  <1> QED
    BY <1>1, <1>2, <1>3, <1>4, <1>5, <1>6, <1>7, <1>8, <1>9, <1>10, <1>11

\* A cleanup that gives up keeps the job.
LEMMA JobCleanFails ==
  ASSUME NEW CONSTANT k \in BOOLEAN, Jobs(k)!IndInv, NEW s \in JobScopes(k),
         Jobs(k)!CleanFails(s)
  PROVE  Jobs(k)!IndInv'
  <1> USE JobConstants DEF Jobs!IndInv, Jobs!TypeOK, Jobs!CleanFails, Jobs!Fail,
                              Jobs!kernelVars, Jobs!stateVars, Jobs!workVars,
                              Jobs!callVars
  <1>1. Jobs(k)!TypeOK'
    BY DEF Jobs!TypeOK, Jobs!SpawnIsSuspended, Jobs!CallerKnows, Jobs!WaiterHasSlot,
           Jobs!RunsInJob
  <1>2. Jobs(k)!SpawnIsSuspended'
    BY DEF Jobs!SpawnIsSuspended, Jobs!Leftover, Jobs!Alive, Jobs!FlagBeforeKill, Jobs!RunsInJob,
           Jobs!CleanupCloses, Jobs!WaiterHasSlot
  <1>3. Jobs(k)!CleanupCloses'
    BY DEF Jobs!CleanupCloses
  <1>4. Jobs(k)!FlagBeforeKill'
    BY DEF Jobs!FlagBeforeKill, Jobs!SlotsOf, Jobs!KILLED, Jobs!STILL_ACTIVE,
           Jobs!SpawnIsSuspended, Jobs!WaiterHasSlot, Jobs!Alive
  <1>5. Jobs(k)!WaiterHasSlot'
    BY DEF Jobs!WaiterHasSlot, Jobs!SpawnIsSuspended, Jobs!CallerKnows, Jobs!Alive
  <1>6. Jobs(k)!CallerKnows'
    BY DEF Jobs!CallerKnows, Jobs!WaiterHasSlot
  <1>7. Jobs(k)!RunsInJob'
    BY DEF Jobs!RunsInJob, Jobs!SpawnIsSuspended, Jobs!Alive
  <1>8. Jobs(k)!CleanedScopeIsDead'
    BY DEF Jobs!CleanedScopeIsDead, Jobs!Leftover, Jobs!Alive, Jobs!SpawnIsSuspended,
           Jobs!CleanupCloses, Jobs!RunsInJob
  <1>9. Jobs(k)!OrderedDeathIsKill'
    BY DEF Jobs!OrderedDeathIsKill, Jobs!FlagBeforeKill, Jobs!WaiterHasSlot,
           Jobs!Alive
  <1>10. Jobs(k)!KillWasOrdered'
    BY DEF Jobs!KillWasOrdered
  <1>11. Jobs(k)!KillIsOurs'
    BY DEF Jobs!KillIsOurs, Jobs!FlagBeforeKill, Jobs!KILLED, Jobs!WaiterHasSlot
  <1> QED
    BY <1>1, <1>2, <1>3, <1>4, <1>5, <1>6, <1>7, <1>8, <1>9, <1>10, <1>11

\* The waiter task publishes the exit, as a kill if it was flagged.
LEMMA JobWaitOk ==
  ASSUME NEW CONSTANT k \in BOOLEAN, Jobs(k)!IndInv, NEW p \in JobProcs(k),
         Jobs(k)!WaitOk(p)
  PROVE  Jobs(k)!IndInv'
  <1> USE JobConstants DEF Jobs!IndInv, Jobs!TypeOK, Jobs!WaitOk, Jobs!Publish,
                              Jobs!Watching, Jobs!Classify, Jobs!kernelVars,
                              Jobs!stateVars, Jobs!scopeVars
  <1>1. Jobs(k)!TypeOK'
    BY DEF Jobs!TypeOK, Jobs!SpawnIsSuspended, Jobs!CallerKnows, Jobs!WaiterHasSlot,
           Jobs!RunsInJob
  <1>2. Jobs(k)!SpawnIsSuspended'
    BY DEF Jobs!SpawnIsSuspended, Jobs!Leftover, Jobs!Alive, Jobs!FlagBeforeKill, Jobs!RunsInJob,
           Jobs!CleanupCloses, Jobs!WaiterHasSlot
  <1>3. Jobs(k)!CleanupCloses'
    BY DEF Jobs!CleanupCloses
  <1>4. Jobs(k)!FlagBeforeKill'
    BY DEF Jobs!FlagBeforeKill, Jobs!SlotsOf, Jobs!KILLED, Jobs!STILL_ACTIVE,
           Jobs!SpawnIsSuspended, Jobs!WaiterHasSlot, Jobs!Alive
  <1>5. Jobs(k)!WaiterHasSlot'
    BY DEF Jobs!WaiterHasSlot, Jobs!SpawnIsSuspended, Jobs!CallerKnows, Jobs!Alive
  <1>6. Jobs(k)!CallerKnows'
    BY DEF Jobs!CallerKnows, Jobs!WaiterHasSlot
  <1>7. Jobs(k)!RunsInJob'
    BY DEF Jobs!RunsInJob, Jobs!SpawnIsSuspended, Jobs!Alive
  <1>8. Jobs(k)!CleanedScopeIsDead'
    BY DEF Jobs!CleanedScopeIsDead, Jobs!Leftover, Jobs!Alive, Jobs!SpawnIsSuspended,
           Jobs!CleanupCloses, Jobs!RunsInJob
  <1>9. Jobs(k)!OrderedDeathIsKill'
    BY DEF Jobs!OrderedDeathIsKill, Jobs!FlagBeforeKill, Jobs!WaiterHasSlot,
           Jobs!Alive
  <1>10. Jobs(k)!KillWasOrdered'
    BY DEF Jobs!KillWasOrdered
  <1>11. Jobs(k)!KillIsOurs'
    BY DEF Jobs!KillIsOurs, Jobs!FlagBeforeKill, Jobs!KILLED, Jobs!WaiterHasSlot
  <1> QED
    BY <1>1, <1>2, <1>3, <1>4, <1>5, <1>6, <1>7, <1>8, <1>9, <1>10, <1>11

\* The waiter task publishes a failure, never after an exit.
LEMMA JobWaitErr ==
  ASSUME NEW CONSTANT k \in BOOLEAN, Jobs(k)!IndInv, NEW p \in JobProcs(k),
         Jobs(k)!WaitErr(p)
  PROVE  Jobs(k)!IndInv'
  <1> USE JobConstants DEF Jobs!IndInv, Jobs!TypeOK, Jobs!WaitErr, Jobs!Publish,
                              Jobs!Watching, Jobs!Fail, Jobs!kernelVars,
                              Jobs!stateVars, Jobs!scopeVars
  <1>1. Jobs(k)!TypeOK'
    BY DEF Jobs!TypeOK, Jobs!SpawnIsSuspended, Jobs!CallerKnows, Jobs!WaiterHasSlot,
           Jobs!RunsInJob
  <1>2. Jobs(k)!SpawnIsSuspended'
    BY DEF Jobs!SpawnIsSuspended, Jobs!Leftover, Jobs!Alive, Jobs!FlagBeforeKill, Jobs!RunsInJob,
           Jobs!CleanupCloses, Jobs!WaiterHasSlot
  <1>3. Jobs(k)!CleanupCloses'
    BY DEF Jobs!CleanupCloses
  <1>4. Jobs(k)!FlagBeforeKill'
    BY DEF Jobs!FlagBeforeKill, Jobs!SlotsOf, Jobs!KILLED, Jobs!STILL_ACTIVE,
           Jobs!SpawnIsSuspended, Jobs!WaiterHasSlot, Jobs!Alive
  <1>5. Jobs(k)!WaiterHasSlot'
    BY DEF Jobs!WaiterHasSlot, Jobs!SpawnIsSuspended, Jobs!CallerKnows, Jobs!Alive
  <1>6. Jobs(k)!CallerKnows'
    BY DEF Jobs!CallerKnows, Jobs!WaiterHasSlot
  <1>7. Jobs(k)!RunsInJob'
    BY DEF Jobs!RunsInJob, Jobs!SpawnIsSuspended, Jobs!Alive
  <1>8. Jobs(k)!CleanedScopeIsDead'
    BY DEF Jobs!CleanedScopeIsDead, Jobs!Leftover, Jobs!Alive, Jobs!SpawnIsSuspended,
           Jobs!CleanupCloses, Jobs!RunsInJob
  <1>9. Jobs(k)!OrderedDeathIsKill'
    BY DEF Jobs!OrderedDeathIsKill, Jobs!FlagBeforeKill, Jobs!WaiterHasSlot,
           Jobs!Alive
  <1>10. Jobs(k)!KillWasOrdered'
    BY DEF Jobs!KillWasOrdered
  <1>11. Jobs(k)!KillIsOurs'
    BY DEF Jobs!KillIsOurs, Jobs!FlagBeforeKill, Jobs!KILLED, Jobs!WaiterHasSlot
  <1> QED
    BY <1>1, <1>2, <1>3, <1>4, <1>5, <1>6, <1>7, <1>8, <1>9, <1>10, <1>11

\* A retry.
LEMMA JobUnpark ==
  ASSUME NEW CONSTANT k \in BOOLEAN, Jobs(k)!IndInv, NEW p \in JobProcs(k),
         Jobs(k)!Unpark(p)
  PROVE  Jobs(k)!IndInv'
  <1> USE JobConstants DEF Jobs!IndInv, Jobs!TypeOK, Jobs!Unpark,
                              Jobs!kernelVars, Jobs!stateVars, Jobs!scopeVars
  <1>1. Jobs(k)!TypeOK'
    BY DEF Jobs!TypeOK, Jobs!SpawnIsSuspended, Jobs!CallerKnows, Jobs!WaiterHasSlot,
           Jobs!RunsInJob
  <1>2. Jobs(k)!SpawnIsSuspended'
    BY DEF Jobs!SpawnIsSuspended, Jobs!Leftover, Jobs!Alive, Jobs!FlagBeforeKill, Jobs!RunsInJob,
           Jobs!CleanupCloses, Jobs!WaiterHasSlot
  <1>3. Jobs(k)!CleanupCloses'
    BY DEF Jobs!CleanupCloses
  <1>4. Jobs(k)!FlagBeforeKill'
    BY DEF Jobs!FlagBeforeKill, Jobs!SlotsOf, Jobs!KILLED, Jobs!STILL_ACTIVE,
           Jobs!SpawnIsSuspended, Jobs!WaiterHasSlot, Jobs!Alive
  <1>5. Jobs(k)!WaiterHasSlot'
    BY DEF Jobs!WaiterHasSlot, Jobs!SpawnIsSuspended, Jobs!CallerKnows, Jobs!Alive
  <1>6. Jobs(k)!CallerKnows'
    BY DEF Jobs!CallerKnows, Jobs!WaiterHasSlot
  <1>7. Jobs(k)!RunsInJob'
    BY DEF Jobs!RunsInJob, Jobs!SpawnIsSuspended, Jobs!Alive
  <1>8. Jobs(k)!CleanedScopeIsDead'
    BY DEF Jobs!CleanedScopeIsDead, Jobs!Leftover, Jobs!Alive, Jobs!SpawnIsSuspended,
           Jobs!CleanupCloses, Jobs!RunsInJob
  <1>9. Jobs(k)!OrderedDeathIsKill'
    BY DEF Jobs!OrderedDeathIsKill, Jobs!FlagBeforeKill, Jobs!WaiterHasSlot,
           Jobs!Alive
  <1>10. Jobs(k)!KillWasOrdered'
    BY DEF Jobs!KillWasOrdered
  <1>11. Jobs(k)!KillIsOurs'
    BY DEF Jobs!KillIsOurs, Jobs!FlagBeforeKill, Jobs!KILLED, Jobs!WaiterHasSlot
  <1> QED
    BY <1>1, <1>2, <1>3, <1>4, <1>5, <1>6, <1>7, <1>8, <1>9, <1>10, <1>11

\* A parked task ends with the backend only.
LEMMA JobParkedEnds ==
  ASSUME NEW CONSTANT k \in BOOLEAN, Jobs(k)!IndInv, NEW p \in JobProcs(k),
         Jobs(k)!ParkedEnds(p)
  PROVE  Jobs(k)!IndInv'
  <1> USE JobConstants DEF Jobs!IndInv, Jobs!TypeOK, Jobs!ParkedEnds,
                              Jobs!Abandoned, Jobs!kernelVars, Jobs!stateVars,
                              Jobs!scopeVars, Jobs!callVars
  <1>1. Jobs(k)!TypeOK'
    BY DEF Jobs!TypeOK, Jobs!SpawnIsSuspended, Jobs!CallerKnows, Jobs!WaiterHasSlot,
           Jobs!RunsInJob
  <1>2. Jobs(k)!SpawnIsSuspended'
    BY DEF Jobs!SpawnIsSuspended, Jobs!Leftover, Jobs!Alive, Jobs!FlagBeforeKill, Jobs!RunsInJob,
           Jobs!CleanupCloses, Jobs!WaiterHasSlot
  <1>3. Jobs(k)!CleanupCloses'
    BY DEF Jobs!CleanupCloses
  <1>4. Jobs(k)!FlagBeforeKill'
    BY DEF Jobs!FlagBeforeKill, Jobs!SlotsOf, Jobs!KILLED, Jobs!STILL_ACTIVE,
           Jobs!SpawnIsSuspended, Jobs!WaiterHasSlot, Jobs!Alive
  <1>5. Jobs(k)!WaiterHasSlot'
    BY DEF Jobs!WaiterHasSlot, Jobs!SpawnIsSuspended, Jobs!CallerKnows, Jobs!Alive
  <1>6. Jobs(k)!CallerKnows'
    BY DEF Jobs!CallerKnows, Jobs!WaiterHasSlot
  <1>7. Jobs(k)!RunsInJob'
    BY DEF Jobs!RunsInJob, Jobs!SpawnIsSuspended, Jobs!Alive
  <1>8. Jobs(k)!CleanedScopeIsDead'
    BY DEF Jobs!CleanedScopeIsDead, Jobs!Leftover, Jobs!Alive, Jobs!SpawnIsSuspended,
           Jobs!CleanupCloses, Jobs!RunsInJob
  <1>9. Jobs(k)!OrderedDeathIsKill'
    BY DEF Jobs!OrderedDeathIsKill, Jobs!FlagBeforeKill, Jobs!WaiterHasSlot,
           Jobs!Alive
  <1>10. Jobs(k)!KillWasOrdered'
    BY DEF Jobs!KillWasOrdered
  <1>11. Jobs(k)!KillIsOurs'
    BY DEF Jobs!KillIsOurs, Jobs!FlagBeforeKill, Jobs!KILLED, Jobs!WaiterHasSlot
  <1> QED
    BY <1>1, <1>2, <1>3, <1>4, <1>5, <1>6, <1>7, <1>8, <1>9, <1>10, <1>11

\* The retry channel closes after the exit was published.
LEMMA JobDrained ==
  ASSUME NEW CONSTANT k \in BOOLEAN, Jobs(k)!IndInv, NEW p \in JobProcs(k),
         Jobs(k)!Drained(p)
  PROVE  Jobs(k)!IndInv'
  <1> USE JobConstants DEF Jobs!IndInv, Jobs!TypeOK, Jobs!Drained,
                              Jobs!kernelVars, Jobs!stateVars, Jobs!scopeVars,
                              Jobs!callVars
  <1>1. Jobs(k)!TypeOK'
    BY DEF Jobs!TypeOK, Jobs!SpawnIsSuspended, Jobs!CallerKnows, Jobs!WaiterHasSlot,
           Jobs!RunsInJob
  <1>2. Jobs(k)!SpawnIsSuspended'
    BY DEF Jobs!SpawnIsSuspended, Jobs!Leftover, Jobs!Alive, Jobs!FlagBeforeKill, Jobs!RunsInJob,
           Jobs!CleanupCloses, Jobs!WaiterHasSlot
  <1>3. Jobs(k)!CleanupCloses'
    BY DEF Jobs!CleanupCloses
  <1>4. Jobs(k)!FlagBeforeKill'
    BY DEF Jobs!FlagBeforeKill, Jobs!SlotsOf, Jobs!KILLED, Jobs!STILL_ACTIVE,
           Jobs!SpawnIsSuspended, Jobs!WaiterHasSlot, Jobs!Alive
  <1>5. Jobs(k)!WaiterHasSlot'
    BY DEF Jobs!WaiterHasSlot, Jobs!SpawnIsSuspended, Jobs!CallerKnows, Jobs!Alive
  <1>6. Jobs(k)!CallerKnows'
    BY DEF Jobs!CallerKnows, Jobs!WaiterHasSlot
  <1>7. Jobs(k)!RunsInJob'
    BY DEF Jobs!RunsInJob, Jobs!SpawnIsSuspended, Jobs!Alive
  <1>8. Jobs(k)!CleanedScopeIsDead'
    BY DEF Jobs!CleanedScopeIsDead, Jobs!Leftover, Jobs!Alive, Jobs!SpawnIsSuspended,
           Jobs!CleanupCloses, Jobs!RunsInJob
  <1>9. Jobs(k)!OrderedDeathIsKill'
    BY DEF Jobs!OrderedDeathIsKill, Jobs!FlagBeforeKill, Jobs!WaiterHasSlot,
           Jobs!Alive
  <1>10. Jobs(k)!KillWasOrdered'
    BY DEF Jobs!KillWasOrdered
  <1>11. Jobs(k)!KillIsOurs'
    BY DEF Jobs!KillIsOurs, Jobs!FlagBeforeKill, Jobs!KILLED, Jobs!WaiterHasSlot
  <1> QED
    BY <1>1, <1>2, <1>3, <1>4, <1>5, <1>6, <1>7, <1>8, <1>9, <1>10, <1>11

\* A wait subscribes.
LEMMA JobWaitBegin ==
  ASSUME NEW CONSTANT k \in BOOLEAN, Jobs(k)!IndInv, NEW c \in JobCallers(k),
         NEW p \in JobProcs(k), Jobs(k)!WaitBegin(c, p)
  PROVE  Jobs(k)!IndInv'
  <1> USE JobConstants DEF Jobs!IndInv, Jobs!TypeOK, Jobs!WaitBegin,
                              Jobs!kernelVars, Jobs!stateVars, Jobs!scopeVars,
                              Jobs!workVars
  <1>1. Jobs(k)!TypeOK'
    BY DEF Jobs!TypeOK, Jobs!SpawnIsSuspended, Jobs!CallerKnows, Jobs!WaiterHasSlot,
           Jobs!RunsInJob
  <1>2. Jobs(k)!SpawnIsSuspended'
    BY DEF Jobs!SpawnIsSuspended, Jobs!Leftover, Jobs!Alive, Jobs!FlagBeforeKill, Jobs!RunsInJob,
           Jobs!CleanupCloses, Jobs!WaiterHasSlot
  <1>3. Jobs(k)!CleanupCloses'
    BY DEF Jobs!CleanupCloses
  <1>4. Jobs(k)!FlagBeforeKill'
    BY DEF Jobs!FlagBeforeKill, Jobs!SlotsOf, Jobs!KILLED, Jobs!STILL_ACTIVE,
           Jobs!SpawnIsSuspended, Jobs!WaiterHasSlot, Jobs!Alive
  <1>5. Jobs(k)!WaiterHasSlot'
    BY DEF Jobs!WaiterHasSlot, Jobs!SpawnIsSuspended, Jobs!CallerKnows, Jobs!Alive
  <1>6. Jobs(k)!CallerKnows'
    BY DEF Jobs!CallerKnows, Jobs!WaiterHasSlot
  <1>7. Jobs(k)!RunsInJob'
    BY DEF Jobs!RunsInJob, Jobs!SpawnIsSuspended, Jobs!Alive
  <1>8. Jobs(k)!CleanedScopeIsDead'
    BY DEF Jobs!CleanedScopeIsDead, Jobs!Leftover, Jobs!Alive, Jobs!SpawnIsSuspended,
           Jobs!CleanupCloses, Jobs!RunsInJob
  <1>9. Jobs(k)!OrderedDeathIsKill'
    BY DEF Jobs!OrderedDeathIsKill, Jobs!FlagBeforeKill, Jobs!WaiterHasSlot,
           Jobs!Alive
  <1>10. Jobs(k)!KillWasOrdered'
    BY DEF Jobs!KillWasOrdered
  <1>11. Jobs(k)!KillIsOurs'
    BY DEF Jobs!KillIsOurs, Jobs!FlagBeforeKill, Jobs!KILLED, Jobs!WaiterHasSlot
  <1> QED
    BY <1>1, <1>2, <1>3, <1>4, <1>5, <1>6, <1>7, <1>8, <1>9, <1>10, <1>11

\* A wait asks for a retry.
LEMMA JobAsk ==
  ASSUME NEW CONSTANT k \in BOOLEAN, Jobs(k)!IndInv, NEW c \in JobCallers(k),
         Jobs(k)!Ask(c)
  PROVE  Jobs(k)!IndInv'
  <1> USE JobConstants DEF Jobs!IndInv, Jobs!TypeOK, Jobs!Ask, Jobs!kernelVars,
                              Jobs!stateVars, Jobs!scopeVars
  <1>1. Jobs(k)!TypeOK'
    BY DEF Jobs!TypeOK, Jobs!SpawnIsSuspended, Jobs!CallerKnows, Jobs!WaiterHasSlot,
           Jobs!RunsInJob
  <1>2. Jobs(k)!SpawnIsSuspended'
    BY DEF Jobs!SpawnIsSuspended, Jobs!Leftover, Jobs!Alive, Jobs!FlagBeforeKill, Jobs!RunsInJob,
           Jobs!CleanupCloses, Jobs!WaiterHasSlot
  <1>3. Jobs(k)!CleanupCloses'
    BY DEF Jobs!CleanupCloses
  <1>4. Jobs(k)!FlagBeforeKill'
    BY DEF Jobs!FlagBeforeKill, Jobs!SlotsOf, Jobs!KILLED, Jobs!STILL_ACTIVE,
           Jobs!SpawnIsSuspended, Jobs!WaiterHasSlot, Jobs!Alive
  <1>5. Jobs(k)!WaiterHasSlot'
    BY DEF Jobs!WaiterHasSlot, Jobs!SpawnIsSuspended, Jobs!CallerKnows, Jobs!Alive
  <1>6. Jobs(k)!CallerKnows'
    BY DEF Jobs!CallerKnows, Jobs!WaiterHasSlot
  <1>7. Jobs(k)!RunsInJob'
    BY DEF Jobs!RunsInJob, Jobs!SpawnIsSuspended, Jobs!Alive
  <1>8. Jobs(k)!CleanedScopeIsDead'
    BY DEF Jobs!CleanedScopeIsDead, Jobs!Leftover, Jobs!Alive, Jobs!SpawnIsSuspended,
           Jobs!CleanupCloses, Jobs!RunsInJob
  <1>9. Jobs(k)!OrderedDeathIsKill'
    BY DEF Jobs!OrderedDeathIsKill, Jobs!FlagBeforeKill, Jobs!WaiterHasSlot,
           Jobs!Alive
  <1>10. Jobs(k)!KillWasOrdered'
    BY DEF Jobs!KillWasOrdered
  <1>11. Jobs(k)!KillIsOurs'
    BY DEF Jobs!KillIsOurs, Jobs!FlagBeforeKill, Jobs!KILLED, Jobs!WaiterHasSlot
  <1> QED
    BY <1>1, <1>2, <1>3, <1>4, <1>5, <1>6, <1>7, <1>8, <1>9, <1>10, <1>11

\* A wait is woken.
LEMMA JobChanged ==
  ASSUME NEW CONSTANT k \in BOOLEAN, Jobs(k)!IndInv, NEW c \in JobCallers(k),
         Jobs(k)!Changed(c)
  PROVE  Jobs(k)!IndInv'
  <1> USE JobConstants DEF Jobs!IndInv, Jobs!TypeOK, Jobs!Changed,
                              Jobs!kernelVars, Jobs!stateVars, Jobs!scopeVars,
                              Jobs!workVars
  <1>1. Jobs(k)!TypeOK'
    BY DEF Jobs!TypeOK, Jobs!SpawnIsSuspended, Jobs!CallerKnows, Jobs!WaiterHasSlot,
           Jobs!RunsInJob
  <1>2. Jobs(k)!SpawnIsSuspended'
    BY DEF Jobs!SpawnIsSuspended, Jobs!Leftover, Jobs!Alive, Jobs!FlagBeforeKill, Jobs!RunsInJob,
           Jobs!CleanupCloses, Jobs!WaiterHasSlot
  <1>3. Jobs(k)!CleanupCloses'
    BY DEF Jobs!CleanupCloses
  <1>4. Jobs(k)!FlagBeforeKill'
    BY DEF Jobs!FlagBeforeKill, Jobs!SlotsOf, Jobs!KILLED, Jobs!STILL_ACTIVE,
           Jobs!SpawnIsSuspended, Jobs!WaiterHasSlot, Jobs!Alive
  <1>5. Jobs(k)!WaiterHasSlot'
    BY DEF Jobs!WaiterHasSlot, Jobs!SpawnIsSuspended, Jobs!CallerKnows, Jobs!Alive
  <1>6. Jobs(k)!CallerKnows'
    BY DEF Jobs!CallerKnows, Jobs!WaiterHasSlot
  <1>7. Jobs(k)!RunsInJob'
    BY DEF Jobs!RunsInJob, Jobs!SpawnIsSuspended, Jobs!Alive
  <1>8. Jobs(k)!CleanedScopeIsDead'
    BY DEF Jobs!CleanedScopeIsDead, Jobs!Leftover, Jobs!Alive, Jobs!SpawnIsSuspended,
           Jobs!CleanupCloses, Jobs!RunsInJob
  <1>9. Jobs(k)!OrderedDeathIsKill'
    BY DEF Jobs!OrderedDeathIsKill, Jobs!FlagBeforeKill, Jobs!WaiterHasSlot,
           Jobs!Alive
  <1>10. Jobs(k)!KillWasOrdered'
    BY DEF Jobs!KillWasOrdered
  <1>11. Jobs(k)!KillIsOurs'
    BY DEF Jobs!KillIsOurs, Jobs!FlagBeforeKill, Jobs!KILLED, Jobs!WaiterHasSlot
  <1> QED
    BY <1>1, <1>2, <1>3, <1>4, <1>5, <1>6, <1>7, <1>8, <1>9, <1>10, <1>11

\* A wait answers; an exit removes the slot.
LEMMA JobRead ==
  ASSUME NEW CONSTANT k \in BOOLEAN, Jobs(k)!IndInv, NEW c \in JobCallers(k),
         Jobs(k)!Read(c)
  PROVE  Jobs(k)!IndInv'
  <1> USE JobConstants DEF Jobs!IndInv, Jobs!TypeOK, Jobs!Read, Jobs!kernelVars,
                              Jobs!scopeVars, Jobs!workVars
  <1>1. Jobs(k)!TypeOK'
    BY DEF Jobs!TypeOK, Jobs!SpawnIsSuspended, Jobs!CallerKnows, Jobs!WaiterHasSlot,
           Jobs!RunsInJob
  <1>2. Jobs(k)!SpawnIsSuspended'
    BY DEF Jobs!SpawnIsSuspended, Jobs!Leftover, Jobs!Alive, Jobs!FlagBeforeKill, Jobs!RunsInJob,
           Jobs!CleanupCloses, Jobs!WaiterHasSlot
  <1>3. Jobs(k)!CleanupCloses'
    BY DEF Jobs!CleanupCloses
  <1>4. Jobs(k)!FlagBeforeKill'
    BY DEF Jobs!FlagBeforeKill, Jobs!SlotsOf, Jobs!KILLED, Jobs!STILL_ACTIVE,
           Jobs!SpawnIsSuspended, Jobs!WaiterHasSlot, Jobs!Alive
  <1>5. Jobs(k)!WaiterHasSlot'
    BY DEF Jobs!WaiterHasSlot, Jobs!SpawnIsSuspended, Jobs!CallerKnows, Jobs!Alive
  <1>6. Jobs(k)!CallerKnows'
    BY DEF Jobs!CallerKnows, Jobs!WaiterHasSlot
  <1>7. Jobs(k)!RunsInJob'
    BY DEF Jobs!RunsInJob, Jobs!SpawnIsSuspended, Jobs!Alive
  <1>8. Jobs(k)!CleanedScopeIsDead'
    BY DEF Jobs!CleanedScopeIsDead, Jobs!Leftover, Jobs!Alive, Jobs!SpawnIsSuspended,
           Jobs!CleanupCloses, Jobs!RunsInJob
  <1>9. Jobs(k)!OrderedDeathIsKill'
    BY DEF Jobs!OrderedDeathIsKill, Jobs!FlagBeforeKill, Jobs!WaiterHasSlot,
           Jobs!Alive
  <1>10. Jobs(k)!KillWasOrdered'
    BY DEF Jobs!KillWasOrdered
  <1>11. Jobs(k)!KillIsOurs'
    BY DEF Jobs!KillIsOurs, Jobs!FlagBeforeKill, Jobs!KILLED, Jobs!WaiterHasSlot
  <1> QED
    BY <1>1, <1>2, <1>3, <1>4, <1>5, <1>6, <1>7, <1>8, <1>9, <1>10, <1>11

\* The jobs close with everything that runs in them.
LEMMA JobBackendDrop ==
  ASSUME NEW CONSTANT k \in BOOLEAN, Jobs(k)!IndInv, Jobs(k)!BackendDrop
  PROVE  Jobs(k)!IndInv'
  <1> USE JobConstants DEF Jobs!IndInv, Jobs!TypeOK, Jobs!BackendDrop,
                              Jobs!CloseJobs, Jobs!Terminated, Jobs!Active,
                              Jobs!scopeVars, Jobs!workVars, Jobs!callVars
  <1>1. Jobs(k)!TypeOK'
    BY DEF Jobs!TypeOK, Jobs!SpawnIsSuspended, Jobs!CallerKnows, Jobs!WaiterHasSlot,
           Jobs!RunsInJob
  <1>2. Jobs(k)!SpawnIsSuspended'
    BY DEF Jobs!SpawnIsSuspended, Jobs!Leftover, Jobs!Alive, Jobs!FlagBeforeKill, Jobs!RunsInJob,
           Jobs!CleanupCloses, Jobs!WaiterHasSlot
  <1>3. Jobs(k)!CleanupCloses'
    BY DEF Jobs!CleanupCloses
  <1>4. Jobs(k)!FlagBeforeKill'
    BY DEF Jobs!FlagBeforeKill, Jobs!SlotsOf, Jobs!KILLED, Jobs!STILL_ACTIVE,
           Jobs!SpawnIsSuspended, Jobs!WaiterHasSlot, Jobs!Alive
  <1>5. Jobs(k)!WaiterHasSlot'
    BY DEF Jobs!WaiterHasSlot, Jobs!SpawnIsSuspended, Jobs!CallerKnows, Jobs!Alive
  <1>6. Jobs(k)!CallerKnows'
    BY DEF Jobs!CallerKnows, Jobs!WaiterHasSlot
  <1>7. Jobs(k)!RunsInJob'
    BY DEF Jobs!RunsInJob, Jobs!SpawnIsSuspended, Jobs!Alive
  <1>8. Jobs(k)!CleanedScopeIsDead'
    BY DEF Jobs!CleanedScopeIsDead, Jobs!Leftover, Jobs!Alive, Jobs!SpawnIsSuspended,
           Jobs!CleanupCloses, Jobs!RunsInJob
  <1>9. Jobs(k)!OrderedDeathIsKill'
    BY DEF Jobs!OrderedDeathIsKill, Jobs!FlagBeforeKill, Jobs!WaiterHasSlot,
           Jobs!Alive
  <1>10. Jobs(k)!KillWasOrdered'
    BY DEF Jobs!KillWasOrdered
  <1>11. Jobs(k)!KillIsOurs'
    BY DEF Jobs!KillIsOurs, Jobs!FlagBeforeKill, Jobs!KILLED, Jobs!WaiterHasSlot
  <1> QED
    BY <1>1, <1>2, <1>3, <1>4, <1>5, <1>6, <1>7, <1>8, <1>9, <1>10, <1>11

\* The death of the program closes the jobs too.
LEMMA JobCrash ==
  ASSUME NEW CONSTANT k \in BOOLEAN, Jobs(k)!IndInv, Jobs(k)!Crash
  PROVE  Jobs(k)!IndInv'
  <1> USE JobConstants DEF Jobs!IndInv, Jobs!TypeOK, Jobs!Crash, Jobs!CloseJobs,
                              Jobs!Terminated, Jobs!Active
  <1>1. Jobs(k)!TypeOK'
    BY DEF Jobs!TypeOK, Jobs!SpawnIsSuspended, Jobs!CallerKnows, Jobs!WaiterHasSlot,
           Jobs!RunsInJob
  <1>2. Jobs(k)!SpawnIsSuspended'
    BY DEF Jobs!SpawnIsSuspended, Jobs!Leftover, Jobs!Alive, Jobs!FlagBeforeKill, Jobs!RunsInJob,
           Jobs!CleanupCloses, Jobs!WaiterHasSlot
  <1>3. Jobs(k)!CleanupCloses'
    BY DEF Jobs!CleanupCloses
  <1>4. Jobs(k)!FlagBeforeKill'
    BY DEF Jobs!FlagBeforeKill, Jobs!SlotsOf, Jobs!KILLED, Jobs!STILL_ACTIVE,
           Jobs!SpawnIsSuspended, Jobs!WaiterHasSlot, Jobs!Alive
  <1>5. Jobs(k)!WaiterHasSlot'
    BY DEF Jobs!WaiterHasSlot, Jobs!SpawnIsSuspended, Jobs!CallerKnows, Jobs!Alive
  <1>6. Jobs(k)!CallerKnows'
    BY DEF Jobs!CallerKnows, Jobs!WaiterHasSlot
  <1>7. Jobs(k)!RunsInJob'
    BY DEF Jobs!RunsInJob, Jobs!SpawnIsSuspended, Jobs!Alive
  <1>8. Jobs(k)!CleanedScopeIsDead'
    BY DEF Jobs!CleanedScopeIsDead, Jobs!Leftover, Jobs!Alive, Jobs!SpawnIsSuspended,
           Jobs!CleanupCloses, Jobs!RunsInJob
  <1>9. Jobs(k)!OrderedDeathIsKill'
    BY DEF Jobs!OrderedDeathIsKill, Jobs!FlagBeforeKill, Jobs!WaiterHasSlot,
           Jobs!Alive
  <1>10. Jobs(k)!KillWasOrdered'
    BY DEF Jobs!KillWasOrdered
  <1>11. Jobs(k)!KillIsOurs'
    BY DEF Jobs!KillIsOurs, Jobs!FlagBeforeKill, Jobs!KILLED, Jobs!WaiterHasSlot
  <1> QED
    BY <1>1, <1>2, <1>3, <1>4, <1>5, <1>6, <1>7, <1>8, <1>9, <1>10, <1>11

\* Every step of the Windows backend keeps the invariant.
LEMMA JobNext ==
  ASSUME NEW CONSTANT k \in BOOLEAN, Jobs(k)!IndInv, [Jobs(k)!Next]_(Jobs(k)!vars)
  PROVE  Jobs(k)!IndInv'
  <1>1. CASE UNCHANGED Jobs(k)!vars
    BY <1>1
       DEF Jobs!vars, Jobs!kernelVars, Jobs!stateVars, Jobs!scopeVars,
           Jobs!workVars, Jobs!callVars, Jobs!IndInv, Jobs!TypeOK,
           Jobs!SpawnIsSuspended, Jobs!CleanupCloses, Jobs!FlagBeforeKill,
           Jobs!SlotsOf, Jobs!WaiterHasSlot, Jobs!CallerKnows, Jobs!RunsInJob,
           Jobs!CleanedScopeIsDead, Jobs!Leftover, Jobs!Alive, Jobs!OrderedDeathIsKill,
           Jobs!KillWasOrdered, Jobs!KillIsOurs
  <1>2. ASSUME NEW p \in JobProcs(k),
               \/ Jobs(k)!Die(p) \/ Jobs(k)!Assign(p) \/ Jobs(k)!Resume(p)
               \/ Jobs(k)!SetupFails(p) \/ Jobs(k)!UndoKill(p) \/ Jobs(k)!UndoWait(p)
               \/ Jobs(k)!Signal(p)
               \/ Jobs(k)!WaitOk(p) \/ Jobs(k)!WaitErr(p) \/ Jobs(k)!Unpark(p)
               \/ Jobs(k)!ParkedEnds(p) \/ Jobs(k)!Drained(p)
        PROVE  Jobs(k)!IndInv'
    BY <1>2, JobDie, JobAssign, JobResume, JobSetupFails, JobUndoKill, JobUndoWait,
       JobSignal, JobWaitOk, JobWaitErr, JobUnpark, JobParkedEnds, JobDrained
  <1>3. ASSUME NEW p \in JobProcs(k), NEW q \in JobProcs(k), Jobs(k)!Fork(p, q)
        PROVE  Jobs(k)!IndInv'
    BY <1>3, JobFork
  <1>4. ASSUME NEW p \in JobProcs(k), NEW c \in JobCodes(k), Jobs(k)!End(p, c)
        PROVE  Jobs(k)!IndInv'
    BY <1>4, JobEnd
  <1>5. ASSUME NEW p \in JobProcs(k), NEW s \in JobScopes(k), Jobs(k)!Create(p, s)
        PROVE  Jobs(k)!IndInv'
    BY <1>5, JobCreate
  <1>6. ASSUME NEW s \in JobScopes(k),
               \/ Jobs(k)!CleanFlag(s) \/ Jobs(k)!CleanTerminate(s)
               \/ Jobs(k)!CleanPoll(s) \/ Jobs(k)!CleanFails(s)
        PROVE  Jobs(k)!IndInv'
    BY <1>6, JobCleanFlag, JobCleanTerminate, JobCleanPoll, JobCleanFails
  <1>7. ASSUME NEW ss \in SUBSET JobScopes(k), Jobs(k)!HardFlag(ss)
        PROVE  Jobs(k)!IndInv'
    BY <1>7, JobHardFlag
  <1>8. ASSUME NEW c \in JobCallers(k),
               Jobs(k)!Ask(c) \/ Jobs(k)!Changed(c) \/ Jobs(k)!Read(c)
        PROVE  Jobs(k)!IndInv'
    BY <1>8, JobAsk, JobChanged, JobRead
  <1>9. ASSUME NEW c \in JobCallers(k), NEW p \in JobProcs(k),
               Jobs(k)!WaitBegin(c, p)
        PROVE  Jobs(k)!IndInv'
    BY <1>9, JobWaitBegin
  <1>10. CASE Jobs(k)!HardTerminate \/ Jobs(k)!BackendDrop \/ Jobs(k)!Crash
    BY <1>10, JobHardTerminate, JobBackendDrop, JobCrash
  <1>11. \A s \in JobScopes(k) : {s} \in SUBSET JobScopes(k)
    OBVIOUS
  <1>12. JobScopes(k) \in SUBSET JobScopes(k)
    OBVIOUS
  <1> QED
    BY <1>1, <1>2, <1>3, <1>4, <1>5, <1>6, <1>7, <1>8, <1>9, <1>10, <1>11, <1>12
       DEF Jobs!Next

\* A step that ends a call of wait with a failure ends it with one that was
\* published since the call began.
LEMMA JobAnswersAreFresh ==
  ASSUME NEW CONSTANT k \in BOOLEAN, Jobs(k)!IndInv, Jobs(k)!Next
  PROVE  Jobs(k)!FreshAnswers
  <1> SUFFICES ASSUME NEW c \in JobCallers(k), callPc[c] # "idle",
                      callPc'[c] = "idle",
                      answer'[c] \in {"err", "closed"}, jobUp'
               PROVE  answer'[c] = "err" /\ c \in unseen
    BY DEF Jobs!FreshAnswers
  <1> USE DEF Jobs!IndInv, Jobs!TypeOK
  <1>1. ASSUME NEW d \in JobCallers(k), Jobs(k)!Read(d)
        PROVE  answer'[c] = "err" /\ c \in unseen
    BY <1>1 DEF Jobs!Read, Jobs!CallerKnows
  <1>2. ASSUME NEW d \in JobCallers(k), Jobs(k)!Ask(d)
        PROVE  answer'[c] = "err" /\ c \in unseen
    BY <1>2 DEF Jobs!Ask, Jobs!CallerKnows, Jobs!WaiterHasSlot
  <1>3. ASSUME NEW d \in JobCallers(k), NEW p \in JobProcs(k),
               Jobs(k)!WaitBegin(d, p)
        PROVE  FALSE
    BY <1>3 DEF Jobs!WaitBegin
  <1>4. ASSUME NEW d \in JobCallers(k), Jobs(k)!Changed(d)
        PROVE  FALSE
    BY <1>4 DEF Jobs!Changed
  <1>5. CASE Jobs(k)!Crash
    BY <1>5 DEF Jobs!Crash, Jobs!CloseJobs
  <1>6. CASE UNCHANGED callPc
    BY <1>6
  <1> QED
    BY <1>1, <1>2, <1>3, <1>4, <1>5, <1>6
       DEF Jobs!Next, Jobs!Die, Jobs!Assign, Jobs!Resume, Jobs!SetupFails,
           Jobs!UndoKill, Jobs!UndoWait, Jobs!Signal, Jobs!WaitOk, Jobs!WaitErr, Jobs!Unpark,
           Jobs!ParkedEnds, Jobs!Drained, Jobs!Fork, Jobs!End, Jobs!Create,
           Jobs!HardFlag, Jobs!CleanFlag, Jobs!CleanTerminate, Jobs!CleanPoll,
           Jobs!CleanFails, Jobs!HardTerminate, Jobs!BackendDrop, Jobs!callVars

-----------------------------------------------------------------------------
(* The sampler: a reader holds the flag of its process, so there is one for  *)
(* each process, and what passes its second identity check was read before   *)
(* the process ended.                                                        *)

\* What is assumed of the constants holds of both parts.
LEMMA SampleConstants ==
  ASSUME NEW CONSTANT k \in BOOLEAN
  PROVE  NoProc \notin SampleProcs(k) /\ Permits \in Nat \ {0}
  BY InfraAssumption DEF SampleProcs

\* The invariant holds initially.
LEMMA SampleInit ==
  ASSUME NEW CONSTANT k \in BOOLEAN
  PROVE  Samples(k)!Init => Samples(k)!IndInv
  BY SampleConstants
     DEF Samples!Init, Samples!IndInv, Samples!TypeOK, Samples!SampleIsTrue,
         Samples!NoResurrectedSample, Samples!SampleIsOwn,
         Samples!BaselineHasSlot, Samples!OneObservationPerChild,
         Samples!MonitorFollows, Samples!QueuedHasFlag, Samples!ReaderHasFlag,
         Samples!AnswerIsOwn

\* A process that was just attached is known to no observation.
LEMMA SampleAttach ==
  ASSUME NEW CONSTANT k \in BOOLEAN, Samples(k)!IndInv, NEW p \in SampleProcs(k),
         Samples(k)!Attach(p)
  PROVE  Samples(k)!IndInv'
  <1> USE SampleConstants DEF Samples!IndInv, Samples!TypeOK, Samples!SampleIsTrue,
                              Samples!Attach, Samples!readVars
  <1>1. Samples(k)!TypeOK'
    BY DEF Samples!TypeOK, Samples!ReaderHasFlag
  <1>2. Samples(k)!NoResurrectedSample'
    BY DEF Samples!NoResurrectedSample, Samples!MonitorFollows
  <1>3. Samples(k)!SampleIsOwn'
    BY DEF Samples!SampleIsOwn, Samples!AnswerIsOwn
  <1>4. Samples(k)!BaselineHasSlot'
    BY DEF Samples!BaselineHasSlot
  <1>5. Samples(k)!OneObservationPerChild'
    BY DEF Samples!OneObservationPerChild, Samples!QueuedHasFlag,
           Samples!ReaderHasFlag
  <1>6. Samples(k)!MonitorFollows'
    BY DEF Samples!MonitorFollows
  <1>7. Samples(k)!QueuedHasFlag'
    BY DEF Samples!QueuedHasFlag, Samples!ReaderHasFlag, Samples!MonitorFollows
  <1>8. Samples(k)!ReaderHasFlag'
    BY DEF Samples!ReaderHasFlag, Samples!QueuedHasFlag, Samples!MonitorFollows,
           Samples!OneObservationPerChild
  <1>9. Samples(k)!AnswerIsOwn'
    BY DEF Samples!AnswerIsOwn, Samples!ReaderHasFlag
  <1> QED
    BY <1>1, <1>2, <1>3, <1>4, <1>5, <1>6, <1>7, <1>8, <1>9

\* The process ends under whatever observes it.
LEMMA SampleReap ==
  ASSUME NEW CONSTANT k \in BOOLEAN, Samples(k)!IndInv, NEW p \in SampleProcs(k),
         Samples(k)!Reap(p)
  PROVE  Samples(k)!IndInv'
  <1> USE SampleConstants DEF Samples!IndInv, Samples!TypeOK, Samples!SampleIsTrue,
                              Samples!Reap, Samples!coordVars, Samples!readVars
  <1>1. Samples(k)!TypeOK'
    BY DEF Samples!TypeOK, Samples!ReaderHasFlag
  <1>2. Samples(k)!NoResurrectedSample'
    BY DEF Samples!NoResurrectedSample, Samples!MonitorFollows
  <1>3. Samples(k)!SampleIsOwn'
    BY DEF Samples!SampleIsOwn, Samples!AnswerIsOwn
  <1>4. Samples(k)!BaselineHasSlot'
    BY DEF Samples!BaselineHasSlot
  <1>5. Samples(k)!OneObservationPerChild'
    BY DEF Samples!OneObservationPerChild, Samples!QueuedHasFlag,
           Samples!ReaderHasFlag
  <1>6. Samples(k)!MonitorFollows'
    BY DEF Samples!MonitorFollows
  <1>7. Samples(k)!QueuedHasFlag'
    BY DEF Samples!QueuedHasFlag, Samples!ReaderHasFlag, Samples!MonitorFollows
  <1>8. Samples(k)!ReaderHasFlag'
    BY DEF Samples!ReaderHasFlag, Samples!QueuedHasFlag, Samples!MonitorFollows,
           Samples!OneObservationPerChild
  <1>9. Samples(k)!AnswerIsOwn'
    BY DEF Samples!AnswerIsOwn, Samples!ReaderHasFlag
  <1> QED
    BY <1>1, <1>2, <1>3, <1>4, <1>5, <1>6, <1>7, <1>8, <1>9

\* Its number goes to a stranger.
LEMMA SampleRecycle ==
  ASSUME NEW CONSTANT k \in BOOLEAN, Samples(k)!IndInv, NEW p \in SampleProcs(k),
         Samples(k)!Recycle(p)
  PROVE  Samples(k)!IndInv'
  <1> USE SampleConstants DEF Samples!IndInv, Samples!TypeOK, Samples!SampleIsTrue,
                              Samples!Recycle, Samples!coordVars, Samples!readVars
  <1>1. Samples(k)!TypeOK'
    BY DEF Samples!TypeOK, Samples!ReaderHasFlag
  <1>2. Samples(k)!NoResurrectedSample'
    BY DEF Samples!NoResurrectedSample, Samples!MonitorFollows
  <1>3. Samples(k)!SampleIsOwn'
    BY DEF Samples!SampleIsOwn, Samples!AnswerIsOwn
  <1>4. Samples(k)!BaselineHasSlot'
    BY DEF Samples!BaselineHasSlot
  <1>5. Samples(k)!OneObservationPerChild'
    BY DEF Samples!OneObservationPerChild, Samples!QueuedHasFlag,
           Samples!ReaderHasFlag
  <1>6. Samples(k)!MonitorFollows'
    BY DEF Samples!MonitorFollows
  <1>7. Samples(k)!QueuedHasFlag'
    BY DEF Samples!QueuedHasFlag, Samples!ReaderHasFlag, Samples!MonitorFollows
  <1>8. Samples(k)!ReaderHasFlag'
    BY DEF Samples!ReaderHasFlag, Samples!QueuedHasFlag, Samples!MonitorFollows,
           Samples!OneObservationPerChild
  <1>9. Samples(k)!AnswerIsOwn'
    BY DEF Samples!AnswerIsOwn, Samples!ReaderHasFlag
  <1> QED
    BY <1>1, <1>2, <1>3, <1>4, <1>5, <1>6, <1>7, <1>8, <1>9

\* Slot and baseline go together.
LEMMA SampleWait ==
  ASSUME NEW CONSTANT k \in BOOLEAN, Samples(k)!IndInv, NEW p \in SampleProcs(k),
         Samples(k)!Wait(p)
  PROVE  Samples(k)!IndInv'
  <1> USE SampleConstants DEF Samples!IndInv, Samples!TypeOK, Samples!SampleIsTrue,
                              Samples!Wait, Samples!coordVars, Samples!readVars
  <1>1. Samples(k)!TypeOK'
    BY DEF Samples!TypeOK, Samples!ReaderHasFlag
  <1>2. Samples(k)!NoResurrectedSample'
    BY DEF Samples!NoResurrectedSample, Samples!MonitorFollows
  <1>3. Samples(k)!SampleIsOwn'
    BY DEF Samples!SampleIsOwn, Samples!AnswerIsOwn
  <1>4. Samples(k)!BaselineHasSlot'
    BY DEF Samples!BaselineHasSlot
  <1>5. Samples(k)!OneObservationPerChild'
    BY DEF Samples!OneObservationPerChild, Samples!QueuedHasFlag,
           Samples!ReaderHasFlag
  <1>6. Samples(k)!MonitorFollows'
    BY DEF Samples!MonitorFollows
  <1>7. Samples(k)!QueuedHasFlag'
    BY DEF Samples!QueuedHasFlag, Samples!ReaderHasFlag, Samples!MonitorFollows
  <1>8. Samples(k)!ReaderHasFlag'
    BY DEF Samples!ReaderHasFlag, Samples!QueuedHasFlag, Samples!MonitorFollows,
           Samples!OneObservationPerChild
  <1>9. Samples(k)!AnswerIsOwn'
    BY DEF Samples!AnswerIsOwn, Samples!ReaderHasFlag
  <1> QED
    BY <1>1, <1>2, <1>3, <1>4, <1>5, <1>6, <1>7, <1>8, <1>9

\* A failed wait leaves both.
LEMMA SampleWaitFails ==
  ASSUME NEW CONSTANT k \in BOOLEAN, Samples(k)!IndInv, NEW p \in SampleProcs(k),
         Samples(k)!WaitFails(p)
  PROVE  Samples(k)!IndInv'
  <1> USE SampleConstants DEF Samples!IndInv, Samples!TypeOK, Samples!SampleIsTrue,
                              Samples!WaitFails, Samples!coordVars, Samples!readVars
  <1>1. Samples(k)!TypeOK'
    BY DEF Samples!TypeOK, Samples!ReaderHasFlag
  <1>2. Samples(k)!NoResurrectedSample'
    BY DEF Samples!NoResurrectedSample, Samples!MonitorFollows
  <1>3. Samples(k)!SampleIsOwn'
    BY DEF Samples!SampleIsOwn, Samples!AnswerIsOwn
  <1>4. Samples(k)!BaselineHasSlot'
    BY DEF Samples!BaselineHasSlot
  <1>5. Samples(k)!OneObservationPerChild'
    BY DEF Samples!OneObservationPerChild, Samples!QueuedHasFlag,
           Samples!ReaderHasFlag
  <1>6. Samples(k)!MonitorFollows'
    BY DEF Samples!MonitorFollows
  <1>7. Samples(k)!QueuedHasFlag'
    BY DEF Samples!QueuedHasFlag, Samples!ReaderHasFlag, Samples!MonitorFollows
  <1>8. Samples(k)!ReaderHasFlag'
    BY DEF Samples!ReaderHasFlag, Samples!QueuedHasFlag, Samples!MonitorFollows,
           Samples!OneObservationPerChild
  <1>9. Samples(k)!AnswerIsOwn'
    BY DEF Samples!AnswerIsOwn, Samples!ReaderHasFlag
  <1> QED
    BY <1>1, <1>2, <1>3, <1>4, <1>5, <1>6, <1>7, <1>8, <1>9

\* From here on no result is stored.
LEMMA SampleRecord ==
  ASSUME NEW CONSTANT k \in BOOLEAN, Samples(k)!IndInv, NEW p \in SampleProcs(k),
         Samples(k)!Record(p)
  PROVE  Samples(k)!IndInv'
  <1> USE SampleConstants DEF Samples!IndInv, Samples!TypeOK, Samples!SampleIsTrue,
                              Samples!Record, Samples!coordVars, Samples!readVars
  <1>1. Samples(k)!TypeOK'
    BY DEF Samples!TypeOK, Samples!ReaderHasFlag
  <1>2. Samples(k)!NoResurrectedSample'
    BY DEF Samples!NoResurrectedSample, Samples!MonitorFollows
  <1>3. Samples(k)!SampleIsOwn'
    BY DEF Samples!SampleIsOwn, Samples!AnswerIsOwn
  <1>4. Samples(k)!BaselineHasSlot'
    BY DEF Samples!BaselineHasSlot
  <1>5. Samples(k)!OneObservationPerChild'
    BY DEF Samples!OneObservationPerChild, Samples!QueuedHasFlag,
           Samples!ReaderHasFlag
  <1>6. Samples(k)!MonitorFollows'
    BY DEF Samples!MonitorFollows
  <1>7. Samples(k)!QueuedHasFlag'
    BY DEF Samples!QueuedHasFlag, Samples!ReaderHasFlag, Samples!MonitorFollows
  <1>8. Samples(k)!ReaderHasFlag'
    BY DEF Samples!ReaderHasFlag, Samples!QueuedHasFlag, Samples!MonitorFollows,
           Samples!OneObservationPerChild
  <1>9. Samples(k)!AnswerIsOwn'
    BY DEF Samples!AnswerIsOwn, Samples!ReaderHasFlag
  <1> QED
    BY <1>1, <1>2, <1>3, <1>4, <1>5, <1>6, <1>7, <1>8, <1>9

\* The sample is removed after the end was recorded.
LEMMA SampleEvict ==
  ASSUME NEW CONSTANT k \in BOOLEAN, Samples(k)!IndInv, NEW p \in SampleProcs(k),
         Samples(k)!Evict(p)
  PROVE  Samples(k)!IndInv'
  <1> USE SampleConstants DEF Samples!IndInv, Samples!TypeOK, Samples!SampleIsTrue,
                              Samples!Evict, Samples!coordVars, Samples!readVars
  <1>1. Samples(k)!TypeOK'
    BY DEF Samples!TypeOK, Samples!ReaderHasFlag
  <1>2. Samples(k)!NoResurrectedSample'
    BY DEF Samples!NoResurrectedSample, Samples!MonitorFollows
  <1>3. Samples(k)!SampleIsOwn'
    BY DEF Samples!SampleIsOwn, Samples!AnswerIsOwn
  <1>4. Samples(k)!BaselineHasSlot'
    BY DEF Samples!BaselineHasSlot
  <1>5. Samples(k)!OneObservationPerChild'
    BY DEF Samples!OneObservationPerChild, Samples!QueuedHasFlag,
           Samples!ReaderHasFlag
  <1>6. Samples(k)!MonitorFollows'
    BY DEF Samples!MonitorFollows
  <1>7. Samples(k)!QueuedHasFlag'
    BY DEF Samples!QueuedHasFlag, Samples!ReaderHasFlag, Samples!MonitorFollows
  <1>8. Samples(k)!ReaderHasFlag'
    BY DEF Samples!ReaderHasFlag, Samples!QueuedHasFlag, Samples!MonitorFollows,
           Samples!OneObservationPerChild
  <1>9. Samples(k)!AnswerIsOwn'
    BY DEF Samples!AnswerIsOwn, Samples!ReaderHasFlag
  <1> QED
    BY <1>1, <1>2, <1>3, <1>4, <1>5, <1>6, <1>7, <1>8, <1>9

\* An observation starts only with a slot whose flag is free.
LEMMA SampleStart ==
  ASSUME NEW CONSTANT k \in BOOLEAN, Samples(k)!IndInv, NEW p \in SampleProcs(k),
         Samples(k)!SampleStart(p)
  PROVE  Samples(k)!IndInv'
  <1> USE SampleConstants DEF Samples!IndInv, Samples!TypeOK, Samples!SampleIsTrue,
                              Samples!SampleStart, Samples!Leave, Samples!procVars,
                              Samples!readVars
  <1>1. Samples(k)!TypeOK'
    BY DEF Samples!TypeOK, Samples!ReaderHasFlag
  <1>2. Samples(k)!NoResurrectedSample'
    BY DEF Samples!NoResurrectedSample, Samples!MonitorFollows
  <1>3. Samples(k)!SampleIsOwn'
    BY DEF Samples!SampleIsOwn, Samples!AnswerIsOwn
  <1>4. Samples(k)!BaselineHasSlot'
    BY DEF Samples!BaselineHasSlot
  <1>5. Samples(k)!OneObservationPerChild'
    BY DEF Samples!OneObservationPerChild, Samples!QueuedHasFlag,
           Samples!ReaderHasFlag
  <1>6. Samples(k)!MonitorFollows'
    BY DEF Samples!MonitorFollows
  <1>7. Samples(k)!QueuedHasFlag'
    BY DEF Samples!QueuedHasFlag, Samples!ReaderHasFlag, Samples!MonitorFollows
  <1>8. Samples(k)!ReaderHasFlag'
    BY DEF Samples!ReaderHasFlag, Samples!QueuedHasFlag, Samples!MonitorFollows,
           Samples!OneObservationPerChild
  <1>9. Samples(k)!AnswerIsOwn'
    BY DEF Samples!AnswerIsOwn, Samples!ReaderHasFlag
  <1> QED
    BY <1>1, <1>2, <1>3, <1>4, <1>5, <1>6, <1>7, <1>8, <1>9

\* A timeout gives back a flag no reader has taken over.
LEMMA SampleTimeout ==
  ASSUME NEW CONSTANT k \in BOOLEAN, Samples(k)!IndInv, NEW p \in SampleProcs(k),
         Samples(k)!Timeout(p)
  PROVE  Samples(k)!IndInv'
  <1> USE SampleConstants DEF Samples!IndInv, Samples!TypeOK, Samples!SampleIsTrue,
                              Samples!Timeout, Samples!Leave, Samples!procVars,
                              Samples!readVars
  <1>1. Samples(k)!TypeOK'
    BY DEF Samples!TypeOK, Samples!ReaderHasFlag
  <1>2. Samples(k)!NoResurrectedSample'
    BY DEF Samples!NoResurrectedSample, Samples!MonitorFollows
  <1>3. Samples(k)!SampleIsOwn'
    BY DEF Samples!SampleIsOwn, Samples!AnswerIsOwn
  <1>4. Samples(k)!BaselineHasSlot'
    BY DEF Samples!BaselineHasSlot
  <1>5. Samples(k)!OneObservationPerChild'
    BY DEF Samples!OneObservationPerChild, Samples!QueuedHasFlag,
           Samples!ReaderHasFlag
  <1>6. Samples(k)!MonitorFollows'
    BY DEF Samples!MonitorFollows
  <1>7. Samples(k)!QueuedHasFlag'
    BY DEF Samples!QueuedHasFlag, Samples!ReaderHasFlag, Samples!MonitorFollows
  <1>8. Samples(k)!ReaderHasFlag'
    BY DEF Samples!ReaderHasFlag, Samples!QueuedHasFlag, Samples!MonitorFollows,
           Samples!OneObservationPerChild
  <1>9. Samples(k)!AnswerIsOwn'
    BY DEF Samples!AnswerIsOwn, Samples!ReaderHasFlag
  <1> QED
    BY <1>1, <1>2, <1>3, <1>4, <1>5, <1>6, <1>7, <1>8, <1>9

\* So does an abort.
LEMMA SampleAborted ==
  ASSUME NEW CONSTANT k \in BOOLEAN, Samples(k)!IndInv, NEW p \in SampleProcs(k),
         Samples(k)!Aborted(p)
  PROVE  Samples(k)!IndInv'
  <1> USE SampleConstants DEF Samples!IndInv, Samples!TypeOK, Samples!SampleIsTrue,
                              Samples!Aborted, Samples!Leave, Samples!procVars,
                              Samples!readVars
  <1>1. Samples(k)!TypeOK'
    BY DEF Samples!TypeOK, Samples!ReaderHasFlag
  <1>2. Samples(k)!NoResurrectedSample'
    BY DEF Samples!NoResurrectedSample, Samples!MonitorFollows
  <1>3. Samples(k)!SampleIsOwn'
    BY DEF Samples!SampleIsOwn, Samples!AnswerIsOwn
  <1>4. Samples(k)!BaselineHasSlot'
    BY DEF Samples!BaselineHasSlot
  <1>5. Samples(k)!OneObservationPerChild'
    BY DEF Samples!OneObservationPerChild, Samples!QueuedHasFlag,
           Samples!ReaderHasFlag
  <1>6. Samples(k)!MonitorFollows'
    BY DEF Samples!MonitorFollows
  <1>7. Samples(k)!QueuedHasFlag'
    BY DEF Samples!QueuedHasFlag, Samples!ReaderHasFlag, Samples!MonitorFollows
  <1>8. Samples(k)!ReaderHasFlag'
    BY DEF Samples!ReaderHasFlag, Samples!QueuedHasFlag, Samples!MonitorFollows,
           Samples!OneObservationPerChild
  <1>9. Samples(k)!AnswerIsOwn'
    BY DEF Samples!AnswerIsOwn, Samples!ReaderHasFlag
  <1> QED
    BY <1>1, <1>2, <1>3, <1>4, <1>5, <1>6, <1>7, <1>8, <1>9

\* A result is stored for a live process only.
LEMMA SampleCollect ==
  ASSUME NEW CONSTANT k \in BOOLEAN, Samples(k)!IndInv, NEW p \in SampleProcs(k),
         Samples(k)!Collect(p)
  PROVE  Samples(k)!IndInv'
  <1> USE SampleConstants DEF Samples!IndInv, Samples!TypeOK, Samples!SampleIsTrue,
                              Samples!Collect, Samples!Leave, Samples!Live,
                              Samples!procVars, Samples!readVars
  <1>1. Samples(k)!TypeOK'
    BY DEF Samples!TypeOK, Samples!ReaderHasFlag
  <1>2. Samples(k)!NoResurrectedSample'
    BY DEF Samples!NoResurrectedSample, Samples!MonitorFollows
  <1>3. Samples(k)!SampleIsOwn'
    BY DEF Samples!SampleIsOwn, Samples!AnswerIsOwn
  <1>4. Samples(k)!BaselineHasSlot'
    BY DEF Samples!BaselineHasSlot
  <1>5. Samples(k)!OneObservationPerChild'
    BY DEF Samples!OneObservationPerChild, Samples!QueuedHasFlag,
           Samples!ReaderHasFlag
  <1>6. Samples(k)!MonitorFollows'
    BY DEF Samples!MonitorFollows
  <1>7. Samples(k)!QueuedHasFlag'
    BY DEF Samples!QueuedHasFlag, Samples!ReaderHasFlag, Samples!MonitorFollows
  <1>8. Samples(k)!ReaderHasFlag'
    BY DEF Samples!ReaderHasFlag, Samples!QueuedHasFlag, Samples!MonitorFollows,
           Samples!OneObservationPerChild
  <1>9. Samples(k)!AnswerIsOwn'
    BY DEF Samples!AnswerIsOwn, Samples!ReaderHasFlag
  <1> QED
    BY <1>1, <1>2, <1>3, <1>4, <1>5, <1>6, <1>7, <1>8, <1>9

\* The flag passes to the reader.
LEMMA SampleAcquire ==
  ASSUME NEW CONSTANT k \in BOOLEAN, Samples(k)!IndInv, NEW p \in SampleProcs(k),
         NEW r \in SampleReaders(k), Samples(k)!Acquire(p, r)
  PROVE  Samples(k)!IndInv'
  <1> USE SampleConstants DEF Samples!IndInv, Samples!TypeOK, Samples!SampleIsTrue,
                              Samples!Acquire, Samples!procVars
  <1>1. Samples(k)!TypeOK'
    BY DEF Samples!TypeOK, Samples!ReaderHasFlag
  <1>2. Samples(k)!NoResurrectedSample'
    BY DEF Samples!NoResurrectedSample, Samples!MonitorFollows
  <1>3. Samples(k)!SampleIsOwn'
    BY DEF Samples!SampleIsOwn, Samples!AnswerIsOwn
  <1>4. Samples(k)!BaselineHasSlot'
    BY DEF Samples!BaselineHasSlot
  <1>5. Samples(k)!OneObservationPerChild'
    BY DEF Samples!OneObservationPerChild, Samples!QueuedHasFlag,
           Samples!ReaderHasFlag
  <1>6. Samples(k)!MonitorFollows'
    BY DEF Samples!MonitorFollows
  <1>7. Samples(k)!QueuedHasFlag'
    BY DEF Samples!QueuedHasFlag, Samples!ReaderHasFlag, Samples!MonitorFollows
  <1>8. Samples(k)!ReaderHasFlag'
    BY DEF Samples!ReaderHasFlag, Samples!QueuedHasFlag, Samples!MonitorFollows,
           Samples!OneObservationPerChild
  <1>9. Samples(k)!AnswerIsOwn'
    BY DEF Samples!AnswerIsOwn, Samples!ReaderHasFlag
  <1> QED
    BY <1>1, <1>2, <1>3, <1>4, <1>5, <1>6, <1>7, <1>8, <1>9

\* The first identity check.
LEMMA SampleCheck ==
  ASSUME NEW CONSTANT k \in BOOLEAN, Samples(k)!IndInv, NEW r \in SampleReaders(k),
         Samples(k)!Check(r)
  PROVE  Samples(k)!IndInv'
  <1> USE SampleConstants DEF Samples!IndInv, Samples!TypeOK, Samples!SampleIsTrue,
                              Samples!Check, Samples!Go, Samples!Finish,
                              Samples!Identity, Samples!procVars, Samples!coordVars
  <1>1. Samples(k)!TypeOK'
    BY DEF Samples!TypeOK, Samples!ReaderHasFlag
  <1>2. Samples(k)!NoResurrectedSample'
    BY DEF Samples!NoResurrectedSample, Samples!MonitorFollows
  <1>3. Samples(k)!SampleIsOwn'
    BY DEF Samples!SampleIsOwn, Samples!AnswerIsOwn
  <1>4. Samples(k)!BaselineHasSlot'
    BY DEF Samples!BaselineHasSlot
  <1>5. Samples(k)!OneObservationPerChild'
    BY DEF Samples!OneObservationPerChild, Samples!QueuedHasFlag,
           Samples!ReaderHasFlag
  <1>6. Samples(k)!MonitorFollows'
    BY DEF Samples!MonitorFollows
  <1>7. Samples(k)!QueuedHasFlag'
    BY DEF Samples!QueuedHasFlag, Samples!ReaderHasFlag, Samples!MonitorFollows
  <1>8. Samples(k)!ReaderHasFlag'
    BY DEF Samples!ReaderHasFlag, Samples!QueuedHasFlag, Samples!MonitorFollows,
           Samples!OneObservationPerChild
  <1>9. Samples(k)!AnswerIsOwn'
    BY DEF Samples!AnswerIsOwn, Samples!ReaderHasFlag
  <1> QED
    BY <1>1, <1>2, <1>3, <1>4, <1>5, <1>6, <1>7, <1>8, <1>9

\* What is read while the process runs is its own.
LEMMA SampleRead ==
  ASSUME NEW CONSTANT k \in BOOLEAN, Samples(k)!IndInv, NEW r \in SampleReaders(k),
         Samples(k)!Read(r)
  PROVE  Samples(k)!IndInv'
  <1> USE SampleConstants DEF Samples!IndInv, Samples!TypeOK, Samples!SampleIsTrue,
                              Samples!Read, Samples!Go, Samples!Finish,
                              Samples!procVars, Samples!coordVars
  <1>1. Samples(k)!TypeOK'
    BY DEF Samples!TypeOK, Samples!ReaderHasFlag
  <1>2. Samples(k)!NoResurrectedSample'
    BY DEF Samples!NoResurrectedSample, Samples!MonitorFollows
  <1>3. Samples(k)!SampleIsOwn'
    BY DEF Samples!SampleIsOwn, Samples!AnswerIsOwn
  <1>4. Samples(k)!BaselineHasSlot'
    BY DEF Samples!BaselineHasSlot
  <1>5. Samples(k)!OneObservationPerChild'
    BY DEF Samples!OneObservationPerChild, Samples!QueuedHasFlag,
           Samples!ReaderHasFlag
  <1>6. Samples(k)!MonitorFollows'
    BY DEF Samples!MonitorFollows
  <1>7. Samples(k)!QueuedHasFlag'
    BY DEF Samples!QueuedHasFlag, Samples!ReaderHasFlag, Samples!MonitorFollows
  <1>8. Samples(k)!ReaderHasFlag'
    BY DEF Samples!ReaderHasFlag, Samples!QueuedHasFlag, Samples!MonitorFollows,
           Samples!OneObservationPerChild
  <1>9. Samples(k)!AnswerIsOwn'
    BY DEF Samples!AnswerIsOwn, Samples!ReaderHasFlag
  <1> QED
    BY <1>1, <1>2, <1>3, <1>4, <1>5, <1>6, <1>7, <1>8, <1>9

\* A baseline is stored for a registered slot only.
LEMMA SampleInsert ==
  ASSUME NEW CONSTANT k \in BOOLEAN, Samples(k)!IndInv, NEW r \in SampleReaders(k),
         Samples(k)!Insert(r)
  PROVE  Samples(k)!IndInv'
  <1> USE SampleConstants DEF Samples!IndInv, Samples!TypeOK, Samples!SampleIsTrue,
                              Samples!Insert, Samples!Go, Samples!Finish,
                              Samples!procVars, Samples!coordVars
  <1>1. Samples(k)!TypeOK'
    BY DEF Samples!TypeOK, Samples!ReaderHasFlag
  <1>2. Samples(k)!NoResurrectedSample'
    BY DEF Samples!NoResurrectedSample, Samples!MonitorFollows
  <1>3. Samples(k)!SampleIsOwn'
    BY DEF Samples!SampleIsOwn, Samples!AnswerIsOwn
  <1>4. Samples(k)!BaselineHasSlot'
    BY DEF Samples!BaselineHasSlot
  <1>5. Samples(k)!OneObservationPerChild'
    BY DEF Samples!OneObservationPerChild, Samples!QueuedHasFlag,
           Samples!ReaderHasFlag
  <1>6. Samples(k)!MonitorFollows'
    BY DEF Samples!MonitorFollows
  <1>7. Samples(k)!QueuedHasFlag'
    BY DEF Samples!QueuedHasFlag, Samples!ReaderHasFlag, Samples!MonitorFollows
  <1>8. Samples(k)!ReaderHasFlag'
    BY DEF Samples!ReaderHasFlag, Samples!QueuedHasFlag, Samples!MonitorFollows,
           Samples!OneObservationPerChild
  <1>9. Samples(k)!AnswerIsOwn'
    BY DEF Samples!AnswerIsOwn, Samples!ReaderHasFlag
  <1> QED
    BY <1>1, <1>2, <1>3, <1>4, <1>5, <1>6, <1>7, <1>8, <1>9

\* A process that still runs was running when it was read.
LEMMA SampleRecheck ==
  ASSUME NEW CONSTANT k \in BOOLEAN, Samples(k)!IndInv, NEW r \in SampleReaders(k),
         Samples(k)!Recheck(r)
  PROVE  Samples(k)!IndInv'
  <1> USE SampleConstants DEF Samples!IndInv, Samples!TypeOK, Samples!SampleIsTrue,
                              Samples!Recheck, Samples!Finish, Samples!Identity,
                              Samples!procVars
  <1>1. Samples(k)!TypeOK'
    BY DEF Samples!TypeOK, Samples!ReaderHasFlag
  <1>2. Samples(k)!NoResurrectedSample'
    BY DEF Samples!NoResurrectedSample, Samples!MonitorFollows
  <1>3. Samples(k)!SampleIsOwn'
    BY DEF Samples!SampleIsOwn, Samples!AnswerIsOwn
  <1>4. Samples(k)!BaselineHasSlot'
    BY DEF Samples!BaselineHasSlot
  <1>5. Samples(k)!OneObservationPerChild'
    BY DEF Samples!OneObservationPerChild, Samples!QueuedHasFlag,
           Samples!ReaderHasFlag
  <1>6. Samples(k)!MonitorFollows'
    BY DEF Samples!MonitorFollows
  <1>7. Samples(k)!QueuedHasFlag'
    BY DEF Samples!QueuedHasFlag, Samples!ReaderHasFlag, Samples!MonitorFollows
  <1>8. Samples(k)!ReaderHasFlag'
    BY DEF Samples!ReaderHasFlag, Samples!QueuedHasFlag, Samples!MonitorFollows,
           Samples!OneObservationPerChild
  <1>9. Samples(k)!AnswerIsOwn'
    BY DEF Samples!AnswerIsOwn, Samples!ReaderHasFlag
  <1> QED
    BY <1>1, <1>2, <1>3, <1>4, <1>5, <1>6, <1>7, <1>8, <1>9

\* A tick starts observations of live processes that have none.
LEMMA SampleTick ==
  ASSUME NEW CONSTANT k \in BOOLEAN, Samples(k)!IndInv, Samples(k)!Tick
  PROVE  Samples(k)!IndInv'
  <1> USE SampleConstants DEF Samples!IndInv, Samples!TypeOK, Samples!SampleIsTrue,
                              Samples!Tick, Samples!Live, Samples!procVars,
                              Samples!readVars
  <1>1. Samples(k)!TypeOK'
    BY DEF Samples!TypeOK, Samples!ReaderHasFlag
  <1>2. Samples(k)!NoResurrectedSample'
    BY DEF Samples!NoResurrectedSample, Samples!MonitorFollows
  <1>3. Samples(k)!SampleIsOwn'
    BY DEF Samples!SampleIsOwn, Samples!AnswerIsOwn
  <1>4. Samples(k)!BaselineHasSlot'
    BY DEF Samples!BaselineHasSlot
  <1>5. Samples(k)!OneObservationPerChild'
    BY DEF Samples!OneObservationPerChild, Samples!QueuedHasFlag,
           Samples!ReaderHasFlag
  <1>6. Samples(k)!MonitorFollows'
    BY DEF Samples!MonitorFollows
  <1>7. Samples(k)!QueuedHasFlag'
    BY DEF Samples!QueuedHasFlag, Samples!ReaderHasFlag, Samples!MonitorFollows
  <1>8. Samples(k)!ReaderHasFlag'
    BY DEF Samples!ReaderHasFlag, Samples!QueuedHasFlag, Samples!MonitorFollows,
           Samples!OneObservationPerChild
  <1>9. Samples(k)!AnswerIsOwn'
    BY DEF Samples!AnswerIsOwn, Samples!ReaderHasFlag
  <1> QED
    BY <1>1, <1>2, <1>3, <1>4, <1>5, <1>6, <1>7, <1>8, <1>9

\* Shutdown aborts the coordinator.
LEMMA SampleShutdown ==
  ASSUME NEW CONSTANT k \in BOOLEAN, Samples(k)!IndInv, Samples(k)!Shutdown
  PROVE  Samples(k)!IndInv'
  <1> USE SampleConstants DEF Samples!IndInv, Samples!TypeOK, Samples!SampleIsTrue,
                              Samples!Shutdown, Samples!procVars, Samples!readVars
  <1>1. Samples(k)!TypeOK'
    BY DEF Samples!TypeOK, Samples!ReaderHasFlag
  <1>2. Samples(k)!NoResurrectedSample'
    BY DEF Samples!NoResurrectedSample, Samples!MonitorFollows
  <1>3. Samples(k)!SampleIsOwn'
    BY DEF Samples!SampleIsOwn, Samples!AnswerIsOwn
  <1>4. Samples(k)!BaselineHasSlot'
    BY DEF Samples!BaselineHasSlot
  <1>5. Samples(k)!OneObservationPerChild'
    BY DEF Samples!OneObservationPerChild, Samples!QueuedHasFlag,
           Samples!ReaderHasFlag
  <1>6. Samples(k)!MonitorFollows'
    BY DEF Samples!MonitorFollows
  <1>7. Samples(k)!QueuedHasFlag'
    BY DEF Samples!QueuedHasFlag, Samples!ReaderHasFlag, Samples!MonitorFollows
  <1>8. Samples(k)!ReaderHasFlag'
    BY DEF Samples!ReaderHasFlag, Samples!QueuedHasFlag, Samples!MonitorFollows,
           Samples!OneObservationPerChild
  <1>9. Samples(k)!AnswerIsOwn'
    BY DEF Samples!AnswerIsOwn, Samples!ReaderHasFlag
  <1> QED
    BY <1>1, <1>2, <1>3, <1>4, <1>5, <1>6, <1>7, <1>8, <1>9

\* The coordinator drops what waits, not what reads.
LEMMA SampleCoordinatorEnds ==
  ASSUME NEW CONSTANT k \in BOOLEAN, Samples(k)!IndInv, Samples(k)!CoordinatorEnds
  PROVE  Samples(k)!IndInv'
  <1> USE SampleConstants DEF Samples!IndInv, Samples!TypeOK, Samples!SampleIsTrue,
                              Samples!CoordinatorEnds, Samples!procVars,
                              Samples!readVars
  <1>1. Samples(k)!TypeOK'
    BY DEF Samples!TypeOK, Samples!ReaderHasFlag
  <1>2. Samples(k)!NoResurrectedSample'
    BY DEF Samples!NoResurrectedSample, Samples!MonitorFollows
  <1>3. Samples(k)!SampleIsOwn'
    BY DEF Samples!SampleIsOwn, Samples!AnswerIsOwn
  <1>4. Samples(k)!BaselineHasSlot'
    BY DEF Samples!BaselineHasSlot
  <1>5. Samples(k)!OneObservationPerChild'
    BY DEF Samples!OneObservationPerChild, Samples!QueuedHasFlag,
           Samples!ReaderHasFlag
  <1>6. Samples(k)!MonitorFollows'
    BY DEF Samples!MonitorFollows
  <1>7. Samples(k)!QueuedHasFlag'
    BY DEF Samples!QueuedHasFlag, Samples!ReaderHasFlag, Samples!MonitorFollows
  <1>8. Samples(k)!ReaderHasFlag'
    BY DEF Samples!ReaderHasFlag, Samples!QueuedHasFlag, Samples!MonitorFollows,
           Samples!OneObservationPerChild
  <1>9. Samples(k)!AnswerIsOwn'
    BY DEF Samples!AnswerIsOwn, Samples!ReaderHasFlag
  <1> QED
    BY <1>1, <1>2, <1>3, <1>4, <1>5, <1>6, <1>7, <1>8, <1>9

\* Every step of the sampler keeps the invariant.
LEMMA SamplesNext ==
  ASSUME NEW CONSTANT k \in BOOLEAN, Samples(k)!IndInv,
         [Samples(k)!Next]_(Samples(k)!vars)
  PROVE  Samples(k)!IndInv'
  <1>1. CASE UNCHANGED Samples(k)!vars
    BY <1>1
       DEF Samples!vars, Samples!procVars, Samples!coordVars, Samples!readVars,
           Samples!IndInv, Samples!TypeOK, Samples!SampleIsTrue,
           Samples!NoResurrectedSample, Samples!SampleIsOwn,
           Samples!BaselineHasSlot, Samples!OneObservationPerChild,
           Samples!MonitorFollows, Samples!QueuedHasFlag, Samples!ReaderHasFlag,
           Samples!AnswerIsOwn
  <1>2. ASSUME NEW p \in SampleProcs(k),
               \/ Samples(k)!Attach(p) \/ Samples(k)!Reap(p) \/ Samples(k)!Recycle(p)
               \/ Samples(k)!Wait(p) \/ Samples(k)!WaitFails(p) \/ Samples(k)!Record(p)
               \/ Samples(k)!Evict(p) \/ Samples(k)!SampleStart(p)
               \/ Samples(k)!Timeout(p) \/ Samples(k)!Aborted(p) \/ Samples(k)!Collect(p)
        PROVE  Samples(k)!IndInv'
    BY <1>2, SampleAttach, SampleReap, SampleRecycle, SampleWait, SampleWaitFails,
       SampleRecord, SampleEvict, SampleStart, SampleTimeout, SampleAborted,
       SampleCollect
  <1>3. ASSUME NEW p \in SampleProcs(k), NEW r \in SampleReaders(k),
               Samples(k)!Acquire(p, r)
        PROVE  Samples(k)!IndInv'
    BY <1>3, SampleAcquire
  <1>4. ASSUME NEW r \in SampleReaders(k),
               \/ Samples(k)!Check(r) \/ Samples(k)!Read(r) \/ Samples(k)!Insert(r)
               \/ Samples(k)!Recheck(r)
        PROVE  Samples(k)!IndInv'
    BY <1>4, SampleCheck, SampleRead, SampleInsert, SampleRecheck
  <1>5. CASE Samples(k)!Tick \/ Samples(k)!Shutdown \/ Samples(k)!CoordinatorEnds
    BY <1>5, SampleTick, SampleShutdown, SampleCoordinatorEnds
  <1> QED
    BY <1>1, <1>2, <1>3, <1>4, <1>5 DEF Samples!Next

-----------------------------------------------------------------------------
(* The parts together.  A behaviour of the several parts is one of each of   *)
(* them, so the theorems above carry over.  The Windows backend and the      *)
(* sampler run with two choices of their constants, of which JobsHold and    *)
(* SamplesHold name the one that is taken.                                   *)

\* A step of a part is a step of its component and leaves the others alone.
LEMMA PartSteps ==
  ASSUME [InfraNext]_allVars
  PROVE  /\ part' = part
         /\ [Next]_vars /\ [Groups!Next]_(Groups!vars)
         /\ [Children!Next]_(Children!vars) /\ [Cgroup!Next]_(Cgroup!vars)
         /\ part # "job_wait" => Jobs(FALSE)!Next \/ UNCHANGED jobVars
         /\ part = "job_wait" => Jobs(TRUE)!Next \/ UNCHANGED jobVars
         /\ part # "reads" => Samples(FALSE)!Next \/ UNCHANGED sampleVars
         /\ part = "reads" => Samples(TRUE)!Next \/ UNCHANGED sampleVars
  <1>1. part' = part
    BY DEF InfraNext, allVars
  <1>2. Next \/ UNCHANGED vars
    BY DEF InfraNext, allVars
  <1>3. Groups!Next \/ UNCHANGED groupVars
    BY DEF InfraNext, allVars
  <1>4. Children!Next \/ UNCHANGED childVars
    BY DEF InfraNext, allVars
  <1>5. Cgroup!Next \/ UNCHANGED cgroupVars
    BY DEF InfraNext, allVars
  <1>6. /\ part # "job_wait" => Jobs(FALSE)!Next \/ UNCHANGED jobVars
        /\ part = "job_wait" => Jobs(TRUE)!Next \/ UNCHANGED jobVars
    BY DEF InfraNext, allVars
  <1>7. /\ part # "reads" => Samples(FALSE)!Next \/ UNCHANGED sampleVars
        /\ part = "reads" => Samples(TRUE)!Next \/ UNCHANGED sampleVars
    BY DEF InfraNext, allVars
  <1>8. UNCHANGED groupVars => UNCHANGED Groups!vars
    BY DEF groupVars, Groups!vars, Groups!kernelVars, Groups!groupVars,
           Groups!workerVars, Groups!callVars
  <1>9. UNCHANGED childVars => UNCHANGED Children!vars
    BY DEF childVars, Children!vars, Children!childVars, Children!taskVars,
           Children!callVars
  <1>10. UNCHANGED cgroupVars => UNCHANGED Cgroup!vars
    BY DEF cgroupVars, Cgroup!vars, Cgroup!kernelVars, Cgroup!callVars, Cgroup!rootVars
  <1> QED
    BY <1>1, <1>2, <1>3, <1>4, <1>5, <1>6, <1>7, <1>8, <1>9, <1>10

\* A behaviour of the parts is one of the components that run once.
LEMMA InfraIsItsParts ==
  InfraSpec => Spec /\ Groups!Spec /\ Children!Spec /\ Cgroup!Spec
  <1>1. InfraInit => Init /\ Groups!Init /\ Children!Init /\ Cgroup!Init
    BY DEF InfraInit
  <1>2. [InfraNext]_allVars =>
          /\ [Next]_vars /\ [Groups!Next]_(Groups!vars)
          /\ [Children!Next]_(Children!vars) /\ [Cgroup!Next]_(Cgroup!vars)
    BY PartSteps
  <1> QED
    BY <1>1, <1>2, PTL
       DEF InfraSpec, Spec, Groups!Spec, Children!Spec, Cgroup!Spec

\* The invariant of the Windows backend with the constants of the part.
JobsHold ==
  /\ part # "job_wait" => Jobs(FALSE)!IndInv
  /\ part = "job_wait" => Jobs(TRUE)!IndInv

\* The invariant of the Windows backend, for any number of scopes, processes,
\* callers and failures, those of the undo of a failed spawn included.
THEOREM JobsInvariant == InfraSpec => []JobsHold
  <1>1. InfraInit => JobsHold
    BY JobStart DEF InfraInit, JobsHold
  <1>2. ASSUME JobsHold, [InfraNext]_allVars
        PROVE  JobsHold'
    <2>1. ASSUME NEW CONSTANT k \in BOOLEAN, Jobs(k)!IndInv,
                 Jobs(k)!Next \/ UNCHANGED jobVars
          PROVE  Jobs(k)!IndInv'
      <3>1. UNCHANGED jobVars => UNCHANGED Jobs(k)!vars
        BY DEF jobVars, Jobs!vars, Jobs!kernelVars, Jobs!stateVars, Jobs!scopeVars,
               Jobs!workVars, Jobs!callVars
      <3> QED
        BY <2>1, <3>1, JobNext
    <2> QED
      BY <1>2, <2>1, PartSteps DEF JobsHold
  <1> QED
    BY <1>1, <1>2, PTL DEF InfraSpec

\* The exit that wait answers counts as a kill exactly when the backend killed
\* the process: the flag is set before the termination and read after the exit.
THEOREM KillIsToldTruly ==
  InfraSpec =>
    [](/\ part = "jobs" =>
            /\ Jobs(FALSE)!OrderedDeathIsKill /\ Jobs(FALSE)!KillWasOrdered
            /\ Jobs(FALSE)!KillIsOurs
       /\ part = "job_wait" =>
            /\ Jobs(TRUE)!OrderedDeathIsKill /\ Jobs(TRUE)!KillWasOrdered
            /\ Jobs(TRUE)!KillIsOurs)
  <1>1. JobsHold =>
          /\ part = "jobs" =>
               /\ Jobs(FALSE)!OrderedDeathIsKill /\ Jobs(FALSE)!KillWasOrdered
               /\ Jobs(FALSE)!KillIsOurs
          /\ part = "job_wait" =>
               /\ Jobs(TRUE)!OrderedDeathIsKill /\ Jobs(TRUE)!KillWasOrdered
               /\ Jobs(TRUE)!KillIsOurs
    BY DEF JobsHold, Jobs!IndInv
  <1> QED
    BY <1>1, JobsInvariant, PTL

\* The invariant of the sampler with the constants of the part.
SamplesHold ==
  /\ part # "reads" => Samples(FALSE)!IndInv
  /\ part = "reads" => Samples(TRUE)!IndInv

\* The invariant of the sampler, for any number of processes, readers and
\* permits, although no native observation can be cancelled.
THEOREM SamplesInvariant == InfraSpec => []SamplesHold
  <1>1. InfraInit => SamplesHold
    BY SampleInit DEF InfraInit, SamplesHold
  <1>2. ASSUME SamplesHold, [InfraNext]_allVars
        PROVE  SamplesHold'
    <2>1. ASSUME NEW CONSTANT k \in BOOLEAN, Samples(k)!IndInv,
                 Samples(k)!Next \/ UNCHANGED sampleVars
          PROVE  Samples(k)!IndInv'
      <3>1. UNCHANGED sampleVars => UNCHANGED Samples(k)!vars
        BY DEF sampleVars, Samples!vars, Samples!procVars, Samples!coordVars,
               Samples!readVars
      <3> QED
        BY <2>1, <3>1, SamplesNext
    <2> QED
      BY <1>2, <2>1, PartSteps DEF SamplesHold
  <1> QED
    BY <1>1, <1>2, PTL DEF InfraSpec

\* signal_group, hard_kill_* and AnchorWait::drop never signal a process of
\* another scope or program, for any number of scopes and process numbers: the
\* number of a group is used only while the anchor that pins it is unreaped.
THEOREM NoStrangerIsSignalled == InfraSpec => []NoStrangerSignalled
  <1>1. Groups!IndInv => NoStrangerSignalled
    BY DEF Groups!IndInv, NoStrangerSignalled
  <1> QED
    BY <1>1, InfraIsItsParts, GroupsInvariant, PTL

\* cleanup_scope on every platform: when it has returned Ok, nothing of the scope
\* is alive and nothing is left of its group, cgroup or job, for any number of
\* scopes, processes and failing calls.  What a failed spawn failed to undo may
\* stay: a root on Windows that has run nothing and is in no job, after two
\* failures or more, and on Linux an empty directory.
THEOREM CleanedScopesAreDead == InfraSpec => []CleanedScopeIsDead
  <1>1. Groups!CleanedScopeIsSwept /\ Cgroup!CleanedScopeIsGone /\ JobsHold
          => CleanedScopeIsDead
    BY DEF CleanedScopeIsDead, JobsHold, Jobs!IndInv
  <1> QED
    BY <1>1, InfraIsItsParts, CleanedGroupIsSwept, CleanedCgroupIsGone,
       JobsInvariant, PTL

\* Containment on every platform: user code runs in the group, cgroup or job of
\* its scope only, no root joins a group that was killed, a root is owned until it
\* is reaped, and a hard kill ends the roots registered when it began, although
\* its write failed or the pidfd of a root could not be opened, but not both.
THEOREM ScopesAreContained == InfraSpec => ScopeIsContained
  <1>1. Groups!IndInv /\ Cgroup!IndInv /\ JobsHold
        => /\ part = "groups" => Groups!GroupsAreDisjoint /\ Groups!RootsAreOwned
           /\ part = "cgroups" =>
                Cgroup!TypeOK /\ Cgroup!RunsInGroup /\ Cgroup!DroppedIsKilled
           /\ part = "jobs" => Jobs(FALSE)!TypeOK /\ Jobs(FALSE)!RunsInJob
           /\ part = "job_wait" => Jobs(TRUE)!TypeOK /\ Jobs(TRUE)!RunsInJob
    BY DEF Groups!IndInv, Cgroup!IndInv, JobsHold, Jobs!IndInv
  <1> QED
    BY <1>1, InfraIsItsParts, GroupsInvariant, CgroupInvariant, JobsInvariant,
       KilledGroupIsClosed, HardKillFallsBack, PTL DEF ScopeIsContained

\* wait on every platform: the exit it answers is that of the process it was
\* asked about and its slot stays until it is reaped (on Unix, if its start time
\* could be read), it counts as a kill exactly when the backend killed it, and
\* once published to the waiters it is kept.
THEOREM ExitsAreTrue == InfraSpec => ExitIsTrue
  <1>1. Children!IndInv /\ JobsHold /\ Inv
        => /\ part = "children" =>
                Children!TypeOK /\ Children!ExitIsOwn /\ Children!SlotKeptUntilReaped
           /\ part = "jobs" =>
                Jobs(FALSE)!OrderedDeathIsKill /\ Jobs(FALSE)!KillWasOrdered
           /\ part = "job_wait" =>
                Jobs(TRUE)!KillIsOurs /\ Jobs(TRUE)!KillWasOrdered
           /\ part = "waiters" => TypeOK /\ HistoryExact /\ AttachedMirrorsSlot
    BY DEF Children!IndInv, JobsHold, Jobs!IndInv, Inv
  <1> QED
    BY <1>1, InfraIsItsParts, ChildrenInvariant, JobsInvariant, WaitersInvariant,
       VerifiedExitsAreKept, PTL DEF ExitIsTrue

\* wait on every platform: an error is that of an attempt made since the call
\* began, whoever else asked for retries.
THEOREM ErrorsAreFresh ==
  InfraSpec => ErrorIsFresh /\ [][part = "jobs" => Jobs(FALSE)!FreshAnswers]_jobVars
  <1>1. Children!IndInv => (part = "children" => Children!ErrorIsFresh)
    BY DEF Children!IndInv
  <1>2. JobsHold /\ [InfraNext]_allVars =>
          [part = "job_wait" => Jobs(TRUE)!FreshAnswers]_jobVars
    BY PartSteps, JobAnswersAreFresh DEF JobsHold
  <1>3. JobsHold /\ [InfraNext]_allVars =>
          [part = "jobs" => Jobs(FALSE)!FreshAnswers]_jobVars
    BY PartSteps, JobAnswersAreFresh DEF JobsHold
  <1> QED
    BY <1>1, <1>2, <1>3, InfraIsItsParts, ChildrenInvariant, JobsInvariant, PTL
       DEF InfraSpec, ErrorIsFresh

\* The cache of samples, for any number of processes, readers and permits: none
\* of a process that has ended, none of a stranger, no CPU baseline without a
\* slot, and one observation per child.
THEOREM SampledIsTrue == InfraSpec => []SampleIsTrue
  <1>1. SamplesHold => SampleIsTrue
    BY DEF SamplesHold, SampleIsTrue, Samples!IndInv
  <1> QED
    BY <1>1, SamplesInvariant, PTL
=============================================================================
