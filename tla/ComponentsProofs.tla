--------------------------- MODULE ComponentsProofs ---------------------------
(***************************************************************************)
(* Theorems about the components around the supervisor, through            *)
(* MCComponents: the background task, observed scopes and with_scope, the  *)
(* outbound events, and the failures that a restart policy tolerates.      *)
(* Each part has an inductive invariant, IndInv of its module, and a lemma *)
(* for each of its actions.  Of the output buffer the counters are here:   *)
(* what folds over its chunks, like the recursive restart delay, needs     *)
(* induction over data, and stays with TLC.                                *)
(***************************************************************************)
EXTENDS MCComponents, SequenceTheorems, TLAPS

-----------------------------------------------------------------------------
(* The background task. *)

\* The command writes.
LEMMA TaskWrite ==
  ASSUME Task!IndInv, Task!Write
  PROVE  Task!IndInv'
<1> USE ComponentsAssumption DEF Task!IndInv, Task!TypeOK, Task!Write,
        Task!childVars, Task!outVars
<1>1. Task!TypeOK'
  BY DEF Task!Output, Task!Nothing, Task!Status, Task!Cause, Task!Cleanup
<1>2. Task!AttachedIsAdmitted' /\ Task!TakenIsObserved'
  BY DEF Task!AttachedIsAdmitted, Task!TakenIsObserved, Task!CleanedIsClosed,
     Task!LockFree
<1>3. Task!CleanedIsClosed' /\ Task!VerifiedCleanupIsFinal'
  BY DEF Task!CleanedIsClosed, Task!VerifiedCleanupIsFinal,
     Task!AttachedIsAdmitted, Task!LockFree
<1>4. Task!RecoveredIsObserved'
  BY DEF Task!RecoveredIsObserved, Task!AttachedIsAdmitted, Task!TakenIsObserved,
     Task!CleanedIsClosed, Task!LockFree
<1>5. Task!PublishedLast'
  BY DEF Task!PublishedLast, Task!AttachedIsAdmitted, Task!CleanedIsClosed,
     Task!LockFree
<1>6. Task!SeenWasWritten'
  BY DEF Task!SeenWasWritten, Task!Output
<1> QED BY <1>1, <1>2, <1>3, <1>4, <1>5, <1>6

\* Its pipes end.
LEMMA TaskClose ==
  ASSUME Task!IndInv, Task!Close
  PROVE  Task!IndInv'
<1> USE ComponentsAssumption DEF Task!IndInv, Task!TypeOK, Task!Close,
        Task!childVars, Task!outVars
<1>1. Task!TypeOK'
  <2>1. {ended', sealed', stop', observation', exit', failed'} \subseteq BOOLEAN
    OBVIOUS
  <2>2. {pipe', published', last'} \subseteq Task!Output
    BY DEF Task!Output
  <2>3. result' \in [process : BOOLEAN, output : Task!Output] /\ status' \in DOMAIN Task!Status
    BY DEF Task!Status
  <2>4. /\ cause' \in Task!Cause \cup {"none"} /\ cleanup' \in Task!Cleanup \cup {"none"}
        /\ worker' \in {"start", "spawnWait", "running", "cleanup", "recovering",
                      "draining", "publishing", "done"}
    BY DEF Task!Cause
  <2> QED BY <2>1, <2>2, <2>3, <2>4
<1>2. Task!AttachedIsAdmitted' /\ Task!TakenIsObserved'
  BY DEF Task!AttachedIsAdmitted, Task!TakenIsObserved, Task!CleanedIsClosed,
     Task!LockFree
<1>3. Task!CleanedIsClosed' /\ Task!VerifiedCleanupIsFinal'
  BY DEF Task!CleanedIsClosed, Task!VerifiedCleanupIsFinal,
     Task!AttachedIsAdmitted, Task!LockFree
<1>4. Task!RecoveredIsObserved'
  BY DEF Task!RecoveredIsObserved, Task!AttachedIsAdmitted, Task!TakenIsObserved,
     Task!CleanedIsClosed, Task!LockFree
<1>5. Task!PublishedLast'
  BY DEF Task!PublishedLast, Task!AttachedIsAdmitted, Task!CleanedIsClosed,
     Task!LockFree
<1>6. Task!SeenWasWritten'
  BY DEF Task!SeenWasWritten, Task!Output
<1> QED BY <1>1, <1>2, <1>3, <1>4, <1>5, <1>6

\* It exits and is reaped.
LEMMA TaskExit ==
  ASSUME Task!IndInv, Task!Exit
  PROVE  Task!IndInv'
<1> USE ComponentsAssumption DEF Task!IndInv, Task!TypeOK, Task!Exit,
        Task!childVars, Task!outVars
<1>1. Task!TypeOK'
  <2>1. {ended', sealed', stop', observation', exit', failed'} \subseteq BOOLEAN
    OBVIOUS
  <2>2. {pipe', published', last'} \subseteq Task!Output
    BY DEF Task!Output
  <2>3. result' \in [process : BOOLEAN, output : Task!Output] /\ status' \in DOMAIN Task!Status
    BY DEF Task!Status
  <2>4. /\ cause' \in Task!Cause \cup {"none"} /\ cleanup' \in Task!Cleanup \cup {"none"}
        /\ worker' \in {"start", "spawnWait", "running", "cleanup", "recovering",
                      "draining", "publishing", "done"}
    BY DEF Task!Cause
  <2> QED BY <2>1, <2>2, <2>3, <2>4
<1>2. Task!AttachedIsAdmitted' /\ Task!TakenIsObserved'
  BY DEF Task!AttachedIsAdmitted, Task!TakenIsObserved, Task!CleanedIsClosed,
     Task!LockFree
<1>3. Task!CleanedIsClosed' /\ Task!VerifiedCleanupIsFinal'
  BY DEF Task!CleanedIsClosed, Task!VerifiedCleanupIsFinal,
     Task!AttachedIsAdmitted, Task!LockFree
<1>4. Task!RecoveredIsObserved'
  BY DEF Task!RecoveredIsObserved, Task!AttachedIsAdmitted, Task!TakenIsObserved,
     Task!CleanedIsClosed, Task!LockFree
<1>5. Task!PublishedLast'
  BY DEF Task!PublishedLast, Task!AttachedIsAdmitted, Task!CleanedIsClosed,
     Task!LockFree
<1>6. Task!SeenWasWritten'
  BY DEF Task!SeenWasWritten, Task!Output
<1> QED BY <1>1, <1>2, <1>3, <1>4, <1>5, <1>6

\* Cancellation is only noted.
LEMMA TaskCancel ==
  ASSUME Task!IndInv, Task!Cancel
  PROVE  Task!IndInv'
<1> USE ComponentsAssumption DEF Task!IndInv, Task!TypeOK, Task!Cancel,
        Task!childVars, Task!outVars
<1>1. Task!TypeOK'
  BY DEF Task!Output, Task!Nothing, Task!Status, Task!Cause, Task!Cleanup
<1>2. Task!AttachedIsAdmitted' /\ Task!TakenIsObserved'
  BY DEF Task!AttachedIsAdmitted, Task!TakenIsObserved, Task!CleanedIsClosed,
     Task!LockFree
<1>3. Task!CleanedIsClosed' /\ Task!VerifiedCleanupIsFinal'
  BY DEF Task!CleanedIsClosed, Task!VerifiedCleanupIsFinal,
     Task!AttachedIsAdmitted, Task!LockFree
<1>4. Task!RecoveredIsObserved'
  BY DEF Task!RecoveredIsObserved, Task!AttachedIsAdmitted, Task!TakenIsObserved,
     Task!CleanedIsClosed, Task!LockFree
<1>5. Task!PublishedLast'
  BY DEF Task!PublishedLast, Task!AttachedIsAdmitted, Task!CleanedIsClosed,
     Task!LockFree
<1>6. Task!SeenWasWritten'
  BY DEF Task!SeenWasWritten, Task!Output
<1> QED BY <1>1, <1>2, <1>3, <1>4, <1>5, <1>6

\* An observer reads what was written, or what is frozen.
LEMMA TaskObserve ==
  ASSUME Task!IndInv, Task!Observe
  PROVE  Task!IndInv'
<1> USE ComponentsAssumption DEF Task!IndInv, Task!TypeOK, Task!Observe,
        Task!childVars, Task!outVars, Task!Read
<1>1. Task!TypeOK'
  BY DEF Task!Output, Task!Nothing, Task!Status, Task!Cause, Task!Cleanup
<1>2. Task!AttachedIsAdmitted' /\ Task!TakenIsObserved'
  BY DEF Task!AttachedIsAdmitted, Task!TakenIsObserved, Task!CleanedIsClosed,
     Task!LockFree
<1>3. Task!CleanedIsClosed' /\ Task!VerifiedCleanupIsFinal'
  BY DEF Task!CleanedIsClosed, Task!VerifiedCleanupIsFinal,
     Task!AttachedIsAdmitted, Task!LockFree
<1>4. Task!RecoveredIsObserved'
  BY DEF Task!RecoveredIsObserved, Task!AttachedIsAdmitted, Task!TakenIsObserved,
     Task!CleanedIsClosed, Task!LockFree
<1>5. Task!PublishedLast'
  BY DEF Task!PublishedLast, Task!AttachedIsAdmitted, Task!CleanedIsClosed,
     Task!LockFree
<1>6. Task!SeenWasWritten'
  BY DEF Task!SeenWasWritten, Task!Output
<1> QED BY <1>1, <1>2, <1>3, <1>4, <1>5, <1>6

\* A spawn that meets a closed scope fails.
LEMMA TaskSpawnBegin ==
  ASSUME Task!IndInv, Task!SpawnBegin
  PROVE  Task!IndInv'
<1> USE ComponentsAssumption DEF Task!IndInv, Task!TypeOK, Task!SpawnBegin,
        Task!childVars, Task!outVars
<1>1. Task!TypeOK'
  BY DEF Task!Output, Task!Nothing, Task!Status, Task!Cause, Task!Cleanup
<1>2. Task!AttachedIsAdmitted' /\ Task!TakenIsObserved'
  BY DEF Task!AttachedIsAdmitted, Task!TakenIsObserved, Task!CleanedIsClosed,
     Task!LockFree
<1>3. Task!CleanedIsClosed' /\ Task!VerifiedCleanupIsFinal'
  BY DEF Task!CleanedIsClosed, Task!VerifiedCleanupIsFinal,
     Task!AttachedIsAdmitted, Task!LockFree
<1>4. Task!RecoveredIsObserved'
  BY DEF Task!RecoveredIsObserved, Task!AttachedIsAdmitted, Task!TakenIsObserved,
     Task!CleanedIsClosed, Task!LockFree
<1>5. Task!PublishedLast'
  BY DEF Task!PublishedLast, Task!AttachedIsAdmitted, Task!CleanedIsClosed,
     Task!LockFree
<1>6. Task!SeenWasWritten'
  BY DEF Task!SeenWasWritten, Task!Output
<1> QED BY <1>1, <1>2, <1>3, <1>4, <1>5, <1>6

\* The process and its observation come together.
LEMMA TaskSpawnAttach ==
  ASSUME Task!IndInv, Task!SpawnAttach
  PROVE  Task!IndInv'
<1> USE ComponentsAssumption DEF Task!IndInv, Task!TypeOK, Task!SpawnAttach,
        Task!childVars, Task!outVars
<1>1. Task!TypeOK'
  BY DEF Task!Output, Task!Nothing, Task!Status, Task!Cause, Task!Cleanup
<1>2. Task!AttachedIsAdmitted' /\ Task!TakenIsObserved'
  BY DEF Task!AttachedIsAdmitted, Task!TakenIsObserved, Task!CleanedIsClosed,
     Task!LockFree
<1>3. Task!CleanedIsClosed' /\ Task!VerifiedCleanupIsFinal'
  BY DEF Task!CleanedIsClosed, Task!VerifiedCleanupIsFinal,
     Task!AttachedIsAdmitted, Task!LockFree
<1>4. Task!RecoveredIsObserved'
  BY DEF Task!RecoveredIsObserved, Task!AttachedIsAdmitted, Task!TakenIsObserved,
     Task!CleanedIsClosed, Task!LockFree
<1>5. Task!PublishedLast'
  BY DEF Task!PublishedLast, Task!AttachedIsAdmitted, Task!CleanedIsClosed,
     Task!LockFree
<1>6. Task!SeenWasWritten'
  BY DEF Task!SeenWasWritten, Task!Output
<1> QED BY <1>1, <1>2, <1>3, <1>4, <1>5, <1>6

\* The spawn completes.
LEMMA TaskSpawnDone ==
  ASSUME Task!IndInv, Task!SpawnDone
  PROVE  Task!IndInv'
<1> USE ComponentsAssumption DEF Task!IndInv, Task!TypeOK, Task!SpawnDone,
        Task!childVars, Task!outVars
<1>1. Task!TypeOK'
  BY DEF Task!Output, Task!Nothing, Task!Status, Task!Cause, Task!Cleanup
<1>2. Task!AttachedIsAdmitted' /\ Task!TakenIsObserved'
  BY DEF Task!AttachedIsAdmitted, Task!TakenIsObserved, Task!CleanedIsClosed,
     Task!LockFree
<1>3. Task!CleanedIsClosed' /\ Task!VerifiedCleanupIsFinal'
  BY DEF Task!CleanedIsClosed, Task!VerifiedCleanupIsFinal,
     Task!AttachedIsAdmitted, Task!LockFree
<1>4. Task!RecoveredIsObserved'
  BY DEF Task!RecoveredIsObserved, Task!AttachedIsAdmitted, Task!TakenIsObserved,
     Task!CleanedIsClosed, Task!LockFree
<1>5. Task!PublishedLast'
  BY DEF Task!PublishedLast, Task!AttachedIsAdmitted, Task!CleanedIsClosed,
     Task!LockFree
<1>6. Task!SeenWasWritten'
  BY DEF Task!SeenWasWritten, Task!Output
<1> QED BY <1>1, <1>2, <1>3, <1>4, <1>5, <1>6

\* The worker starts.
LEMMA TaskBegin ==
  ASSUME Task!IndInv, Task!Begin
  PROVE  Task!IndInv'
<1> USE ComponentsAssumption DEF Task!IndInv, Task!TypeOK, Task!Begin,
        Task!childVars, Task!outVars, Task!Stopped
<1>1. Task!TypeOK'
  BY DEF Task!Output, Task!Nothing, Task!Status, Task!Cause, Task!Cleanup
<1>2. Task!AttachedIsAdmitted' /\ Task!TakenIsObserved'
  BY DEF Task!AttachedIsAdmitted, Task!TakenIsObserved, Task!CleanedIsClosed,
     Task!LockFree
<1>3. Task!CleanedIsClosed' /\ Task!VerifiedCleanupIsFinal'
  BY DEF Task!CleanedIsClosed, Task!VerifiedCleanupIsFinal,
     Task!AttachedIsAdmitted, Task!LockFree
<1>4. Task!RecoveredIsObserved'
  BY DEF Task!RecoveredIsObserved, Task!AttachedIsAdmitted, Task!TakenIsObserved,
     Task!CleanedIsClosed, Task!LockFree
<1>5. Task!PublishedLast'
  BY DEF Task!PublishedLast, Task!AttachedIsAdmitted, Task!CleanedIsClosed,
     Task!LockFree
<1>6. Task!SeenWasWritten'
  BY DEF Task!SeenWasWritten, Task!Output
<1> QED BY <1>1, <1>2, <1>3, <1>4, <1>5, <1>6

\* Whichever way the wait for the spawn ends, the observation is not lost.
LEMMA TaskSpawnWait ==
  ASSUME Task!IndInv, Task!SpawnWait
  PROVE  Task!IndInv'
<1> USE ComponentsAssumption DEF Task!IndInv, Task!TypeOK, Task!SpawnWait,
        Task!childVars, Task!outVars, Task!Stopped, Task!attached
<1>1. Task!TypeOK'
  <2>1. {ended', sealed', stop', observation', exit', failed'} \subseteq BOOLEAN
    OBVIOUS
  <2>2. {pipe', published', last'} \subseteq Task!Output
    BY DEF Task!Output
  <2>3. result' \in [process : BOOLEAN, output : Task!Output] /\ status' \in DOMAIN Task!Status
    BY DEF Task!Status
  <2>4. /\ cause' \in Task!Cause \cup {"none"} /\ cleanup' \in Task!Cleanup \cup {"none"}
        /\ worker' \in {"start", "spawnWait", "running", "cleanup", "recovering",
                      "draining", "publishing", "done"}
    BY DEF Task!Cause
  <2> QED BY <2>1, <2>2, <2>3, <2>4
<1>2. Task!AttachedIsAdmitted' /\ Task!TakenIsObserved'
  BY DEF Task!AttachedIsAdmitted, Task!TakenIsObserved, Task!CleanedIsClosed,
     Task!LockFree
<1>3. Task!CleanedIsClosed' /\ Task!VerifiedCleanupIsFinal'
  BY DEF Task!CleanedIsClosed, Task!VerifiedCleanupIsFinal,
     Task!AttachedIsAdmitted, Task!LockFree
<1>4. Task!RecoveredIsObserved'
  BY DEF Task!RecoveredIsObserved, Task!AttachedIsAdmitted, Task!TakenIsObserved,
     Task!CleanedIsClosed, Task!LockFree
<1>5. Task!PublishedLast'
  BY DEF Task!PublishedLast, Task!AttachedIsAdmitted, Task!CleanedIsClosed,
     Task!LockFree
<1>6. Task!SeenWasWritten'
  BY DEF Task!SeenWasWritten, Task!Output
<1> QED BY <1>1, <1>2, <1>3, <1>4, <1>5, <1>6

\* The worker stops waiting for the exit.
LEMMA TaskRunning ==
  ASSUME Task!IndInv, Task!Running
  PROVE  Task!IndInv'
<1> USE ComponentsAssumption DEF Task!IndInv, Task!TypeOK, Task!Running,
        Task!childVars, Task!outVars, Task!Stopped
<1>1. Task!TypeOK'
  <2>1. {ended', sealed', stop', observation', exit', failed'} \subseteq BOOLEAN
    OBVIOUS
  <2>2. {pipe', published', last'} \subseteq Task!Output
    BY DEF Task!Output
  <2>3. result' \in [process : BOOLEAN, output : Task!Output] /\ status' \in DOMAIN Task!Status
    BY DEF Task!Status
  <2>4. /\ cause' \in Task!Cause \cup {"none"} /\ cleanup' \in Task!Cleanup \cup {"none"}
        /\ worker' \in {"start", "spawnWait", "running", "cleanup", "recovering",
                      "draining", "publishing", "done"}
    BY DEF Task!Cause
  <2> QED BY <2>1, <2>2, <2>3, <2>4
<1>2. Task!AttachedIsAdmitted' /\ Task!TakenIsObserved'
  BY DEF Task!AttachedIsAdmitted, Task!TakenIsObserved, Task!CleanedIsClosed,
     Task!LockFree
<1>3. Task!CleanedIsClosed' /\ Task!VerifiedCleanupIsFinal'
  BY DEF Task!CleanedIsClosed, Task!VerifiedCleanupIsFinal,
     Task!AttachedIsAdmitted, Task!LockFree
<1>4. Task!RecoveredIsObserved'
  BY DEF Task!RecoveredIsObserved, Task!AttachedIsAdmitted, Task!TakenIsObserved,
     Task!CleanedIsClosed, Task!LockFree
<1>5. Task!PublishedLast'
  BY DEF Task!PublishedLast, Task!AttachedIsAdmitted, Task!CleanedIsClosed,
     Task!LockFree
<1>6. Task!SeenWasWritten'
  BY DEF Task!SeenWasWritten, Task!Output
<1> QED BY <1>1, <1>2, <1>3, <1>4, <1>5, <1>6

\* A panic may take the observation with it, and is the cause then.
LEMMA TaskPanic ==
  ASSUME Task!IndInv, Task!Panic
  PROVE  Task!IndInv'
<1> USE ComponentsAssumption DEF Task!IndInv, Task!TypeOK, Task!Panic,
        Task!childVars, Task!outVars, Task!Stopped
<1>1. Task!TypeOK'
  BY DEF Task!Output, Task!Nothing, Task!Status, Task!Cause, Task!Cleanup
<1>2. Task!AttachedIsAdmitted' /\ Task!TakenIsObserved'
  BY DEF Task!AttachedIsAdmitted, Task!TakenIsObserved, Task!CleanedIsClosed,
     Task!LockFree
<1>3. Task!CleanedIsClosed' /\ Task!VerifiedCleanupIsFinal'
  BY DEF Task!CleanedIsClosed, Task!VerifiedCleanupIsFinal,
     Task!AttachedIsAdmitted, Task!LockFree
<1>4. Task!RecoveredIsObserved'
  BY DEF Task!RecoveredIsObserved, Task!AttachedIsAdmitted, Task!TakenIsObserved,
     Task!CleanedIsClosed, Task!LockFree
<1>5. Task!PublishedLast'
  BY DEF Task!PublishedLast, Task!AttachedIsAdmitted, Task!CleanedIsClosed,
     Task!LockFree
<1>6. Task!SeenWasWritten'
  BY DEF Task!SeenWasWritten, Task!Output
<1> QED BY <1>1, <1>2, <1>3, <1>4, <1>5, <1>6

\* The cleanup waits for the spawn under way and closes the scope.
LEMMA TaskClean ==
  ASSUME Task!IndInv, Task!Clean
  PROVE  Task!IndInv'
<1> USE ComponentsAssumption DEF Task!IndInv, Task!TypeOK, Task!Clean,
        Task!childVars, Task!outVars, Task!LockFree
<1>1. Task!TypeOK'
  BY DEF Task!Output, Task!Nothing, Task!Status, Task!Cause, Task!Cleanup
<1>2. Task!AttachedIsAdmitted' /\ Task!TakenIsObserved'
  BY DEF Task!AttachedIsAdmitted, Task!TakenIsObserved, Task!CleanedIsClosed,
     Task!LockFree
<1>3. Task!CleanedIsClosed' /\ Task!VerifiedCleanupIsFinal'
  BY DEF Task!CleanedIsClosed, Task!VerifiedCleanupIsFinal,
     Task!AttachedIsAdmitted, Task!LockFree
<1>4. Task!RecoveredIsObserved'
  BY DEF Task!RecoveredIsObserved, Task!AttachedIsAdmitted, Task!TakenIsObserved,
     Task!CleanedIsClosed, Task!LockFree
<1>5. Task!PublishedLast'
  BY DEF Task!PublishedLast, Task!AttachedIsAdmitted, Task!CleanedIsClosed,
     Task!LockFree
<1>6. Task!SeenWasWritten'
  BY DEF Task!SeenWasWritten, Task!Output
<1> QED BY <1>1, <1>2, <1>3, <1>4, <1>5, <1>6

\* What the spawn sent is taken now, if it was not.
LEMMA TaskRecover ==
  ASSUME Task!IndInv, Task!Recover
  PROVE  Task!IndInv'
<1> USE ComponentsAssumption DEF Task!IndInv, Task!TypeOK, Task!Recover,
        Task!childVars, Task!outVars, Task!attached
<1>1. Task!TypeOK'
  <2>1. {ended', sealed', stop', observation', exit', failed'} \subseteq BOOLEAN
    OBVIOUS
  <2>2. {pipe', published', last'} \subseteq Task!Output
    BY DEF Task!Output
  <2>3. result' \in [process : BOOLEAN, output : Task!Output] /\ status' \in DOMAIN Task!Status
    BY DEF Task!Status
  <2>4. /\ cause' \in Task!Cause \cup {"none"} /\ cleanup' \in Task!Cleanup \cup {"none"}
        /\ worker' \in {"start", "spawnWait", "running", "cleanup", "recovering",
                      "draining", "publishing", "done"}
    BY DEF Task!Cause
  <2> QED BY <2>1, <2>2, <2>3, <2>4
<1>2. Task!AttachedIsAdmitted' /\ Task!TakenIsObserved'
  BY DEF Task!AttachedIsAdmitted, Task!TakenIsObserved, Task!CleanedIsClosed,
     Task!LockFree
<1>3. Task!CleanedIsClosed' /\ Task!VerifiedCleanupIsFinal'
  BY DEF Task!CleanedIsClosed, Task!VerifiedCleanupIsFinal,
     Task!AttachedIsAdmitted, Task!LockFree
<1>4. Task!RecoveredIsObserved'
  BY DEF Task!RecoveredIsObserved, Task!AttachedIsAdmitted, Task!TakenIsObserved,
     Task!CleanedIsClosed, Task!LockFree
<1>5. Task!PublishedLast'
  BY DEF Task!PublishedLast, Task!AttachedIsAdmitted, Task!CleanedIsClosed,
     Task!LockFree
<1>6. Task!SeenWasWritten'
  BY DEF Task!SeenWasWritten, Task!Output
<1> QED BY <1>1, <1>2, <1>3, <1>4, <1>5, <1>6

\* The worker reads again.
LEMMA TaskDrain ==
  ASSUME Task!IndInv, Task!Drain
  PROVE  Task!IndInv'
<1> USE ComponentsAssumption DEF Task!IndInv, Task!TypeOK, Task!Drain,
        Task!childVars, Task!outVars, Task!Read
<1>1. Task!TypeOK'
  BY DEF Task!Output, Task!Nothing, Task!Status, Task!Cause, Task!Cleanup
<1>2. Task!AttachedIsAdmitted' /\ Task!TakenIsObserved'
  BY DEF Task!AttachedIsAdmitted, Task!TakenIsObserved, Task!CleanedIsClosed,
     Task!LockFree
<1>3. Task!CleanedIsClosed' /\ Task!VerifiedCleanupIsFinal'
  BY DEF Task!CleanedIsClosed, Task!VerifiedCleanupIsFinal,
     Task!AttachedIsAdmitted, Task!LockFree
<1>4. Task!RecoveredIsObserved'
  BY DEF Task!RecoveredIsObserved, Task!AttachedIsAdmitted, Task!TakenIsObserved,
     Task!CleanedIsClosed, Task!LockFree
<1>5. Task!PublishedLast'
  BY DEF Task!PublishedLast, Task!AttachedIsAdmitted, Task!CleanedIsClosed,
     Task!LockFree
<1>6. Task!SeenWasWritten'
  BY DEF Task!SeenWasWritten, Task!Output
<1> QED BY <1>1, <1>2, <1>3, <1>4, <1>5, <1>6

\* A panic in the end is remembered.
LEMMA TaskFinalizePanic ==
  ASSUME Task!IndInv, Task!FinalizePanic
  PROVE  Task!IndInv'
<1> USE ComponentsAssumption DEF Task!IndInv, Task!TypeOK, Task!FinalizePanic,
        Task!childVars, Task!outVars
<1>1. Task!TypeOK'
  BY DEF Task!Output, Task!Nothing, Task!Status, Task!Cause, Task!Cleanup
<1>2. Task!AttachedIsAdmitted' /\ Task!TakenIsObserved'
  BY DEF Task!AttachedIsAdmitted, Task!TakenIsObserved, Task!CleanedIsClosed,
     Task!LockFree
<1>3. Task!CleanedIsClosed' /\ Task!VerifiedCleanupIsFinal'
  BY DEF Task!CleanedIsClosed, Task!VerifiedCleanupIsFinal,
     Task!AttachedIsAdmitted, Task!LockFree
<1>4. Task!RecoveredIsObserved'
  BY DEF Task!RecoveredIsObserved, Task!AttachedIsAdmitted, Task!TakenIsObserved,
     Task!CleanedIsClosed, Task!LockFree
<1>5. Task!PublishedLast'
  BY DEF Task!PublishedLast, Task!AttachedIsAdmitted, Task!CleanedIsClosed,
     Task!LockFree
<1>6. Task!SeenWasWritten'
  BY DEF Task!SeenWasWritten, Task!Output
<1> QED BY <1>1, <1>2, <1>3, <1>4, <1>5, <1>6

\* The result is what the worker knows and what observers have seen.
LEMMA TaskPublish ==
  ASSUME Task!IndInv, Task!Publish
  PROVE  Task!IndInv'
<1> USE ComponentsAssumption DEF Task!IndInv, Task!TypeOK, Task!Publish,
        Task!childVars, Task!outVars
<1>1. Task!TypeOK'
  BY DEF Task!Output, Task!Nothing, Task!Status, Task!Cause, Task!Cleanup
<1>2. Task!AttachedIsAdmitted' /\ Task!TakenIsObserved'
  BY DEF Task!AttachedIsAdmitted, Task!TakenIsObserved, Task!CleanedIsClosed,
     Task!LockFree
<1>3. Task!CleanedIsClosed' /\ Task!VerifiedCleanupIsFinal'
  BY DEF Task!CleanedIsClosed, Task!VerifiedCleanupIsFinal,
     Task!AttachedIsAdmitted, Task!LockFree
<1>4. Task!RecoveredIsObserved'
  BY DEF Task!RecoveredIsObserved, Task!AttachedIsAdmitted, Task!TakenIsObserved,
     Task!CleanedIsClosed, Task!LockFree
<1>5. Task!PublishedLast'
  BY DEF Task!PublishedLast, Task!AttachedIsAdmitted, Task!CleanedIsClosed,
     Task!LockFree
<1>6. Task!SeenWasWritten'
  BY DEF Task!SeenWasWritten, Task!Output
<1> QED BY <1>1, <1>2, <1>3, <1>4, <1>5, <1>6

\* What nothing changes stays true.
LEMMA TaskStutter ==
  ASSUME Task!IndInv, UNCHANGED taskVars
  PROVE  Task!IndInv'
BY DEF Task!IndInv, Task!TypeOK, Task!AttachedIsAdmitted, Task!TakenIsObserved,
   Task!CleanedIsClosed, Task!RecoveredIsObserved, Task!PublishedLast,
   Task!SeenWasWritten, Task!VerifiedCleanupIsFinal, Task!LockFree, taskVars

\* A task that has only been started.
LEMMA TaskInit ==
  ASSUME Task!Init
  PROVE  Task!IndInv
<1> USE DEF Task!Init
<1>1. Task!TypeOK
  <2>1. MaxOutput \in Nat
    BY ComponentsAssumption
  <2>2. Task!Nothing \in Task!Output
    BY <2>1 DEF Task!Nothing, Task!Output
  <2>3. result \in [process : BOOLEAN, output : Task!Output]
    BY <2>2
  <2>4. status \in DOMAIN Task!Status
    BY DEF Task!Status
  <2> QED BY <2>2, <2>3, <2>4 DEF Task!TypeOK
<1>2. /\ Task!AttachedIsAdmitted /\ Task!TakenIsObserved /\ Task!CleanedIsClosed
      /\ Task!RecoveredIsObserved /\ Task!PublishedLast /\ Task!SeenWasWritten
      /\ Task!VerifiedCleanupIsFinal
  BY DEF Task!AttachedIsAdmitted, Task!TakenIsObserved, Task!CleanedIsClosed,
     Task!RecoveredIsObserved, Task!PublishedLast, Task!SeenWasWritten,
     Task!VerifiedCleanupIsFinal, Task!LockFree, Task!Nothing
<1> QED BY <1>1, <1>2 DEF Task!IndInv

\* Every step of a task, its command and its observers.
LEMMA TaskNext ==
  ASSUME Task!IndInv, Task!Next
  PROVE  Task!IndInv'
<1>1. CASE Task!Write
  BY <1>1, TaskWrite
<1>2. CASE Task!Close
  BY <1>2, TaskClose
<1>3. CASE Task!Exit
  BY <1>3, TaskExit
<1>4. CASE Task!Cancel
  BY <1>4, TaskCancel
<1>5. CASE Task!Observe
  BY <1>5, TaskObserve
<1>6. CASE Task!SpawnBegin
  BY <1>6, TaskSpawnBegin
<1>7. CASE Task!SpawnAttach
  BY <1>7, TaskSpawnAttach
<1>8. CASE Task!SpawnDone
  BY <1>8, TaskSpawnDone
<1>9. CASE Task!Begin
  BY <1>9, TaskBegin
<1>10. CASE Task!SpawnWait
  BY <1>10, TaskSpawnWait
<1>11. CASE Task!Running
  BY <1>11, TaskRunning
<1>12. CASE Task!Clean
  BY <1>12, TaskClean
<1>13. CASE Task!Recover
  BY <1>13, TaskRecover
<1>14. CASE Task!Drain
  BY <1>14, TaskDrain
<1>15. CASE Task!Publish
  BY <1>15, TaskPublish
<1>16. CASE Task!Panic
  BY <1>16, TaskPanic
<1>17. CASE Task!FinalizePanic
  BY <1>17, TaskFinalizePanic
<1> QED BY <1>1, <1>2, <1>3, <1>4, <1>5, <1>6, <1>7, <1>8, <1>9, <1>10, <1>11,
       <1>12, <1>13, <1>14, <1>15, <1>16, <1>17 DEF Task!Next, Task!SpawnStep,
       Task!WorkerStep

\* What an observer has seen was written, and the pipe only grows: each reading
\* has all that the one before it had.
LEMMA TaskOutputGrows ==
  ASSUME Task!IndInv, Task!Next
  PROVE  published'.bytes >= published.bytes
<1> USE DEF Task!IndInv, Task!TypeOK, Task!Output, Task!SeenWasWritten
<1>1. published.bytes \in Nat /\ published.bytes <= pipe.bytes /\ pipe.bytes \in Nat
  BY ComponentsAssumption
<1>2. published' \in {published, pipe}
  <2>1. CASE Task!Observe \/ Task!Drain
    BY <2>1 DEF Task!Observe, Task!Drain, Task!Read
  <2>2. CASE Task!Recover
    BY <2>2 DEF Task!Recover, Task!attached
  <2>3. CASE Task!Write \/ Task!Close \/ Task!Exit \/ Task!Cancel \/ Task!SpawnStep
    BY <2>3 DEF Task!Write, Task!Close, Task!Exit, Task!Cancel, Task!SpawnStep,
       Task!SpawnBegin, Task!SpawnAttach, Task!SpawnDone, Task!outVars
  <2>4. CASE Task!Begin \/ Task!SpawnWait \/ Task!Running \/ Task!Clean
    BY <2>4 DEF Task!Begin, Task!SpawnWait, Task!Running, Task!Clean, Task!outVars
  <2>5. CASE Task!Panic \/ Task!FinalizePanic \/ Task!Publish
    BY <2>5 DEF Task!Panic, Task!FinalizePanic, Task!Publish
  <2> QED BY <2>1, <2>2, <2>3, <2>4, <2>5 DEF Task!Next, Task!WorkerStep
<1> QED BY <1>1, <1>2

-----------------------------------------------------------------------------
(* Observed scopes and with_scope. *)

\* A history keeps its bound, and holds what it held or what was pushed.
LEMMA PushedKeeps ==
  ASSUME NEW order \in Seq(Scope), NEW s \in Scope, NEW bound \in Nat \ {0},
         Len(order) <= bound
  PROVE  /\ Observed!Pushed(order, s, bound) \in Seq(Scope)
         /\ Len(Observed!Pushed(order, s, bound)) <= bound
         /\ Observed!ToSet(Observed!Pushed(order, s, bound))
              \subseteq Observed!ToSet(order) \cup {s}
<1>1. CASE Len(order) < bound
  BY <1>1 DEF Observed!Pushed, Observed!ToSet
<1>2. CASE ~(Len(order) < bound)
  <2> DEFINE rest == Tail(order)
  <2>1. rest \in Seq(Scope) /\ Len(rest) = Len(order) - 1 /\ Len(order) = bound
    BY <1>2
  <2>2. \A i \in 1..Len(rest) : rest[i] = order[i + 1]
    BY <1>2, <2>1
  <2>3. Observed!Pushed(order, s, bound) = Append(rest, s)
    BY <1>2 DEF Observed!Pushed
  <2> HIDE DEF rest
  <2>4. /\ Append(rest, s) \in Seq(Scope) /\ Len(Append(rest, s)) = Len(order)
        /\ \A i \in 1..Len(rest) : Append(rest, s)[i] = rest[i]
        /\ Append(rest, s)[Len(order)] = s
    BY <2>1, AppendProperties
  <2>5. \A i \in 1..Len(order) :
          Append(rest, s)[i] = s \/ \E j \in 1..Len(order) : Append(rest, s)[i] = order[j]
    <3> TAKE i \in 1..Len(order)
    <3>1. CASE i = Len(order)
      BY <2>4, <3>1
    <3>2. CASE i # Len(order)
      BY <2>1, <2>2, <2>4, <3>2
    <3> QED BY <3>1, <3>2
  <2>6. Observed!ToSet(Append(rest, s)) \subseteq Observed!ToSet(order) \cup {s}
    BY <2>4, <2>5 DEF Observed!ToSet
  <2> QED BY <2>1, <2>3, <2>4, <2>6
<1> QED BY <1>1, <1>2

\* A verified termination: the report is in the channel and the processes are
\* reaped when the scope leaves the registry; only scopes that are gone leave
\* the results.
LEMMA VerifyKeeps ==
  ASSUME Observed!IndInv, NEW s \in registered, Observed!Verify(s)
  PROVE  /\ tree' = [tree EXCEPT ![s] = "reaped"]
         /\ report' = [report EXCEPT ![s] = "verified"]
         /\ tree' \in [Scope -> {"none", "live", "killed", "reaped"}]
         /\ report' \in [Scope -> Observed!Report]
         /\ closed' \subseteq Scope /\ results' \subseteq Scope
         /\ registered' = registered \ {s} /\ registered' \subseteq results'
         /\ resultOrder' \in Seq(Scope) /\ Len(resultOrder') <= ResultBound
         /\ reportOrder' \in Seq(Scope) /\ Len(reportOrder') <= ReportBound
         /\ Observed!ToSet(resultOrder') \subseteq Observed!ToSet(resultOrder) \cup {s}
         /\ Observed!ToSet(reportOrder') \subseteq Observed!ToSet(reportOrder) \cup {s}
<1> USE ComponentsAssumption DEF Observed!IndInv, Observed!TypeOK, Observed!Verify
<1>1. s \in Scope /\ s \in results
  BY DEF Observed!RegisteredHasResult
<1>2. /\ resultOrder' = Observed!Pushed(resultOrder, s, ResultBound)
      /\ reportOrder' = Observed!Pushed(reportOrder, s, ReportBound)
      /\ results' = results \ (Observed!ToSet(resultOrder) \ Observed!ToSet(resultOrder'))
  BY <1>1
<1>3. report' = [report EXCEPT ![s] = "verified"]
  BY <1>1 DEF Observed!publish_scope_cleanup_result
<1>4. registered' \subseteq results'
  BY <1>2 DEF Observed!RegisteredHasResult, Observed!HistoryIsGone
<1>5. /\ Observed!Pushed(resultOrder, s, ResultBound) \in Seq(Scope)
      /\ Len(Observed!Pushed(resultOrder, s, ResultBound)) <= ResultBound
      /\ Observed!ToSet(Observed!Pushed(resultOrder, s, ResultBound))
           \subseteq Observed!ToSet(resultOrder) \cup {s}
  BY <1>1, PushedKeeps
<1>6. /\ Observed!Pushed(reportOrder, s, ReportBound) \in Seq(Scope)
      /\ Len(Observed!Pushed(reportOrder, s, ReportBound)) <= ReportBound
      /\ Observed!ToSet(Observed!Pushed(reportOrder, s, ReportBound))
           \subseteq Observed!ToSet(reportOrder) \cup {s}
  BY <1>1, PushedKeeps
<1>7. /\ tree' \in [Scope -> {"none", "live", "killed", "reaped"}]
      /\ report' \in [Scope -> Observed!Report]
  BY <1>1, <1>3 DEF Observed!Report
<1> QED BY <1>1, <1>2, <1>3, <1>4, <1>5, <1>6, <1>7

\* A scope is published with its channel and its owner.
LEMMA ObservedWithScope ==
  ASSUME Observed!IndInv, NEW s \in Scope, Observed!WithScope(s)
  PROVE  Observed!IndInv'
<1> USE DEF Observed!IndInv, Observed!TypeOK, Observed!WithScope,
        Observed!registryVars, Observed!Goto
<1>1. Observed!TypeOK'
  BY DEF Observed!Report
<1>2. Observed!AdmittedHasOwner'
  BY DEF Observed!AdmittedHasOwner
<1>3. Observed!HistoryIsGone'
  BY DEF Observed!HistoryIsGone, Observed!AdmittedHasOwner
<1>4. Observed!RegisteredHasResult' /\ Observed!GoneIsVerified'
  BY DEF Observed!RegisteredHasResult, Observed!GoneIsVerified,
     Observed!AdmittedHasOwner
<1>5. Observed!VerifiedIsReaped'
  BY DEF Observed!VerifiedIsReaped, Observed!HistoryIsGone
<1> QED BY <1>1, <1>2, <1>3, <1>4, <1>5

\* Only a scope that admits processes gets one.
LEMMA ObservedSpawn ==
  ASSUME Observed!IndInv, NEW s \in Scope, Observed!Spawn(s)
  PROVE  Observed!IndInv'
<1> USE DEF Observed!IndInv, Observed!TypeOK, Observed!Spawn,
        Observed!registryVars
<1>1. Observed!TypeOK'
  BY DEF Observed!Report
<1>2. Observed!AdmittedHasOwner'
  BY DEF Observed!AdmittedHasOwner
<1>3. Observed!HistoryIsGone'
  BY DEF Observed!HistoryIsGone, Observed!AdmittedHasOwner
<1>4. Observed!RegisteredHasResult' /\ Observed!GoneIsVerified'
  BY DEF Observed!RegisteredHasResult, Observed!GoneIsVerified,
     Observed!AdmittedHasOwner
<1>5. Observed!VerifiedIsReaped'
  BY DEF Observed!VerifiedIsReaped, Observed!HistoryIsGone
<1> QED BY <1>1, <1>2, <1>3, <1>4, <1>5

\* The closure returns.
LEMMA ObservedBodyEnd ==
  ASSUME Observed!IndInv, NEW s \in Scope, Observed!BodyEnd(s)
  PROVE  Observed!IndInv'
<1> USE DEF Observed!IndInv, Observed!TypeOK, Observed!BodyEnd,
        Observed!registryVars
<1>1. Observed!TypeOK'
  BY DEF Observed!Report
<1>2. Observed!AdmittedHasOwner'
  BY DEF Observed!AdmittedHasOwner
<1>3. Observed!HistoryIsGone'
  BY DEF Observed!HistoryIsGone, Observed!AdmittedHasOwner
<1>4. Observed!RegisteredHasResult' /\ Observed!GoneIsVerified'
  BY DEF Observed!RegisteredHasResult, Observed!GoneIsVerified,
     Observed!AdmittedHasOwner
<1>5. Observed!VerifiedIsReaped'
  BY DEF Observed!VerifiedIsReaped, Observed!HistoryIsGone
<1> QED BY <1>1, <1>2, <1>3, <1>4, <1>5

\* The block is cancelled.
LEMMA ObservedBodyCancel ==
  ASSUME Observed!IndInv, NEW s \in Scope, Observed!BodyCancel(s)
  PROVE  Observed!IndInv'
<1> USE DEF Observed!IndInv, Observed!TypeOK, Observed!BodyCancel,
        Observed!registryVars
<1>1. Observed!TypeOK'
  BY DEF Observed!Report
<1>2. Observed!AdmittedHasOwner'
  BY DEF Observed!AdmittedHasOwner
<1>3. Observed!HistoryIsGone'
  BY DEF Observed!HistoryIsGone, Observed!AdmittedHasOwner
<1>4. Observed!RegisteredHasResult' /\ Observed!GoneIsVerified'
  BY DEF Observed!RegisteredHasResult, Observed!GoneIsVerified,
     Observed!AdmittedHasOwner
<1>5. Observed!VerifiedIsReaped'
  BY DEF Observed!VerifiedIsReaped, Observed!HistoryIsGone
<1> QED BY <1>1, <1>2, <1>3, <1>4, <1>5

\* The block returns with the report.
LEMMA ObservedBlockReturn ==
  ASSUME Observed!IndInv, NEW s \in Scope, Observed!BlockReturn(s)
  PROVE  Observed!IndInv'
<1> USE DEF Observed!IndInv, Observed!TypeOK, Observed!BlockReturn,
        Observed!registryVars
<1>1. Observed!TypeOK'
  BY DEF Observed!Report
<1>2. Observed!AdmittedHasOwner'
  BY DEF Observed!AdmittedHasOwner
<1>3. Observed!HistoryIsGone'
  BY DEF Observed!HistoryIsGone, Observed!AdmittedHasOwner
<1>4. Observed!RegisteredHasResult' /\ Observed!GoneIsVerified'
  BY DEF Observed!RegisteredHasResult, Observed!GoneIsVerified,
     Observed!AdmittedHasOwner
<1>5. Observed!VerifiedIsReaped'
  BY DEF Observed!VerifiedIsReaped, Observed!HistoryIsGone
<1> QED BY <1>1, <1>2, <1>3, <1>4, <1>5

\* Another caller's verified report is published before the scope is gone.
LEMMA ObservedOtherTerminate ==
  ASSUME Observed!IndInv, NEW s \in Scope, Observed!OtherTerminate(s)
  PROVE  Observed!IndInv'
<1>1. CASE s \in registered /\ Observed!Verify(s)
  <2>1. s \in registered /\ Observed!Verify(s)
    BY <1>1
  <2> USE <2>1, VerifyKeeps DEF Observed!IndInv, Observed!TypeOK,
          Observed!OtherTerminate
  <2>2. Observed!TypeOK'
    BY DEF Observed!Report
  <2>3. Observed!AdmittedHasOwner'
    BY DEF Observed!AdmittedHasOwner
  <2>4. Observed!HistoryIsGone'
    BY DEF Observed!HistoryIsGone
  <2>5. Observed!RegisteredHasResult'
    BY DEF Observed!RegisteredHasResult
  <2>6. Observed!GoneIsVerified'
    BY DEF Observed!GoneIsVerified
  <2>7. Observed!VerifiedIsReaped'
    BY DEF Observed!VerifiedIsReaped, Observed!GoneIsVerified,
       Observed!AdmittedHasOwner
  <2> QED BY <2>2, <2>3, <2>4, <2>5, <2>6, <2>7
<1>2. CASE Observed!Unverified(s)
  <2> USE <1>2 DEF Observed!IndInv, Observed!TypeOK, Observed!OtherTerminate,
          Observed!Unverified
  <2>1. Observed!TypeOK'
    BY DEF Observed!Report
  <2>2. Observed!AdmittedHasOwner'
    BY DEF Observed!AdmittedHasOwner
  <2>3. Observed!HistoryIsGone'
    BY DEF Observed!HistoryIsGone
  <2>4. Observed!RegisteredHasResult'
    BY DEF Observed!RegisteredHasResult
  <2>5. Observed!GoneIsVerified'
    BY DEF Observed!GoneIsVerified
  <2>6. Observed!VerifiedIsReaped'
    BY DEF Observed!VerifiedIsReaped, Observed!GoneIsVerified,
       Observed!AdmittedHasOwner
  <2> QED BY <2>1, <2>2, <2>3, <2>4, <2>5, <2>6
<1> QED BY <1>1, <1>2 DEF Observed!OtherTerminate

\* The owner takes a verified report as it is.
LEMMA ObservedFinish ==
  ASSUME Observed!IndInv, NEW s \in Scope, Observed!Finish(s)
  PROVE  Observed!IndInv'
<1> USE DEF Observed!IndInv, Observed!TypeOK, Observed!Finish,
        Observed!registryVars, Observed!Asked, Observed!Deciding, Observed!Goto
<1>1. Observed!TypeOK'
  BY DEF Observed!Report
<1>2. Observed!AdmittedHasOwner'
  BY DEF Observed!AdmittedHasOwner
<1>3. Observed!HistoryIsGone'
  BY DEF Observed!HistoryIsGone, Observed!AdmittedHasOwner
<1>4. Observed!RegisteredHasResult' /\ Observed!GoneIsVerified'
  BY DEF Observed!RegisteredHasResult, Observed!GoneIsVerified,
     Observed!AdmittedHasOwner
<1>5. Observed!VerifiedIsReaped'
  BY DEF Observed!VerifiedIsReaped, Observed!HistoryIsGone
<1> QED BY <1>1, <1>2, <1>3, <1>4, <1>5

\* A retained report is a verified one.
LEMMA ObservedLook ==
  ASSUME Observed!IndInv, NEW s \in Scope, Observed!Look(s)
  PROVE  Observed!IndInv'
<1> USE DEF Observed!IndInv, Observed!TypeOK, Observed!Look,
        Observed!registryVars, Observed!Deciding, Observed!Goto
<1>1. Observed!TypeOK'
  BY DEF Observed!Report
<1>2. Observed!AdmittedHasOwner'
  BY DEF Observed!AdmittedHasOwner
<1>3. Observed!HistoryIsGone'
  BY DEF Observed!HistoryIsGone, Observed!AdmittedHasOwner
<1>4. Observed!RegisteredHasResult' /\ Observed!GoneIsVerified'
  BY DEF Observed!RegisteredHasResult, Observed!GoneIsVerified,
     Observed!AdmittedHasOwner
<1>5. Observed!VerifiedIsReaped'
  BY DEF Observed!VerifiedIsReaped, Observed!HistoryIsGone
<1> QED BY <1>1, <1>2, <1>3, <1>4, <1>5

\* The owner's own attempt, or what it finds of another one.
LEMMA ObservedTerminate ==
  ASSUME Observed!IndInv, NEW s \in Scope, Observed!Terminate(s)
  PROVE  Observed!IndInv'
<1>1. CASE /\ pc[s] = "terminating" /\ s \in registered
           /\ Observed!Verify(s) /\ Observed!Deciding(s, "verified")
           /\ UNCHANGED <<armed, block, watch>>
  <2>1. s \in registered /\ Observed!Verify(s)
    BY <1>1
  <2> USE <1>1, <2>1, VerifyKeeps DEF Observed!IndInv, Observed!TypeOK,
          Observed!Deciding, Observed!Goto
  <2>2. Observed!TypeOK'
    <3>1. res' \in [Scope -> Observed!Report]
      BY DEF Observed!Report
    <3>2. pc' \in [Scope -> {"none", "waiting", "looking", "terminating", "deciding",
                            "settling", "done", "dropped", "panicked"}]
      OBVIOUS
    <3> QED BY <3>1, <3>2
  <2>3. Observed!AdmittedHasOwner'
    BY DEF Observed!AdmittedHasOwner
  <2>4. Observed!HistoryIsGone'
    BY DEF Observed!HistoryIsGone
  <2>5. Observed!RegisteredHasResult'
    BY DEF Observed!RegisteredHasResult
  <2>6. Observed!GoneIsVerified'
    BY DEF Observed!GoneIsVerified
  <2>7. Observed!VerifiedIsReaped'
    BY DEF Observed!VerifiedIsReaped, Observed!GoneIsVerified,
       Observed!AdmittedHasOwner
  <2> QED BY <2>2, <2>3, <2>4, <2>5, <2>6, <2>7
<1>2. CASE /\ pc[s] = "terminating" /\ Observed!Unverified(s)
           /\ \E r \in {"unverified", "error"} : Observed!Deciding(s, r)
           /\ UNCHANGED <<armed, block, watch>>
  <2> USE <1>2 DEF Observed!IndInv, Observed!TypeOK, Observed!Unverified,
          Observed!Deciding, Observed!Goto
  <2>1. Observed!TypeOK'
    BY DEF Observed!Report
  <2>2. Observed!AdmittedHasOwner'
    BY DEF Observed!AdmittedHasOwner
  <2>3. Observed!HistoryIsGone'
    BY DEF Observed!HistoryIsGone
  <2>4. Observed!RegisteredHasResult'
    BY DEF Observed!RegisteredHasResult
  <2>5. Observed!GoneIsVerified'
    BY DEF Observed!GoneIsVerified
  <2>6. Observed!VerifiedIsReaped'
    BY DEF Observed!VerifiedIsReaped, Observed!GoneIsVerified,
       Observed!AdmittedHasOwner
  <2> QED BY <2>1, <2>2, <2>3, <2>4, <2>5, <2>6
<1>3. CASE /\ pc[s] = "terminating" /\ s \notin registered
           /\ Observed!Deciding(s, "verified")
           /\ UNCHANGED <<tree, Observed!registryVars, report, armed, block, watch>>
  <2> USE <1>3 DEF Observed!IndInv, Observed!TypeOK, Observed!registryVars,
          Observed!Unverified, Observed!Deciding, Observed!Goto
  <2>1. Observed!TypeOK'
    BY DEF Observed!Report
  <2>2. Observed!AdmittedHasOwner'
    BY DEF Observed!AdmittedHasOwner
  <2>3. Observed!HistoryIsGone'
    BY DEF Observed!HistoryIsGone
  <2>4. Observed!RegisteredHasResult'
    BY DEF Observed!RegisteredHasResult
  <2>5. Observed!GoneIsVerified'
    BY DEF Observed!GoneIsVerified
  <2>6. Observed!VerifiedIsReaped'
    BY DEF Observed!VerifiedIsReaped, Observed!GoneIsVerified,
       Observed!AdmittedHasOwner
  <2> QED BY <2>1, <2>2, <2>3, <2>4, <2>5, <2>6
<1> QED BY <1>1, <1>2, <1>3 DEF Observed!Terminate

\* The channel is looked at again.
LEMMA ObservedDecide ==
  ASSUME Observed!IndInv, NEW s \in Scope, Observed!Decide(s)
  PROVE  Observed!IndInv'
<1> USE DEF Observed!IndInv, Observed!TypeOK, Observed!Decide,
        Observed!registryVars, Observed!Goto
<1>1. Observed!TypeOK'
  BY DEF Observed!Report
<1>2. Observed!AdmittedHasOwner'
  BY DEF Observed!AdmittedHasOwner
<1>3. Observed!HistoryIsGone'
  BY DEF Observed!HistoryIsGone, Observed!AdmittedHasOwner
<1>4. Observed!RegisteredHasResult' /\ Observed!GoneIsVerified'
  BY DEF Observed!RegisteredHasResult, Observed!GoneIsVerified,
     Observed!AdmittedHasOwner
<1>5. Observed!VerifiedIsReaped'
  BY DEF Observed!VerifiedIsReaped, Observed!HistoryIsGone
<1> QED BY <1>1, <1>2, <1>3, <1>4, <1>5

\* The owner publishes and disarms.
LEMMA ObservedSettle ==
  ASSUME Observed!IndInv, NEW s \in Scope, Observed!Settle(s)
  PROVE  Observed!IndInv'
<1> USE DEF Observed!IndInv, Observed!TypeOK, Observed!Settle,
        Observed!registryVars, Observed!Goto, Observed!hard_kill_scope,
        Observed!publish_scope_cleanup_result
<1>1. Observed!TypeOK'
  BY DEF Observed!Report
<1>2. Observed!AdmittedHasOwner'
  BY DEF Observed!AdmittedHasOwner
<1>3. Observed!HistoryIsGone'
  BY DEF Observed!HistoryIsGone, Observed!AdmittedHasOwner
<1>4. Observed!RegisteredHasResult' /\ Observed!GoneIsVerified'
  BY DEF Observed!RegisteredHasResult, Observed!GoneIsVerified,
     Observed!AdmittedHasOwner
<1>5. Observed!VerifiedIsReaped'
  BY DEF Observed!VerifiedIsReaped, Observed!HistoryIsGone
<1> QED BY <1>1, <1>2, <1>3, <1>4, <1>5

\* A failed join does not replace a verified report.
LEMMA ObservedJoinFailed ==
  ASSUME Observed!IndInv, NEW s \in Scope, Observed!JoinFailed(s)
  PROVE  Observed!IndInv'
<1> USE DEF Observed!IndInv, Observed!TypeOK, Observed!JoinFailed,
        Observed!registryVars, Observed!Goto,
        Observed!publish_scope_cleanup_result
<1>1. Observed!TypeOK'
  BY DEF Observed!Report
<1>2. Observed!AdmittedHasOwner'
  BY DEF Observed!AdmittedHasOwner
<1>3. Observed!HistoryIsGone'
  BY DEF Observed!HistoryIsGone, Observed!AdmittedHasOwner
<1>4. Observed!RegisteredHasResult' /\ Observed!GoneIsVerified'
  BY DEF Observed!RegisteredHasResult, Observed!GoneIsVerified,
     Observed!AdmittedHasOwner
<1>5. Observed!VerifiedIsReaped'
  BY DEF Observed!VerifiedIsReaped, Observed!HistoryIsGone
<1> QED BY <1>1, <1>2, <1>3, <1>4, <1>5

\* Nor does an interrupted cleanup.
LEMMA ObservedInterrupt ==
  ASSUME Observed!IndInv, NEW s \in Scope, Observed!Interrupt(s)
  PROVE  Observed!IndInv'
<1> USE DEF Observed!IndInv, Observed!TypeOK, Observed!Interrupt,
        Observed!registryVars, Observed!Goto, Observed!hard_kill_scope,
        Observed!publish_scope_cleanup_result
<1>1. Observed!TypeOK'
  BY DEF Observed!Report
<1>2. Observed!AdmittedHasOwner'
  BY DEF Observed!AdmittedHasOwner
<1>3. Observed!HistoryIsGone'
  BY DEF Observed!HistoryIsGone, Observed!AdmittedHasOwner
<1>4. Observed!RegisteredHasResult' /\ Observed!GoneIsVerified'
  BY DEF Observed!RegisteredHasResult, Observed!GoneIsVerified,
     Observed!AdmittedHasOwner
<1>5. Observed!VerifiedIsReaped'
  BY DEF Observed!VerifiedIsReaped, Observed!HistoryIsGone
<1> QED BY <1>1, <1>2, <1>3, <1>4, <1>5

\* A waiter subscribes.
LEMMA ObservedSubscribe ==
  ASSUME Observed!IndInv, NEW w \in Waiter, NEW s \in Scope, Observed!Subscribe(w, s)
  PROVE  Observed!IndInv'
<1> USE DEF Observed!IndInv, Observed!TypeOK, Observed!Subscribe,
        Observed!registryVars
<1>1. Observed!TypeOK'
  BY DEF Observed!Report
<1>2. Observed!AdmittedHasOwner'
  BY DEF Observed!AdmittedHasOwner
<1>3. Observed!HistoryIsGone'
  BY DEF Observed!HistoryIsGone, Observed!AdmittedHasOwner
<1>4. Observed!RegisteredHasResult' /\ Observed!GoneIsVerified'
  BY DEF Observed!RegisteredHasResult, Observed!GoneIsVerified,
     Observed!AdmittedHasOwner
<1>5. Observed!VerifiedIsReaped'
  BY DEF Observed!VerifiedIsReaped, Observed!HistoryIsGone
<1> QED BY <1>1, <1>2, <1>3, <1>4, <1>5

\* A waiter is answered.
LEMMA ObservedObserve ==
  ASSUME Observed!IndInv, NEW w \in Waiter, Observed!Observe(w)
  PROVE  Observed!IndInv'
<1> USE DEF Observed!IndInv, Observed!TypeOK, Observed!Observe,
        Observed!registryVars
<1>1. Observed!TypeOK'
  BY DEF Observed!Report
<1>2. Observed!AdmittedHasOwner'
  BY DEF Observed!AdmittedHasOwner
<1>3. Observed!HistoryIsGone'
  BY DEF Observed!HistoryIsGone, Observed!AdmittedHasOwner
<1>4. Observed!RegisteredHasResult' /\ Observed!GoneIsVerified'
  BY DEF Observed!RegisteredHasResult, Observed!GoneIsVerified,
     Observed!AdmittedHasOwner
<1>5. Observed!VerifiedIsReaped'
  BY DEF Observed!VerifiedIsReaped, Observed!HistoryIsGone
<1> QED BY <1>1, <1>2, <1>3, <1>4, <1>5

\* What nothing changes stays true.
LEMMA ObservedStutter ==
  ASSUME Observed!IndInv, UNCHANGED observedVars
  PROVE  Observed!IndInv'
BY DEF Observed!IndInv, Observed!TypeOK, Observed!AdmittedHasOwner,
   Observed!HistoryIsGone, Observed!RegisteredHasResult, Observed!GoneIsVerified,
   Observed!VerifiedIsReaped, observedVars

\* No scope was admitted yet.
LEMMA ObservedInit ==
  ASSUME Observed!Init
  PROVE  Observed!IndInv
<1> USE ComponentsAssumption DEF Observed!Init
<1>1. Observed!TypeOK
  BY DEF Observed!TypeOK, Observed!Report
<1>2. Observed!AdmittedHasOwner /\ Observed!HistoryIsGone
  BY DEF Observed!AdmittedHasOwner, Observed!HistoryIsGone, Observed!ToSet
<1>3. Observed!RegisteredHasResult /\ Observed!GoneIsVerified /\ Observed!VerifiedIsReaped
  BY DEF Observed!RegisteredHasResult, Observed!GoneIsVerified,
     Observed!VerifiedIsReaped
<1> QED BY <1>1, <1>2, <1>3 DEF Observed!IndInv

\* Every step of the scopes and of those who wait for them.
LEMMA ObservedNext ==
  ASSUME Observed!IndInv, Observed!Next
  PROVE  Observed!IndInv'
<1>1. ASSUME NEW s \in Scope,
             \/ Observed!WithScope(s) \/ Observed!Spawn(s) \/ Observed!BodyEnd(s)
             \/ Observed!BodyCancel(s) \/ Observed!BlockReturn(s)
             \/ Observed!OtherTerminate(s) \/ Observed!CleanupStep(s)
             \/ Observed!Interrupt(s)
      PROVE  Observed!IndInv'
  <2>1. CASE Observed!WithScope(s)
    BY <2>1, ObservedWithScope
  <2>2. CASE Observed!Spawn(s)
    BY <2>2, ObservedSpawn
  <2>3. CASE Observed!BodyEnd(s)
    BY <2>3, ObservedBodyEnd
  <2>4. CASE Observed!BodyCancel(s)
    BY <2>4, ObservedBodyCancel
  <2>5. CASE Observed!BlockReturn(s)
    BY <2>5, ObservedBlockReturn
  <2>6. CASE Observed!OtherTerminate(s)
    BY <2>6, ObservedOtherTerminate
  <2>7. CASE Observed!Finish(s)
    BY <2>7, ObservedFinish
  <2>8. CASE Observed!Look(s)
    BY <2>8, ObservedLook
  <2>9. CASE Observed!Terminate(s)
    BY <2>9, ObservedTerminate
  <2>10. CASE Observed!Decide(s)
    BY <2>10, ObservedDecide
  <2>11. CASE Observed!Settle(s)
    BY <2>11, ObservedSettle
  <2>12. CASE Observed!JoinFailed(s)
    BY <2>12, ObservedJoinFailed
  <2>13. CASE Observed!Interrupt(s)
    BY <2>13, ObservedInterrupt
  <2> QED BY <1>1, <2>1, <2>2, <2>3, <2>4, <2>5, <2>6, <2>7, <2>8, <2>9, <2>10,
         <2>11, <2>12, <2>13 DEF Observed!CleanupStep
<1>2. ASSUME NEW w \in Waiter, Observed!Observe(w)
      PROVE  Observed!IndInv'
  BY <1>2, ObservedObserve
<1>3. ASSUME NEW w \in Waiter, NEW s \in Scope, Observed!Subscribe(w, s)
      PROVE  Observed!IndInv'
  BY <1>3, ObservedSubscribe
<1> QED BY <1>1, <1>2, <1>3 DEF Observed!Next

\* What a step may never do to the evidence of a cleanup.
LEMMA ObservedEvidence ==
  ASSUME Observed!IndInv, Observed!Next
  PROVE  /\ \A s \in Scope : report[s] = "verified" => report'[s] = "verified"
         /\ \A s \in armed \ armed' : tree'[s] # "live"
         /\ \A s \in Scope \ registered :
              pc[s] = "deciding" /\ pc'[s] = "settling" => res'[s] = "verified"
<1> DEFINE Kept == \A s \in Scope : report[s] = "verified" => report'[s] = "verified"
           Left == \A s \in armed \ armed' : tree'[s] # "live"
           Told == \A s \in Scope \ registered :
                     pc[s] = "deciding" /\ pc'[s] = "settling" => res'[s] = "verified"
<1> USE DEF Observed!IndInv, Observed!TypeOK, Observed!registryVars, Observed!Goto
<1>1. ASSUME NEW s \in Scope, \/ Observed!WithScope(s) \/ Observed!Spawn(s)
                               \/ Observed!BodyEnd(s) \/ Observed!BodyCancel(s)
                               \/ Observed!BlockReturn(s)
      PROVE  Kept /\ Left /\ Told
  BY <1>1 DEF Observed!WithScope, Observed!Spawn, Observed!BodyEnd,
     Observed!BodyCancel, Observed!BlockReturn
<1>2. ASSUME NEW s \in Scope, Observed!OtherTerminate(s)
      PROVE  Kept /\ Left /\ Told
  <2>1. armed' = armed /\ pc' = pc
    BY <1>2 DEF Observed!OtherTerminate
  <2>2. Kept
    BY <1>2 DEF Observed!OtherTerminate, Observed!Verify, Observed!Unverified,
       Observed!publish_scope_cleanup_result
  <2> QED BY <2>1, <2>2
<1>3. ASSUME NEW s \in Scope, Observed!Finish(s) \/ Observed!Look(s)
      PROVE  Kept /\ Left /\ Told
  BY <1>3 DEF Observed!Finish, Observed!Look, Observed!Deciding
<1>4. ASSUME NEW s \in Scope, Observed!Terminate(s)
      PROVE  Kept /\ Left /\ Told
  <2>1. armed' = armed
    BY <1>4 DEF Observed!Terminate
  <2>2. Kept
    BY <1>4 DEF Observed!Terminate, Observed!Verify, Observed!Unverified,
       Observed!publish_scope_cleanup_result
  <2>3. Told
    BY <1>4 DEF Observed!Terminate, Observed!Deciding
  <2> QED BY <2>1, <2>2, <2>3
<1>5. ASSUME NEW s \in Scope, Observed!Decide(s)
      PROVE  Kept /\ Left /\ Told
  BY <1>5 DEF Observed!Decide, Observed!GoneIsVerified
<1>6. ASSUME NEW s \in Scope, Observed!Settle(s)
      PROVE  Kept /\ Left /\ Told
  BY <1>6 DEF Observed!Settle, Observed!hard_kill_scope,
     Observed!publish_scope_cleanup_result, Observed!VerifiedIsReaped
<1>7. ASSUME NEW s \in Scope, Observed!Interrupt(s)
      PROVE  Kept /\ Left /\ Told
  BY <1>7 DEF Observed!Interrupt, Observed!hard_kill_scope,
     Observed!publish_scope_cleanup_result, Observed!VerifiedIsReaped
<1>8. ASSUME NEW s \in Scope, Observed!JoinFailed(s)
      PROVE  Kept /\ Left /\ Told
  BY <1>8 DEF Observed!JoinFailed, Observed!publish_scope_cleanup_result
<1>9. ASSUME NEW w \in Waiter,
             Observed!Observe(w) \/ \E s \in Scope : Observed!Subscribe(w, s)
      PROVE  Kept /\ Left /\ Told
  BY <1>9 DEF Observed!Observe, Observed!Subscribe
<1> HIDE DEF Kept, Left, Told
<1>10. Kept /\ Left /\ Told
  BY <1>1, <1>2, <1>3, <1>4, <1>5, <1>6, <1>7, <1>8, <1>9
     DEF Observed!Next, Observed!CleanupStep
<1> QED BY <1>10 DEF Kept, Left, Told

-----------------------------------------------------------------------------
(* The outbound events. *)

\* Adding what is larger than all of an ascending sequence leaves it ascending;
\* the elements are those it had, and the new one.
LEMMA AppendAscends ==
  ASSUME NEW q \in Seq(Nat), NEW e \in Nat, Events!Ascending(q),
         \A i \in 1..Len(q) : q[i] < e
  PROVE  /\ Append(q, e) \in Seq(Nat) /\ Events!Ascending(Append(q, e))
         /\ Events!ToSet(Append(q, e)) = Events!ToSet(q) \cup {e}
         /\ \A i \in 1..Len(Append(q, e)) : Append(q, e)[i] \in Events!ToSet(q) \cup {e}
<1>1. /\ Append(q, e) \in Seq(Nat) /\ Len(Append(q, e)) = Len(q) + 1
      /\ \A i \in 1..Len(q) : Append(q, e)[i] = q[i]
      /\ Append(q, e)[Len(q) + 1] = e
  BY AppendProperties
<1>2. Events!Ascending(Append(q, e))
  BY <1>1 DEF Events!Ascending
<1>3. Events!ToSet(Append(q, e)) = Events!ToSet(q) \cup {e}
  BY <1>1 DEF Events!ToSet
<1> QED BY <1>1, <1>2, <1>3 DEF Events!ToSet

\* What is left of an ascending sequence ascends from above its head, and its
\* elements are those it had but the head.
LEMMA TailAscends ==
  ASSUME NEW q \in Seq(Nat), q # <<>>, Events!Ascending(q)
  PROVE  /\ Tail(q) \in Seq(Nat) /\ Head(q) \in Nat /\ Events!Ascending(Tail(q))
         /\ Events!ToSet(q) = Events!ToSet(Tail(q)) \cup {Head(q)}
         /\ \A i \in 1..Len(Tail(q)) : Head(q) < Tail(q)[i]
         /\ Len(q) >= 1 /\ Head(q) = q[1]
         /\ \A i \in 1..Len(Tail(q)) : i + 1 \in 1..Len(q) /\ Tail(q)[i] = q[i + 1]
<1>1. /\ Tail(q) \in Seq(Nat) /\ Len(Tail(q)) = Len(q) - 1 /\ Len(q) >= 1
      /\ Head(q) = q[1] /\ Head(q) \in Nat
      /\ \A i \in 1..Len(Tail(q)) : i + 1 \in 1..Len(q) /\ Tail(q)[i] = q[i + 1]
  BY HeadTailProperties, EmptySeq
<1>2. Events!Ascending(Tail(q)) /\ \A i \in 1..Len(Tail(q)) : Head(q) < Tail(q)[i]
  BY <1>1 DEF Events!Ascending
<1>3. \A j \in 2..Len(q) : j - 1 \in 1..Len(Tail(q)) /\ Tail(q)[j - 1] = q[j]
  BY <1>1
<1> DEFINE rest == Tail(q)
<1>4. rest \in Seq(Nat) /\ Len(rest) >= 0 /\ DOMAIN rest = 1..Len(rest) /\ DOMAIN q = 1..Len(q)
  BY <1>1
<1>5. \A j \in 2..Len(q) : j - 1 \in 1..Len(rest) /\ rest[j - 1] = q[j]
  BY <1>3
<1>6. \A i \in 1..Len(rest) : i + 1 \in 1..Len(q) /\ rest[i] = q[i + 1]
  BY <1>1
<1> HIDE DEF rest
<1>7. ASSUME NEW j \in 1..Len(q) PROVE q[j] \in Events!ToSet(rest) \cup {Head(q)}
  <2>1. CASE j = 1
    BY <1>1, <2>1
  <2>2. CASE j # 1
    <3>1. j \in 2..Len(q)
      BY <1>1, <2>2
    <3> QED BY <1>4, <1>5, <3>1 DEF Events!ToSet
  <2> QED BY <2>1, <2>2
<1>8. Events!ToSet(q) \subseteq Events!ToSet(rest) \cup {Head(q)}
  BY <1>4, <1>7 DEF Events!ToSet
<1>9. Events!ToSet(rest) \subseteq Events!ToSet(q)
  BY <1>4, <1>6 DEF Events!ToSet
<1>10. Head(q) \in Events!ToSet(q)
  <2>1. Head(q) = q[1] /\ 1 \in DOMAIN q
    BY <1>1, <1>4
  <2> QED BY <2>1 DEF Events!ToSet
<1>11. Events!ToSet(q) = Events!ToSet(Tail(q)) \cup {Head(q)}
  BY <1>8, <1>9, <1>10 DEF rest
<1> QED BY <1>1, <1>2, <1>11

\* Whatever is under way was dispatched, so the next event is larger than all.
LEMMA EventsMembers ==
  ASSUME Events!IndInv
  PROVE  /\ \A i \in 1..Len(events) : events[i] \in Nat /\ events[i] <= dispatched
         /\ \A j \in 1..Len(ring) : ring[j] \in Nat /\ ring[j] <= dispatched
         /\ drain = "publishing" => current <= dispatched
         /\ \A e \in Events!ToSet(events) \cup Events!ToSet(ring) \cup lost : e <= dispatched
<1> USE DEF Events!IndInv, Events!TypeOK
<1>1. /\ Events!ToSet(events) \subseteq 1..dispatched
      /\ Events!ToSet(ring) \subseteq 1..dispatched
      /\ lost \subseteq 1..dispatched
      /\ drain = "publishing" => current \in 1..dispatched
  BY DEF Events!EventsAccounted
<1>2. \A i \in 1..Len(events) : events[i] \in Events!ToSet(events)
  BY DEF Events!ToSet
<1>3. \A j \in 1..Len(ring) : ring[j] \in Events!ToSet(ring)
  BY DEF Events!ToSet
<1>4. \A e \in 1..dispatched : e \in Nat /\ e <= dispatched
  OBVIOUS
<1>5. /\ \A i \in 1..Len(events) : events[i] \in 1..dispatched
      /\ \A j \in 1..Len(ring) : ring[j] \in 1..dispatched
      /\ Events!ToSet(events) \cup Events!ToSet(ring) \cup lost \subseteq 1..dispatched
  BY <1>1, <1>2, <1>3
<1> HIDE DEF Events!IndInv
<1> QED BY <1>1, <1>4, <1>5

\* A dispatched event that is not terminal is ignored; a terminal one joins the
\* queue's end or the lost ones.
LEMMA EventsHandle ==
  ASSUME Events!IndInv, Events!Handle
  PROVE  Events!IndInv'
<1> DEFINE e == dispatched + 1
           Terminal == (1..MaxEvents) \ {3}
<1> USE DEF Events!IndInv, Events!TypeOK
<1>1. /\ dispatched' = e /\ e \in Nat /\ dispatched < MaxEvents
      /\ UNCHANGED <<current, ring, cursor, joined, got>>
  BY DEF Events!Handle
<1>2. /\ \A i \in 1..Len(events) : events[i] < e
      /\ \A j \in 1..Len(ring) : ring[j] < e
      /\ drain = "publishing" => current < e
      /\ e \notin Events!ToSet(events) \cup Events!ToSet(ring) \cup lost
  BY <1>1, EventsMembers
<1>3. Events!GotWhatPassed' /\ Events!DeliveredInOrder'
  BY <1>1 DEF Events!GotWhatPassed, Events!DeliveredInOrder
<1>4. CASE e \notin Terminal
  <2>1. UNCHANGED <<receiver, drain, events, lost>>
    BY <1>4 DEF Events!Handle
  <2>2. Events!TypeOK' /\ Events!StartedOnce' /\ Events!InOneOrder'
    BY <1>1, <2>1 DEF Events!StartedOnce, Events!InOneOrder, Events!Ascending
  <2>3. Terminal \cap (1..e) = Terminal \cap (1..dispatched)
    BY <1>1, <1>4
  <2>4. Events!EventsAccounted'
    BY <1>1, <2>1, <2>3 DEF Events!EventsAccounted
  <2> QED BY <1>3, <2>2, <2>4
<1>5. CASE e \in Terminal
  <2>1. /\ receiver' = FALSE /\ drain' = IF receiver THEN "idle" ELSE drain
        /\ IF Len(events) < QueueSize
           THEN events' = Append(events, e) /\ UNCHANGED lost
           ELSE lost' = lost \cup {e} /\ UNCHANGED events
    BY <1>5 DEF Events!Handle
  <2>2. Events!StartedOnce' /\ (drain' = "publishing" <=> drain = "publishing")
    BY <2>1 DEF Events!StartedOnce
  <2>3. Terminal \cap (1..e) = (Terminal \cap (1..dispatched)) \cup {e}
    BY <1>1, <1>5
  <2>4. CASE Len(events) < QueueSize
    <3>1. events' = Append(events, e) /\ UNCHANGED lost
      BY <2>1, <2>4
    <3>2. /\ events' \in Seq(Nat) /\ Events!Ascending(events)'
          /\ Events!ToSet(events)' = Events!ToSet(events) \cup {e}
      BY <1>1, <1>2, <3>1, AppendAscends DEF Events!InOneOrder, Events!Ascending
    <3>3. /\ Len(events') = Len(events) + 1 /\ events'[Len(events) + 1] = e
          /\ \A i \in 1..Len(events) : events'[i] = events[i]
      BY <1>1, <3>1, AppendProperties
    <3>4. Events!TypeOK'
      BY <1>1, <2>1, <3>1, <3>2
    <3>5. Events!InOneOrder'
      <4>1. \A i \in 1..Len(events') : i = Len(events) + 1 \/ i \in 1..Len(events)
        BY <3>3
      <4>2. \A i \in 1..Len(events'), j \in 1..Len(ring) : ring[j] < events'[i]
        BY <1>2, <3>3, <4>1 DEF Events!InOneOrder
      <4>3. drain = "publishing" => \A i \in 1..Len(events') : current < events'[i]
        BY <1>2, <3>3, <4>1 DEF Events!InOneOrder
      <4>4. Events!Ascending(ring') /\ ring' = ring /\ current' = current
        BY <1>1 DEF Events!InOneOrder
      <4> QED BY <2>2, <3>2, <4>2, <4>3, <4>4 DEF Events!InOneOrder, Events!Ascending
    <3>6. Events!EventsAccounted'
      BY <1>1, <1>2, <2>2, <2>3, <3>1, <3>2 DEF Events!EventsAccounted
    <3> QED BY <1>3, <2>2, <3>4, <3>5, <3>6
  <2>5. CASE ~(Len(events) < QueueSize)
    <3>1. lost' = lost \cup {e} /\ UNCHANGED events
      BY <2>1, <2>5
    <3>2. Events!TypeOK'
      BY <1>1, <2>1, <3>1
    <3>3. Events!InOneOrder'
      BY <1>1, <2>2, <3>1 DEF Events!InOneOrder, Events!Ascending
    <3>4. Events!EventsAccounted'
      BY <1>1, <1>2, <2>2, <2>3, <3>1 DEF Events!EventsAccounted
    <3> QED BY <1>3, <2>2, <3>2, <3>3, <3>4
  <2> QED BY <2>4, <2>5
<1> QED BY <1>4, <1>5

\* The drain task takes the oldest event of the queue.
LEMMA EventsTake ==
  ASSUME Events!IndInv, Events!Take
  PROVE  Events!IndInv'
<1> USE DEF Events!IndInv, Events!TypeOK
<1>1. /\ drain = "idle" /\ events # <<>> /\ drain' = "publishing"
      /\ current' = Head(events) /\ events' = Tail(events)
      /\ UNCHANGED <<dispatched, receiver, ring, cursor, joined, got, lost>>
  BY DEF Events!Take
<1>2. Events!Ascending(events)
  BY DEF Events!InOneOrder
<1>3. /\ events' \in Seq(Nat) /\ current' \in Nat /\ Events!Ascending(events')
      /\ Events!ToSet(events) = Events!ToSet(events') \cup {current'}
      /\ \A i \in 1..Len(events') : current' < events'[i]
      /\ Len(events) >= 1 /\ current' = events[1]
      /\ \A i \in 1..Len(events') : i + 1 \in 1..Len(events) /\ events'[i] = events[i + 1]
  BY <1>1, <1>2, TailAscends
<1>4. Events!TypeOK' /\ Events!StartedOnce'
  BY <1>1, <1>3 DEF Events!StartedOnce
<1>5. Events!InOneOrder'
  BY <1>1, <1>3 DEF Events!InOneOrder, Events!Ascending
<1>6. current' \notin Events!ToSet(events')
  <2>1. \A i \in 1..Len(events') : events'[i] \in Nat /\ events'[i] # current'
    BY <1>3
  <2>2. DOMAIN events' = 1..Len(events')
    BY <1>3
  <2> QED BY <2>1, <2>2 DEF Events!ToSet
<1>7. Events!EventsAccounted'
  <2>1. Events!ToSet(events)' = Events!ToSet(events') /\ Events!ToSet(ring)' = Events!ToSet(ring)
    BY <1>1 DEF Events!ToSet
  <2> QED BY <1>1, <1>3, <1>6, <2>1 DEF Events!EventsAccounted
<1>8. Events!GotWhatPassed' /\ Events!DeliveredInOrder'
  BY <1>1 DEF Events!GotWhatPassed, Events!DeliveredInOrder
<1> QED BY <1>4, <1>5, <1>7, <1>8

\* The event that is dropped, for want of receivers or of time, is counted.
LEMMA EventsDropped ==
  ASSUME Events!IndInv, drain = "publishing", drain' = "idle", current' = 0,
         lost' = lost \cup {current},
         UNCHANGED <<dispatched, events, receiver, ring, cursor, joined, got>>
  PROVE  Events!IndInv'
<1> USE DEF Events!IndInv, Events!TypeOK
<1>1. Events!TypeOK' /\ Events!StartedOnce'
  BY DEF Events!StartedOnce
<1>2. Events!InOneOrder'
  BY DEF Events!InOneOrder, Events!Ascending
<1>3. Events!EventsAccounted'
  BY DEF Events!EventsAccounted
<1>4. Events!GotWhatPassed' /\ Events!DeliveredInOrder'
  BY DEF Events!GotWhatPassed, Events!DeliveredInOrder
<1> QED BY <1>1, <1>2, <1>3, <1>4

\* A published event is the newest of the ring.
LEMMA EventsPublish ==
  ASSUME Events!IndInv, Events!Publish
  PROVE  Events!IndInv'
<1>1. CASE joined = {}
  BY <1>1, EventsDropped DEF Events!Publish
<1>2. CASE joined # {}
  <2> USE DEF Events!IndInv, Events!TypeOK
  <2>1. /\ drain = "publishing" /\ drain' = "idle" /\ current' = 0
        /\ ring' = Append(ring, current)
        /\ UNCHANGED <<dispatched, events, receiver, cursor, joined, got, lost>>
    BY <1>2 DEF Events!Publish
  <2>2. Events!Ascending(ring) /\ \A j \in 1..Len(ring) : ring[j] < current
    BY <2>1 DEF Events!InOneOrder
  <2>3. /\ ring' \in Seq(Nat) /\ Events!Ascending(ring')
        /\ Events!ToSet(ring') = Events!ToSet(ring) \cup {current}
    BY <2>1, <2>2, AppendAscends
  <2>4. /\ Len(ring') = Len(ring) + 1 /\ ring'[Len(ring) + 1] = current
        /\ \A j \in 1..Len(ring) : ring'[j] = ring[j]
    BY <2>1, AppendProperties
  <2>5. Events!TypeOK' /\ Events!StartedOnce'
    BY <2>1, <2>3 DEF Events!StartedOnce
  <2>6. Events!InOneOrder'
    BY <2>1, <2>3, <2>4 DEF Events!InOneOrder, Events!Ascending
  <2>7. Events!EventsAccounted'
    BY <2>1, <2>3 DEF Events!EventsAccounted
  <2>8. Events!GotWhatPassed' /\ Events!DeliveredInOrder'
    BY <2>1, <2>4 DEF Events!GotWhatPassed, Events!DeliveredInOrder
  <2> QED BY <2>5, <2>6, <2>7, <2>8
<1> QED BY <1>1, <1>2

\* A subscriber starts at the end of the ring.
LEMMA EventsSubscribe ==
  ASSUME Events!IndInv, NEW u \in Sub, Events!Subscribe(u)
  PROVE  Events!IndInv'
<1> USE DEF Events!IndInv, Events!TypeOK, Events!Subscribe
<1>1. Events!TypeOK' /\ Events!StartedOnce'
  BY DEF Events!StartedOnce
<1>2. Events!InOneOrder'
  BY DEF Events!InOneOrder, Events!Ascending
<1>3. Events!EventsAccounted'
  BY DEF Events!EventsAccounted
<1>4. Events!GotWhatPassed' /\ Events!DeliveredInOrder'
  BY DEF Events!GotWhatPassed, Events!DeliveredInOrder
<1> QED BY <1>1, <1>2, <1>3, <1>4

\* What a subscriber receives is newer than all it has passed.
LEMMA EventsReceive ==
  ASSUME Events!IndInv, NEW u \in Sub, Events!Receive(u)
  PROVE  Events!IndInv'
<1> DEFINE next == Events!Position(u) + 1
<1> USE DEF Events!IndInv, Events!TypeOK
<1>1. /\ u \in joined /\ cursor[u] < Len(ring) /\ cursor[u] \in Nat
      /\ got' = [got EXCEPT ![u] = Append(@, ring[next])]
      /\ cursor' = [cursor EXCEPT ![u] = next]
      /\ UNCHANGED <<dispatched, events, drain, current, receiver, ring, joined, lost>>
  BY DEF Events!Receive
<1>2. next \in 1..Len(ring) /\ cursor[u] < next
  <2>1. RingSize \in Nat \ {0} /\ Len(ring) \in Nat
    BY ComponentsAssumption
  <2> HIDE DEF Events!IndInv
  <2> QED BY <1>1, <2>1 DEF Events!Position
<1> HIDE DEF next
<1>3. ring[next] \in Nat
  BY <1>2
<1>4. /\ got'[u] \in Seq(Nat) /\ Len(got'[u]) = Len(got[u]) + 1
      /\ got'[u][Len(got[u]) + 1] = ring[next]
      /\ \A i \in 1..Len(got[u]) : got'[u][i] = got[u][i]
  <2>1. got'[u] = Append(got[u], ring[next]) /\ got[u] \in Seq(Nat)
    BY <1>1
  <2> QED BY <1>3, <2>1, AppendProperties
<1>5. \A v \in Sub \ {u} : got'[v] = got[v] /\ cursor'[v] = cursor[v]
  BY <1>1
<1>6. Events!TypeOK'
  <2>1. got' \in [Sub -> Seq(Nat)]
    BY <1>1, <1>3
  <2>2. cursor' \in [Sub -> Nat]
    BY <1>1, <1>2
  <2> QED BY <1>1, <2>1, <2>2
<1>7. Events!StartedOnce' /\ Events!InOneOrder' /\ Events!EventsAccounted'
  BY <1>1 DEF Events!StartedOnce, Events!InOneOrder, Events!Ascending,
     Events!EventsAccounted
<1>8. cursor'[u] = next
  BY <1>1
<1>9. Events!GotWhatPassed'
  <2>1. ASSUME NEW v \in Sub
        PROVE  /\ cursor'[v] <= Len(ring)
               /\ \A i \in 1..Len(got'[v]) : \E j \in 1..cursor'[v] : got'[v][i] = ring[j]
    <3>1. CASE v # u
      <4>1. got'[v] = got[v] /\ cursor'[v] = cursor[v]
        BY <1>5, <3>1
      <4>2. /\ cursor[v] <= Len(ring)
            /\ \A i \in 1..Len(got[v]) : \E j \in 1..cursor[v] : got[v][i] = ring[j]
        BY DEF Events!GotWhatPassed
      <4> HIDE DEF Events!IndInv
      <4> QED BY <4>1, <4>2
    <3>2. CASE v = u
      <4>1. \A i \in 1..Len(got[u]) : \E j \in 1..next : got[u][i] = ring[j]
        BY <1>1, <1>2 DEF Events!GotWhatPassed
      <4>2. ASSUME NEW i \in 1..Len(got'[u])
            PROVE  \E j \in 1..next : got'[u][i] = ring[j]
        <5>1. Len(got[u]) \in Nat
          BY <1>1
        <5>2. CASE i = Len(got[u]) + 1
          BY <1>2, <1>4, <5>2
        <5>3. CASE i # Len(got[u]) + 1
          <6>1. i \in 1..Len(got[u])
            BY <1>4, <5>1, <5>3
          <6> QED BY <1>4, <4>1, <6>1
        <5> QED BY <5>2, <5>3
      <4> QED BY <1>2, <1>8, <3>2, <4>2
    <3> QED BY <3>1, <3>2
  <2>2. ring' = ring
    BY <1>1
  <2> QED BY <2>1, <2>2 DEF Events!GotWhatPassed
<1>10. Events!DeliveredInOrder'
  <2>1. ASSUME NEW i \in 1..Len(got[u])
        PROVE  got[u][i] < ring[next]
    <3>1. PICK j \in 1..cursor[u] : got[u][i] = ring[j]
      BY DEF Events!GotWhatPassed
    <3>2. j \in 1..Len(ring) /\ j < next
      BY <1>1, <1>2
    <3>3. ring[j] < ring[next]
      BY <1>2, <3>2 DEF Events!InOneOrder, Events!Ascending
    <3> QED BY <3>1, <3>3
  <2>2. ASSUME NEW v \in Sub, NEW i \in 1..Len(got'[v]), NEW j \in 1..Len(got'[v]), i < j
        PROVE  got'[v][i] < got'[v][j]
    <3>1. CASE v # u
      BY <1>5, <2>2, <3>1 DEF Events!DeliveredInOrder
    <3>2. CASE v = u
      <4>1. Len(got[u]) \in Nat /\ i \in 1..Len(got[u])
        BY <1>1, <1>4, <2>2, <3>2
      <4>2. CASE j = Len(got[u]) + 1
        BY <1>4, <2>1, <3>2, <4>1, <4>2
      <4>3. CASE j # Len(got[u]) + 1
        <5>1. j \in 1..Len(got[u])
          BY <1>4, <2>2, <3>2, <4>1, <4>3
        <5> QED BY <1>4, <2>2, <3>2, <4>1, <5>1 DEF Events!DeliveredInOrder
      <4> QED BY <4>2, <4>3
    <3> QED BY <3>1, <3>2
  <2> QED BY <2>2 DEF Events!DeliveredInOrder
<1> QED BY <1>6, <1>7, <1>9, <1>10

\* What nothing changes stays true.
LEMMA EventsStutter ==
  ASSUME Events!IndInv, UNCHANGED eventVars
  PROVE  Events!IndInv'
BY DEF Events!IndInv, Events!TypeOK, Events!StartedOnce, Events!InOneOrder,
   Events!Ascending, Events!GotWhatPassed, Events!EventsAccounted,
   Events!DeliveredInOrder, eventVars

\* Every step of the event path.
LEMMA EventsNext ==
  ASSUME Events!IndInv, Events!Next
  PROVE  Events!IndInv'
<1>1. CASE Events!Handle
  BY <1>1, EventsHandle
<1>2. CASE Events!Take
  BY <1>2, EventsTake
<1>3. CASE Events!Publish
  BY <1>3, EventsPublish
<1>4. CASE Events!Timeout
  BY <1>4, EventsDropped DEF Events!Timeout
<1>5. ASSUME NEW u \in Sub, Events!Subscribe(u) \/ Events!Receive(u)
      PROVE  Events!IndInv'
  BY <1>5, EventsSubscribe, EventsReceive
<1> QED BY <1>1, <1>2, <1>3, <1>4, <1>5 DEF Events!Next

\* Nothing was dispatched yet.
LEMMA EventsInit ==
  ASSUME Events!Init
  PROVE  Events!IndInv
<1> USE DEF Events!Init
<1>1. Events!TypeOK /\ Events!StartedOnce
  BY DEF Events!TypeOK, Events!StartedOnce
<1>2. Events!InOneOrder /\ Events!GotWhatPassed /\ Events!DeliveredInOrder
  BY DEF Events!InOneOrder, Events!Ascending, Events!GotWhatPassed,
     Events!DeliveredInOrder
<1>3. Events!EventsAccounted
  BY DEF Events!EventsAccounted, Events!ToSet
<1> QED BY <1>1, <1>2, <1>3 DEF Events!IndInv

-----------------------------------------------------------------------------
(* The parts together: the one that runs keeps its invariant. *)

\* Each part has its inductive invariant while it is the one that runs.
ComponentsHold ==
  /\ part = "task" => Task!IndInv
  /\ part = "observed" => Observed!IndInv
  /\ part = "events" => Events!IndInv

\* A step is one of the part that runs, or of none.
LEMMA ComponentsHoldInductive ==
  ASSUME ComponentsHold, [ComponentsNext]_allVars
  PROVE  ComponentsHold'
<1>1. part' = part
  BY DEF ComponentsNext, allVars
<1>2. CASE part = "task"
  <2>1. Task!Next \/ UNCHANGED taskVars
    BY <1>2 DEF ComponentsNext, allVars
  <2> QED BY <1>1, <1>2, <2>1, TaskNext, TaskStutter DEF ComponentsHold
<1>3. CASE part = "observed"
  <2>1. Observed!Next \/ UNCHANGED observedVars
    BY <1>3 DEF ComponentsNext, allVars
  <2> QED BY <1>1, <1>3, <2>1, ObservedNext, ObservedStutter DEF ComponentsHold
<1>4. CASE part = "events"
  <2>1. Events!Next \/ UNCHANGED eventVars
    BY <1>4 DEF ComponentsNext, allVars
  <2> QED BY <1>1, <1>4, <2>1, EventsNext, EventsStutter DEF ComponentsHold
<1> QED BY <1>1, <1>2, <1>3, <1>4 DEF ComponentsHold

\* The running part of the components keeps its inductive invariant: the
\* background task's, the observed scopes' and the event path's.
THEOREM ComponentsInvariant == ComponentsSpec => []ComponentsHold
<1>1. ComponentsInit => ComponentsHold
  BY TaskInit, ObservedInit, EventsInit DEF ComponentsInit, ComponentsHold
<1>2. ComponentsHold /\ [ComponentsNext]_allVars => ComponentsHold'
  BY ComponentsHoldInductive
<1> QED BY <1>1, <1>2, PTL DEF ComponentsSpec

\* A background task's result names its process though cancellation or the timeout
\* won before the spawn completed, a verified cleanup is the end of every spawn,
\* and the output that later readers see is that of the result.
THEOREM TaskResultStaysTrue == ComponentsSpec => []TaskResultIsTrue
<1>1. ComponentsHold => TaskResultIsTrue
  <2> SUFFICES ASSUME Task!IndInv
               PROVE  /\ Task!TypeOK /\ Task!ResultNamesProcess
                      /\ Task!VerifiedCleanupIsFinal /\ Task!FinishedOutputIsFrozen
    BY DEF ComponentsHold, TaskResultIsTrue
  <2>1. Task!ResultNamesProcess
    BY DEF Task!IndInv, Task!TypeOK, Task!ResultNamesProcess, Task!PublishedLast,
       Task!RecoveredIsObserved
  <2>2. Task!FinishedOutputIsFrozen
    BY DEF Task!IndInv, Task!FinishedOutputIsFrozen, Task!PublishedLast
  <2> QED BY <2>1, <2>2 DEF Task!IndInv
<1> QED BY <1>1, ComponentsInvariant, PTL

\* No observer of a background task is shown less output than an earlier one saw.
THEOREM ObservedOutputOnlyGrows == ComponentsSpec => OutputNeverShrinks
<1>1. ComponentsHold /\ [ComponentsNext]_allVars
        => [published'.bytes >= published.bytes]_(Task!vars)
  <2> SUFFICES ASSUME ComponentsHold, [ComponentsNext]_allVars
               PROVE  published'.bytes >= published.bytes \/ UNCHANGED Task!vars
    OBVIOUS
  <2>1. CASE part = "task"
    <3>1. Task!Next \/ UNCHANGED taskVars
      BY <2>1 DEF ComponentsNext, allVars
    <3>2. UNCHANGED taskVars => UNCHANGED Task!vars
      BY DEF taskVars, Task!vars
    <3> QED BY <2>1, <3>1, <3>2, TaskOutputGrows DEF ComponentsHold
  <2>2. CASE part # "task"
    BY <2>2 DEF ComponentsNext, allVars, taskVars, Task!vars
  <2> QED BY <2>1, <2>2
<1> QED BY <1>1, ComponentsInvariant, PTL
        DEF ComponentsSpec, OutputNeverShrinks, Task!OutputNeverShrinks

\* The evidence of an observed scope's cleanup: a verified report is final, an owner
\* gives up its backstop only when nothing of the scope runs, and it is given the
\* report that another terminator published and the history has forgotten.
THEOREM CleanupEvidenceIsFinal == ComponentsSpec => CleanupEvidenceKept
<1> DEFINE Kept == \A s \in Scope : report[s] = "verified" => report'[s] = "verified"
           Left == \A s \in armed \ armed' : tree'[s] # "live"
           Told == \A s \in Scope \ registered :
                     pc[s] = "deciding" /\ pc'[s] = "settling" => res'[s] = "verified"
<1>1. ComponentsHold => (part = "observed" => Observed!TypeOK)
  BY DEF ComponentsHold, Observed!IndInv
<1>2. ComponentsHold /\ [ComponentsNext]_allVars
        => [Kept /\ Left /\ Told]_(Observed!vars)
  <2> SUFFICES ASSUME ComponentsHold, [ComponentsNext]_allVars
               PROVE  (Kept /\ Left /\ Told) \/ UNCHANGED Observed!vars
    OBVIOUS
  <2>1. CASE part = "observed"
    <3>1. Observed!Next \/ UNCHANGED observedVars
      BY <2>1 DEF ComponentsNext, allVars
    <3>2. UNCHANGED observedVars => UNCHANGED Observed!vars
      BY DEF observedVars, Observed!vars
    <3>3. Observed!Next => Kept /\ Left /\ Told
      BY <2>1, ObservedEvidence DEF ComponentsHold
    <3> HIDE DEF Kept, Left, Told
    <3> QED BY <3>1, <3>2, <3>3
  <2>2. CASE part # "observed"
    BY <2>2 DEF ComponentsNext, allVars, observedVars, Observed!vars
  <2> QED BY <2>1, <2>2
<1>3. /\ [Kept /\ Left /\ Told]_(Observed!vars) => [Kept]_(Observed!vars)
      /\ [Kept /\ Left /\ Told]_(Observed!vars) => [Left]_(Observed!vars)
      /\ [Kept /\ Left /\ Told]_(Observed!vars) => [Told]_(Observed!vars)
  OBVIOUS
<1> QED BY <1>1, <1>2, <1>3, ComponentsInvariant, PTL
        DEF ComponentsSpec, CleanupEvidenceKept, Observed!VerifiedReportIsFinal,
            Observed!BackstopLeavesNothing, Observed!OwnerGetsVerifiedReport

\* The outbound events: every terminal event is queued, being published, published
\* or counted as dropped, in one of these places only; and every subscriber sees
\* events in the order of their dispatch and none twice, for every size of the
\* queue and the ring and any number of events and subscribers.
THEOREM EventsStayAccounted ==
  ComponentsSpec =>
    [](part = "events" => Events!EventsAccounted /\ Events!DeliveredInOrder)
<1>1. ComponentsHold =>
        (part = "events" => Events!EventsAccounted /\ Events!DeliveredInOrder)
  BY DEF ComponentsHold, Events!IndInv
<1> QED BY <1>1, ComponentsInvariant, PTL

\* The restart policy: a service backs off only within max_failures, fails exactly
\* at the failure after them, and never without a limit.
THEOREM FailuresAreTolerated ==
  ComponentsSpec => [](part = "policy" => Policy!ToleratesLimit)
<1> DEFINE Inv ==
      part = "policy" =>
        /\ failures \in Nat
        /\ \A m \in tolerated : m \in Nat
        /\ reason = "running" => \A m \in tolerated : failures <= m
        /\ Policy!ToleratesLimit
<1>1. ComponentsInit => Inv
  BY DEF ComponentsInit, Policy!Init, Policy!ToleratesLimit
<1>2. Inv /\ [ComponentsNext]_allVars => Inv'
  <2> SUFFICES ASSUME Inv, [ComponentsNext]_allVars, part = "policy"
               PROVE  Inv'
    BY DEF ComponentsNext, allVars
  <2>1. part' = part /\ (Policy!Next \/ UNCHANGED policyVars)
    BY DEF ComponentsNext, allVars
  <2>2. CASE Policy!Next
    BY <2>1, <2>2 DEF Policy!Next, Policy!Fail, Policy!Restart, Policy!Healthy,
       Policy!policy, Policy!gives_up, Policy!ToleratesLimit
  <2>3. CASE UNCHANGED policyVars
    BY <2>1, <2>3 DEF policyVars, Policy!ToleratesLimit
  <2> QED BY <2>1, <2>2, <2>3
<1>3. Inv => (part = "policy" => Policy!ToleratesLimit)
  OBVIOUS
<1> QED BY <1>1, <1>2, <1>3, PTL DEF ComponentsSpec

\* The counters of the output buffers stay within their capacities, which may be
\* zero, whatever the size of a chunk; and the reader of a stream that is reported
\* closed has ended, so it pushes nothing more.
THEOREM CaptureIsBounded ==
  ComponentsSpec =>
    [](part = "capture" =>
         /\ bytes <= capacity /\ tailBytes <= tailCapacity
         /\ \A s \in shut : reader[s] = "ended")
<1> DEFINE Inv ==
      part = "capture" =>
        /\ {capacity, tailCapacity, bytes, tailBytes} \subseteq Nat
        /\ bytes <= capacity /\ tailBytes <= tailCapacity
        /\ shut \subseteq Stream /\ DOMAIN reader = Stream
        /\ \A s \in shut : reader[s] = "ended"
<1>1. ComponentsInit => Inv
  <2> SUFFICES ASSUME ComponentsInit PROVE Inv
    OBVIOUS
  <2>1. capacity \in Nat /\ tailCapacity \in Nat
    BY ComponentsAssumption DEF ComponentsInit, Capture!Init
  <2>2. bytes = 0 /\ tailBytes = 0 /\ shut = {} /\ reader = [s \in Stream |-> "open"]
    BY DEF ComponentsInit, Capture!Init
  <2> QED BY <2>1, <2>2
<1>2. ASSUME NEW size \in Nat, NEW cap \in Nat, NEW n \in Nat, size <= cap
      PROVE  /\ Capture!AppendedSize(size, cap, n) \in Nat
             /\ Capture!AppendedSize(size, cap, n) <= cap
  BY <1>2 DEF Capture!AppendedSize, Capture!Need, Capture!Retain, Capture!Monus,
     Capture!Least
<1>3. Inv /\ [ComponentsNext]_allVars => Inv'
  <2> SUFFICES ASSUME Inv, [ComponentsNext]_allVars, part = "capture"
               PROVE  Inv'
    BY DEF ComponentsNext, allVars
  <2>1. part' = part /\ (Capture!Next \/ UNCHANGED captureVars)
    BY DEF ComponentsNext, allVars
  <2>2. ASSUME NEW s \in Stream, Capture!Drain(s)
        PROVE  Inv'
    <3>1. PICK n \in 1..MaxChunk : Capture!push(s, n)
      BY <2>2 DEF Capture!Drain
    <3>2. n \in Nat
      BY ComponentsAssumption
    <3>3. /\ bytes' = Capture!AppendedSize(bytes, capacity, n)
          /\ tailBytes' = Capture!AppendedSize(tailBytes, tailCapacity, n)
          /\ UNCHANGED <<capacity, tailCapacity, shut, reader>>
      BY <2>2, <3>1 DEF Capture!Drain, Capture!push
    <3>4. /\ bytes' \in Nat /\ bytes' <= capacity
          /\ tailBytes' \in Nat /\ tailBytes' <= tailCapacity
      BY <1>2, <3>2, <3>3
    <3> QED BY <2>1, <3>3, <3>4
  <2>3. ASSUME NEW s \in Stream,
               Capture!DrainEnd(s) \/ Capture!Abort(s) \/ Capture!Close(s)
        PROVE  Inv'
    BY <2>1, <2>3 DEF Capture!DrainEnd, Capture!Abort, Capture!Close, Capture!buffer
  <2>4. CASE Capture!Read \/ Capture!RootExits
    BY <2>1, <2>4 DEF Capture!Read, Capture!RootExits, Capture!buffer
  <2>5. CASE UNCHANGED captureVars
    BY <2>1, <2>5 DEF captureVars
  <2> QED BY <2>1, <2>2, <2>3, <2>4, <2>5 DEF Capture!Next
<1>4. Inv => (part = "capture" =>
                /\ bytes <= capacity /\ tailBytes <= tailCapacity
                /\ \A s \in shut : reader[s] = "ended")
  OBVIOUS
<1> QED BY <1>1, <1>3, <1>4, PTL DEF ComponentsSpec
===============================================================================
