---------------------------- MODULE MCComponents ----------------------------
(***************************************************************************)
(* The components around the supervisor for TLC: the output buffer, the    *)
(* integration queue, the restart delay, observed scopes and background    *)
(* tasks.  In these models they share nothing, so a behaviour is one of    *)
(* one of them, its part; the others keep their initial state.             *)
(***************************************************************************)
EXTENDS Naturals, Sequences

CONSTANTS
  Stream, MaxCapacity, MaxChunk, MaxBytes,
  MaxEvents, QueueSize, RingSize, Sub,
  Top, MaxFactor, Last,
  Scope, Waiter, ResultBound, ReportBound,
  MaxOutput

ASSUME ComponentsAssumption ==
  /\ {MaxCapacity, MaxBytes, MaxEvents, MaxFactor, Last, MaxOutput} \subseteq Nat
  /\ {MaxChunk, QueueSize, RingSize, Top, ResultBound, ReportBound}
       \subseteq Nat \ {0}

VARIABLES
  part,
  capacity, tailCapacity, pushed, queue, bytes, tail, tailBytes, dropped,
  shut, reader, root, delivered, drained, omitted, retained,
  dispatched, events, drain, current, receiver, ring, cursor, joined, got, lost,
  initial, max, factor, tolerated, failures, reason,
  tree, registered, closed, results, resultOrder, reportOrder, report, armed,
  pc, res, block, watch,
  proc, ended, pipe, sealed, spawn, admission, stop, worker, cause, observation,
  exit, cleanup, source, published, last, failed, status, result

captureVars ==
  <<capacity, tailCapacity, pushed, queue, bytes, tail, tailBytes, dropped,
    shut, reader, root, delivered, drained, omitted, retained>>
eventVars ==
  <<dispatched, events, drain, current, receiver, ring, cursor, joined, got, lost>>
policyVars == <<initial, max, factor, tolerated, failures, reason>>
observedVars ==
  <<tree, registered, closed, results, resultOrder, reportOrder, report, armed,
    pc, res, block, watch>>
taskVars ==
  <<proc, ended, pipe, sealed, spawn, admission, stop, worker, cause, observation,
    exit, cleanup, source, published, last, failed, status, result>>
allVars ==
  <<part, captureVars, eventVars, policyVars, observedVars, taskVars>>

Capture == INSTANCE OutputCapture WITH closed <- shut

\* Events 1..MaxEvents, the third of which is not terminal.
Events == INSTANCE IntegrationEvents
            WITH queue <- events, Terminal <- (1..MaxEvents) \ {3}

Policy == INSTANCE RestartPolicy

Observed == INSTANCE ObservedScope

Task == INSTANCE BackgroundTask
          WITH closed <- sealed, pc <- worker, current <- published,
               MaxBytes <- MaxOutput

ComponentsInit ==
  /\ part \in {"capture", "events", "policy", "observed", "task"}
  /\ Capture!Init
  /\ part # "capture" => capacity = 0 /\ tailCapacity = 0
  /\ Events!Init
  /\ Policy!Init
  /\ part # "policy" => initial = 0 /\ max = 0 /\ factor = 1 /\ tolerated = {}
  /\ Observed!Init
  /\ Task!Init

ComponentsNext ==
  /\ \/ /\ part = "capture" /\ Capture!Next
        /\ UNCHANGED <<eventVars, policyVars, observedVars, taskVars>>
     \/ /\ part = "events" /\ Events!Next
        /\ UNCHANGED <<captureVars, policyVars, observedVars, taskVars>>
     \/ /\ part = "policy" /\ Policy!Next
        /\ UNCHANGED <<captureVars, eventVars, observedVars, taskVars>>
     \/ /\ part = "observed" /\ Observed!Next
        /\ UNCHANGED <<captureVars, eventVars, policyVars, taskVars>>
     \/ /\ part = "task" /\ Task!Next
        /\ UNCHANGED <<captureVars, eventVars, policyVars, observedVars>>
  /\ UNCHANGED part

\* The fairness of each part, while it is the part that runs.
ComponentsFairness ==
  /\ \A s \in Stream :
       WF_captureVars(part = "capture" /\ (Capture!Abort(s) \/ Capture!Close(s)))
  /\ WF_eventVars(part = "events" /\ Events!Handle)
  /\ \A s \in Scope :
       /\ WF_observedVars(part = "observed" /\ Observed!CleanupStep(s))
       /\ WF_observedVars(part = "observed" /\ Observed!BlockReturn(s))
  /\ \A w \in Waiter : WF_observedVars(part = "observed" /\ Observed!Observe(w))
  /\ WF_taskVars(part = "task" /\ Task!SpawnStep)
  /\ WF_taskVars(part = "task" /\ Task!WorkerStep)
  /\ SF_taskVars(part = "task" /\ Task!Drain /\ worker' = "publishing")

ComponentsSpec ==
  ComponentsInit /\ [][ComponentsNext]_allVars /\ ComponentsFairness

-----------------------------------------------------------------------------
(* Properties of the parts. *)

\* The bounded buffers, of output and of events, lose the oldest or the newest
\* entries as they say and count what they lose; what is left is in order and
\* complete, and so is a stream that is reported closed.
BuffersExact ==
  /\ [](part = "capture" => Capture!BytesAccounted /\ Capture!NewestKept)
  /\ [](part = "events" => Events!EventsAccounted /\ Events!DeliveredInOrder)
  /\ Capture!OmittedExact
  /\ Capture!ClosedIsComplete

\* RestartPolicy: the delay is the capped exponential, saturated or not, it never
\* shrinks while failures go on, and exactly max_failures are tolerated.
DelayIsCappedPower ==
  /\ [](part = "policy" => Policy!DelayIsCappedPower /\ Policy!ToleratesLimit)
  /\ Policy!DelayNeverShrinks

\* The published cleanup of an observed scope: a verified report is never
\* replaced, the owner is given the one that another terminator published, and
\* a cleanup that is dropped leaves no process running.
CleanupEvidenceKept ==
  /\ [](part = "observed" => Observed!TypeOK)
  /\ Observed!VerifiedReportIsFinal
  /\ Observed!BackstopLeavesNothing
  /\ Observed!OwnerGetsVerifiedReport

\* with_scope, and everyone who waits for its report, is answered.
ObserversAreAnswered == part = "observed" => Observed!ObserversAreAnswered

\* The result of a background task names its process, a verified cleanup comes
\* after every spawn of the task, and the output is that of the result.
TaskResultIsTrue ==
  part = "task" =>
    /\ Task!TypeOK
    /\ Task!ResultNamesProcess
    /\ Task!VerifiedCleanupIsFinal
    /\ Task!FinishedOutputIsFrozen

\* Output that an observer of a task has seen is not taken back.
OutputNeverShrinks == Task!OutputNeverShrinks

\* Nothing holds its caller up: a task settles whatever panics, both streams
\* close after the reap though a descendant keeps the pipes, and a full queue
\* with a hanging publisher does not stop the dispatcher.
Settles ==
  /\ part = "task" => Task!Settles
  /\ part = "capture" => Capture!StreamsClose
  /\ part = "events" => Events!NeverHeldUp
=============================================================================
