CONSTANTS
  Stream = {"Stdout", "Stderr"}
  MaxCapacity = 3
  MaxChunk = 4
  MaxBytes = 6
  MaxEvents = 7
  QueueSize = 2
  RingSize = 2
  Sub = {u1, u2}
  Top = 15
  MaxFactor = 3
  Last = 5
  Scope = {s1, s2}
  Waiter = {w1}
  ResultBound = 1
  ReportBound = 1
  MaxOutput = 3
SPECIFICATION ComponentsSpec
CHECK_DEADLOCK FALSE
INVARIANTS
  TaskResultIsTrue
PROPERTIES
  BuffersExact
  DelayIsCappedPower
  CleanupEvidenceKept
  ObserversAreAnswered
  OutputNeverShrinks
  Settles
