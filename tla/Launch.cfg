CONSTANTS
  Parts = {"kept", "served", "scoped"}
  Task = {t1, t2}
  Inst = {i1, i2}
  NoInst = NoInst
  MaxFaults = 2
  Owner = {o1, o2}
  ScopedOwner = {o0}
  Run = {i1, i2}
  Fp = {f1, f2}
  ScopedFp = {f0}
  Nobody = Nobody
  MaxFailures = 1
  ScopedFailures = 1
SPECIFICATION LaunchSpec
SYMMETRY Symmetry
INVARIANTS
  LateWorkIsSafe
  LiveHasRecord
  FailedStartLeavesNothing
  VerifiedEndIsClean
  ServedRunsAreKept
  ScopedRunsAreSupervised
PROPERTIES
  AdoptNoneMeansGone
  KeepsOneRun
  ServiceKeepsOneRun
