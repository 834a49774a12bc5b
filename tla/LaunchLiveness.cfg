CONSTANTS
  Parts = {"kept", "served", "scoped"}
  Task = {t1, t2}
  Inst = {i1}
  NoInst = NoInst
  MaxFaults = 1
  Owner = {o1, o2}
  ScopedOwner = {o0}
  Run = {i1}
  Fp = {f1}
  ScopedFp = {f1}
  Nobody = Nobody
  MaxFailures = 0
  ScopedFailures = 1
SPECIFICATION LaunchFairSpec
PROPERTIES
  LaunchResolves
  ServiceProgresses
