CONSTANTS
  Parts = {"waiters", "groups", "children", "cgroups", "jobs", "job_wait", "samples", "reads"}
  Pid = {k1, k2, p3}
  Receiver = {r1, r2}
  NoPid = NoPid
  HistoryBound = 2
  Scope = {s1}
  NoScope = NoScope
  Num = {k1, k2, n3}
  NoNum = NoNum
  MaxLive = 2
  MaxKin = 1
  MaxForeign = 1
  MaxFail = 1
  Child = {k1, k2}
  ChildNum = {n1}
  NoChild = NoChild
  Caller = {w1, w2}
  HostReaps = TRUE
  MaxWaitFail = 1
  MaxCalls = 2
  GroupScope = {s1, s2}
  GroupProc = {k1, k2}
  MaxGroupFail = 2
  JobScope = {s1, s2}
  JobProc = {k1, k2}
  NoProc = NoProc
  JobCaller = {}
  JobCode = {"zero", "KILLED"}
  MaxJobFail = 1
  WaitScope = {s1}
  WaitProc = {p1}
  WaitCaller = {k1, k2}
  WaitCode = {"zero", "STILL_ACTIVE"}
  MaxJobWaitFail = 3
  SampleProc = {k1, k2}
  SampleReader = {r1}
  ReadProc = {p1}
  Reader = {r1, r2}
  Permits = 2
SYMMETRY Symmetry
SPECIFICATION InfraSpec
CHECK_DEADLOCK FALSE
INVARIANTS
  NoStrandedReceiver
  NoStrangerSignalled
  CleanedScopeIsDead
  SampleIsTrue
PROPERTIES
  ExitIsTrue
  ScopeIsContained
  ErrorIsFresh
