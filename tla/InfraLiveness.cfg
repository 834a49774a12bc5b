CONSTANTS
  Parts = {"groups", "children", "cgroups", "jobs", "samples"}
  Pid = {p1}
  Receiver = {r1}
  NoPid = NoPid
  HistoryBound = 1
  Scope = {s1}
  NoScope = NoScope
  Num = {n1, n2}
  NoNum = NoNum
  MaxLive = 1
  MaxKin = 1
  MaxForeign = 1
  MaxFail = 1
  Child = {c1}
  ChildNum = {n1, n2}
  NoChild = NoChild
  Caller = {w1, w2}
  HostReaps = FALSE
  MaxWaitFail = 1
  MaxCalls = 3
  GroupScope = {s1}
  GroupProc = {p1, p2}
  MaxGroupFail = 0
  JobScope = {s1}
  JobProc = {p1}
  NoProc = NoProc
  JobCaller = {w1}
  JobCode = {"zero", "KILLED"}
  MaxJobFail = 1
  WaitScope = {s1}
  WaitProc = {p1}
  WaitCaller = {w1}
  WaitCode = {"zero", "STILL_ACTIVE"}
  MaxJobWaitFail = 1
  SampleProc = {p1}
  SampleReader = {r1}
  ReadProc = {p1}
  Reader = {r1}
  Permits = 1
SPECIFICATION InfraFairSpec
CHECK_DEADLOCK FALSE
PROPERTIES
  CleanupDrains
  WaitsReturn
  KillForcesAttempt
  EverySampled
