CONSTANTS
  Scope = {s1}
  Pid = {p1}
  Caller = {c1, c2}
  NoScope = NoScope
  NoTask = NoTask
  ReportBound = 1
  HistoryBound = 1
  ForceTimeout = TRUE
  MaxFaults = 0
  Calls = {"terminate_scope", "wait"}
SPECIFICATION Spec
INVARIANTS
  WaitKnowsOwnedProcess
