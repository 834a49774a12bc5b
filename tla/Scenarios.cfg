CONSTANTS
  Scope = {s1, s2}
  Pid = {p1, p2}
  Caller = {c1, c2}
  NoScope = NoScope
  NoTask = NoTask
  ReportBound = 1
  HistoryBound = 1
  ForceTimeout = TRUE
  MaxFaults = 2
  Calls = {"terminate_scope", "terminate", "wait", "shutdown", "cancel"}
SPECIFICATION ScenariosSpec
SYMMETRY Symmetry
INVARIANTS
  RacingReportIsComplete
  NoReportGap
  ShutdownIsFinal
