SPECIFICATION FairSpec
CONSTANTS
  Child = {c1}
  Num = {n1}
  NoNum = NoNum
  Caller = {w1}
  NoChild = NoChild
  HostReaps = TRUE
  MaxFail = 1
  MaxCalls = 2
PROPERTIES
  WaitReturns
CHECK_DEADLOCK FALSE
