CONSTANTS
  Scope = {s1}
  Pid = {p1, p2}
  Caller = {c1}
  NoScope = NoScope
  NoTask = NoTask
  ReportBound = 1
  HistoryBound = 1
  ForceTimeout = TRUE
  MaxFaults = 1
  Calls = {"terminate_scope", "wait", "shutdown", "drop", "cancel"}
SPECIFICATION EndingSpec
SYMMETRY Symmetry
INVARIANTS
  TypeOK
  VerifiedMeansReaped
  NoStaleFailure
  OwnedUntilReaped
  DropReachesLateSpawns
PROPERTIES
  EvidenceMonotone
  KeepsPromise
