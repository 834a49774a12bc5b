CONSTANTS
  Task = {t1}
  Inst = {i1}
  NoInst = NoInst
  MaxFaults = 0
SPECIFICATION Spec
INVARIANTS
  RecordKeptUnlessVerified
