CONSTANTS
  Runner = {r1}
  Owner = {o1}
  Inst = {i1, i2}
  Fp = {f1}
  Nobody = Nobody
  KeptMode = FALSE
  MaxFailures = 1
SPECIFICATION Spec
CHECK_DEADLOCK FALSE
INVARIANTS
  StoppedMeansNothingRuns
