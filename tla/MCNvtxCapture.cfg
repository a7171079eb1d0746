SPECIFICATION Spec
CONSTANTS
  t1 = t1
  t2 = t2
  d1 = d1
  d2 = d2
  Threads = {t1, t2}
  Domains = {d1, d2}
  Classes = {"range", "resource"}
  MaxCalls = 4
  MaxHandles = 2
  MaxTime = 1
  None = None
SYMMETRY Symmetric
INVARIANTS
  SpansAreTrue
  AnomaliesAreExact
  LevelsAreNesting
CHECK_DEADLOCK FALSE
