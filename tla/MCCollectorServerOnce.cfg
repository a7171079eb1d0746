SPECIFICATION Spec
CONSTANTS
  source = source
  a = a
  b = b
  c = c
  Sources = {source}
  Streams = {a, b}
  SourceOf <- MCSourceOf
  MaxBatches = 1
  MaxFailures = 0
  None = None
INVARIANTS
  BuiltOncePerSource
CHECK_DEADLOCK FALSE
