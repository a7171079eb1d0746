SPECIFICATION Spec
CONSTANTS
  source = source
  a = a
  b = b
  c = c
  Sources = {source}
  Streams = {a, b, c}
  SourceOf <- MCSourceOf
  MaxBatches = 2
  MaxFailures = 1
  None = None
INVARIANTS
  EntryCountsStreams
  SoleHandle
  StreamUnsplit
PROPERTIES
  GetReturns
  ContextsFlushed
CHECK_DEADLOCK FALSE
