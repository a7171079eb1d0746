SPECIFICATION Spec
CONSTANTS
  c1 = c1
  c2 = c2
  c3 = c3
  x1 = x1
  Clients = {c1, c2}
  Contexts = {x1}
  Streams <- MCStreams
  Permits = 1
  MaxRequests = 2
  MaxTime = 9
  Sizes = {0, 4, 6}
  Origins = {0, 2}
  Windows <- MCWindows
  Selections <- MCSelections
  None = None
  Failed = Failed
INVARIANTS
  TypeOK
  SelectAllShowsAll
  LanesAreTrue
PROPERTIES
  RequestsReturn
CHECK_DEADLOCK FALSE
