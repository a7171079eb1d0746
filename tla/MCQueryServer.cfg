CONSTANTS
  c1 = c1
  c2 = c2
  Clients <- MCClients
  Contexts <- MCContexts
  Log <- MCLog
  Requests <- MCRequests
  MaxExpired = 1
SPECIFICATION Spec
CHECK_DEADLOCK FALSE
INVARIANTS
  ChunksAreCanonical
  EveryEntryAnswered
  AnswersCoverTheView
  BinsAreTrue
PROPERTIES
  AnalyzersOnlyAdvance
