SPECIFICATION Spec
CONSTANTS
  NItems = 5
  Cap = 3
  MaxPage = 4
  MaxVisit = 2
  Exact = FALSE
  Hurry = FALSE
INVARIANT TypeOK
INVARIANT NoSharedPlace
INVARIANT CurrentPageExists
INVARIANT EveryItemHome
INVARIANT NoHoleAtRest
PROPERTY DeletedPageEmpty
PROPERTY OthersKeepOrder
