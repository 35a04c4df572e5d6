SPECIFICATION Spec
CONSTANTS
  NItems = 5
  Cap = 3
  MaxPage = 4
  MaxVisit = 2
  Exact = TRUE
  Hurry = FALSE
PROPERTY DeletedPageEmpty
