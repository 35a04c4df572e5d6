SPECIFICATION Spec
CONSTANTS
  Activity <- MCActivity
  NoActivity = "null"
  Name <- MCName
  Animates = {"desktop"}
  ClosesItself = {"player"}
  MaxNest = 2
INVARIANT TopWindowExists
