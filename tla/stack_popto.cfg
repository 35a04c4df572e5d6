SPECIFICATION Spec
CONSTANTS
  Activity <- MCActivity
  NoActivity = "null"
  Name <- MCName
  Animates = {"desktop"}
  ClosesItself = {}
  MaxNest = 2
INVARIANT StoppedBeforeClose
