SPECIFICATION FairSpec
CONSTANTS
  Activity <- MCActivity
  NoActivity = "null"
  Name <- MCName
  Animates = {"desktop"}
  ClosesItself = {"player"}
  MaxNest = 2
INVARIANTS
  TypeOK PointersCurrent HeldWindowsExist NoOrphanWindow CoveredArePaused OnlyTopShown
PROPERTIES
  CallbackOrder OperationsEnd ClosedAreDestroyed
