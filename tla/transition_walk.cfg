SPECIFICATION Spec
CONSTANTS
  State <- TreeState
  Root = 1
  NoState = 0
  Parent <- TreeParent
  Chain <- TreeChain
  Initial <- TreeInitial
INVARIANTS NoNullParent LevelsMeet WalkIsPath
CHECK_DEADLOCK FALSE
