SPECIFICATION Spec
CONSTANTS
  NoState = "none"
  Root = "root"
  NoTransition = "noTransition"
  NoEvent = "noEvent"
  State <- DState
  Parent <- DParent
  Chain <- DChain
  Initial <- DInitial
  Transition <- DTransition
  Table <- DTable
  Target <- DTarget
  Event <- DEvent
  MayFire <- DMayFire
  MustFire <- DMustFire
  DirectEvents <- DDirectEvents
  PumpOnLeave <- DPumpOnLeave
  PumpOnAction <- DPumpOnAction
  MaxQueue = 2
  MaxNest = 2
INVARIANT NoAssertionFails
CHECK_DEADLOCK FALSE
