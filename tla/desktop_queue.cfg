SPECIFICATION FairSpec
CONSTANTS
  NoState = "none"
  Root = "root"
  NoTransition = "noTransition"
  NoEvent = "noEvent"
  State <- DState
  Parent <- DParent
  Chain <- DChain
  Initial <- DInitial
  Transition <- DTransition
  Table <- DTable
  Target <- DTarget
  Event <- QueuedEvents
  MayFire <- QueuedMayFire
  MustFire <- QueuedMustFire
  DirectEvents = {}
  PumpOnLeave <- DPumpOnLeave
  PumpOnAction <- DPumpOnAction
  MaxQueue = 2
  MaxNest = 2
INVARIANTS
  TypeOK NoAssertionFails RunToCompletion ConfigurationOK NestedConfiguration NoStrandedEvent
PROPERTIES
  ImplementsStatechart QueueServed ActivationEnds
