SPECIFICATION Spec
CONSTANTS
  NoState = "none"
  Root = "root"
  NoTransition = "noTransition"
  NoEvent = "noEvent"
  State <- ShapeState
  Parent <- ShapeParent
  Chain <- ShapeChain
  Initial <- ShapeInitial
  Transition <- ShapeTransition
  Table <- ShapeTable
  Target <- ShapeTarget
  Event <- ShapeEvent
  MayFire <- ShapeMayFire
  MustFire = {}
  DirectEvents = {"b", "a1"}
  PumpOnLeave = {}
  PumpOnAction = {}
  MaxQueue = 2
  MaxNest = 1
INVARIANTS NoAssertionFails ConfigurationOK
PROPERTY ImplementsStatechart
