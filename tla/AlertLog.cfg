CONSTANTS
  MaxAlerts = 3
  PageSize = 1
  Alike <- AlikeOneThree
SPECIFICATION Spec
INVARIANTS TicksAreCurrent FirstPageIsNewest WalkMissesNothing
PROPERTY AcknowledgedKept
