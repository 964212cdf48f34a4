SPECIFICATION Spec
CONSTANTS
  CallIds = {c1, c2}
  KeepRecent = 3
  SteeringBuffer = 2
  MaxRetries = 1
  MaxHistory = 5
  MaxSteer = 3
INVARIANTS
  LoopIsSound
  NothingIsLost
PROPERTIES
  LoopMovesOn
CHECK_DEADLOCK FALSE
