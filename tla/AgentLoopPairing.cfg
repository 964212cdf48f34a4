SPECIFICATION Spec
CONSTANTS
  CallIds = {c1}
  KeepRecent = 3
  SteeringBuffer = 1
  MaxRetries = 1
  MaxHistory = 6
  MaxSteer = 0
INVARIANTS
  ResultsFollowCalls
CHECK_DEADLOCK FALSE
