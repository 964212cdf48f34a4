SPECIFICATION CallsSpec
CONSTANTS
  MaxTries = 2
  RetryMax = 1
  MaxSent = 5
  Askers = {1, 2}
  Costs = {1, 3}
  Limits <- SomeLimits
  BusRoom = 1
  BacklogCap = 1
  OutboxRoom = 1
  Kinds = {"denied", "approval"}
  MaxTurns = 2
  MaxEvents = 2
  MaxFeeds = 2
INVARIANTS
  CallIsFaithful
  LimiterIsFair
  FeedIsWhole
PROPERTIES
  EveryCallReturns
CHECK_DEADLOCK FALSE
