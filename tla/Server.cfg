SPECIFICATION ServerSpec
CONSTANTS
  q1 = q1
  q2 = q2
  w1 = w1
  NoTurn = NoTurn
  Queries <- TwoQueries
  Wakes <- OneWake
  Conversations = {1, 2}
  Clients = {1, 2}
  BusBuffer = 1
  MaxEvents = 3
  Followers = {1}
  ServerBuffer = 1
  ClientBuffer = 1
  MaxBusEvents = 2
  Agents = {"a", "b"}
  Prompts = {1, 2}
  MaxConcurrent = 1
  MaxBoardCalls = 2
  MaxCallbacks = 1
  MaxKills = 1
INVARIANTS
  QueueIsSound
  RecordIsKept
  StreamsAreTrue
  BoardIsSound
PROPERTIES
  ImplementsLine
  EverybodyGoesOn
CHECK_DEADLOCK FALSE
