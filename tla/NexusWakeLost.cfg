SPECIFICATION SuiteSpec
CONSTANTS
  q1 = q1
  w1 = w1
  w2 = w2
  c1 = c1
  NoTurn = NoTurn
  Queries <- OneQuery
  Wakes <- TwoWakes
  Channels <- OneChannel
  MaxErrors = 2
  MaxLines = 2
  MaxRotations = 1
  MaxTruncates = 1
  HeadLen = 2
  PipeSize = 1
  Base = 1
  Cap = 3
  MaxRuns = 3
  MaxOutput = 3
  Files <- YamlFiles
  DefaultSize = 1
  DefaultLast = 3
  MaxIngested = 3
PROPERTIES
  NotedIsTold
CHECK_DEADLOCK FALSE
