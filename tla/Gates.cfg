SPECIFICATION GatesSpec
CONSTANTS
  N = 3
  Hooks = 1
  MaxParallel = 2
  s1 = s1
  s2 = s2
  m1 = m1
  m2 = m2
  Cadence = 2
  MaxConsults = 1
  Children <- TwoChildren
  MaxFailures = 2
  Batches <- SomeBatches
  Candidates <- TwoModels
  FirstModel = m1
  MaxIterations = 3
  MaxTurns = 2
  RecentN = 2
  CharBudget = 4
  Lengths <- TwoLengths
  MaxTalk = 4
  MaxDepth = 1
  Height = 3
  CommandLines <- SomeLines
  Bytes <- FourBytes
  MaxGlob = 3
  MaxText = 3
  Names <- ToolNames
  Lower <- LowerOf
  Settings <- SomeHarnesses
  MaxSuffix = 2
INVARIANTS
  AdviceIsHeeded
  TranscriptsFit
  ShellIsSeen
  GlobIsRight
  TreeIsGuarded
PROPERTIES
  BatchIsSafe
  KeepsIssueOrder
  JudgeStaysOut
  CallsMoveOn
CHECK_DEADLOCK FALSE
