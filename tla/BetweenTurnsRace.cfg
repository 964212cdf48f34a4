SPECIFICATION SafetySpec
CONSTANTS
  c1 = c1
  c2 = c2
  h1 = h1
  h2 = h2
  CallIds <- OneCall
  KeepRecent = 2
  SteeringBuffer = 1
  MaxRetries = 0
  MaxHistory = 4
  MaxSteer = 1
  MaxBytes = 7
  MaxChunk = 2
  Models <- SomeModels
  Budgets = {0, 512, 4096, 20000, 40000}
  MaxRounds = 2
  MaxWidth = 2
  NewIds <- ThreeIds
  Items <- SomeItems
  Priorities = {"", "urgent"}
  Statuses = {"pending", "in_progress", "done"}
  MaxWritten = 2
  MaxWaits = 2
  Sessions = {"agent", "sub"}
  MaxChanges = 3
  MaxCrashes = 1
  Names <- ToolNames
  Lower <- LowerOf
  Servers <- TwoServers
  ServerTools <- ToolsOfThem
  PrefixedName <- Prefixed
  Listings <- ListedTools
  Natives <- BashTool
  Extensions <- SomeExtensions
  DisabledSets <- SomeDisabled
  TTL = 2
  MaxTime = 2
  NoId = NoId
  MaxEntries = 5
  MaxTears = 2
  DeskCalls <- TwoCalls
  WriteCalls <- TheWrite
  Handlers <- TwoHandlers
  Commands <- SomeCommands
  EditedGlobs <- SomeGlobs
  FirstRules <- SomeRules
  Sections <- SomeSections
  MaxRestarts = 1
  NoHandler = NoHandler
  Dirs = {"a", "b"}
  Setups <- SomeSetups
  MaxDecisions = 2
  MaxDeaths = 1
  Files <- SomeFiles
  Flags <- SomeFlags
  Timeouts <- SomeTimeouts
  Inline <- SomeInline
INVARIANTS
  ActsBetweenTurns
CHECK_DEADLOCK FALSE
