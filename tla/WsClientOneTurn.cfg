SPECIFICATION Spec
CONSTANTS
  NoTurn = NoTurn
  OutboxSize = 1
  MaxQueries = 3
  MaxConns = 1
  MaxDisconnects = 0
INVARIANTS
  OneTurn
CHECK_DEADLOCK FALSE
