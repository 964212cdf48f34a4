SPECIFICATION Spec
CONSTANTS
  NoTurn = NoTurn
  OutboxSize = 1
  MaxQueries = 2
  MaxConns = 2
  MaxDisconnects = 1
INVARIANTS
  ClientIsSound
PROPERTIES
  NothingStartsLate
  ClientMovesOn
CHECK_DEADLOCK FALSE
