SPECIFICATION AloneSpec
CONSTANTS
  NoId = NoId
  MaxEntries = 5
  MaxTears = 2
INVARIANTS
  StaysLoadable
