SPECIFICATION Spec
CONSTANTS
  PageSize = 4
  JmpSize = 3
  MaxLength = 4
  Length <- MCLength
  Bytes <- MCBytes
  Entry <- MCEntry
  Size <- MCSize
  Hooked = {1, 2, 3, 4}
INVARIANTS
  CallsSafe
  OriginalsIntact
  FaultOnlyAcrossPages
CHECK_DEADLOCK FALSE
