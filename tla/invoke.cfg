SPECIFICATION FairSpec
CONSTANTS
  Dragon = {d1, d2}
  Uv = uv
  Free = Free
  MaxCalls = 2
INVARIANTS
  NoLostWakeup
PROPERTIES
  ImplementsFairChannel
