SPECIFICATION FairSpec
CONSTANTS
  Thread = {d1, d2}
  Uv = uv
  EngineId = {e1, e2}
  NoEngine = NoEngine
  NoThread = NoThread
  MaxCalls = 3
INVARIANTS
  ReadyOnce
  SpeakerChangeAfterReady
  EngineCallsBack
PROPERTIES
  CallsReturn
CHECK_DEADLOCK FALSE
