SPECIFICATION FairSpec
CONSTANTS
  MaxClients = 2
  MTid = {t1, t2}
  Slips = {}
INVARIANTS
  QueueMatchesDragon
PROPERTIES
  MimicsAnswered
CHECK_DEADLOCK FALSE
