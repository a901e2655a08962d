SPECIFICATION FairSpec
CONSTANTS
  MaxClients = 2
  Name = {n1, n2}
  Key = {k1, k2}
  Nothing = Nothing
  MaxPhrases = 2
  TableFaults = {}
INVARIANTS
  KeysAreLive
  PhraseReachesOwner
  PhrasesInOrder
PROPERTIES
  PhrasesArrive
CHECK_DEADLOCK FALSE
