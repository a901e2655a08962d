SPECIFICATION FairSpec
CONSTANTS
  HeaderSize = 2
  Frames = 9
  Length <- MCLength
  Kind <- MCKind
  Start <- MCStart
  MaxSyncs = 2
INVARIANTS
  FramesAsSent
  NothingHeldBack
  SecretFirst
  RepliesInOrder
  AnswersAsPromised
PROPERTIES
  EveryMessageHeard
CHECK_DEADLOCK FALSE
