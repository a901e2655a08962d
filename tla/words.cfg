SPECIFICATION Spec
CONSTANTS
  MaxClients = 2
  MaxPauses = 1
  Uninit = {0, 99}
  Word = {w1, w2}
  WTid = {t1, t2}
  WRequest <- TwoVocabularies
  WordFaults = {"add"}
  Name = {g}
  GTid = {t1}
  GRequest <- OneGrammar
  GrammarFaults = {}
  Blob = {b1, b2}
  Rule = {r}
  ListName = {l}
  Content = {x, y}
  NoTid = NoTid
  Nothing = Nothing
  t1 = t1
  t2 = t2
  t3 = t3
  w1 = w1
  w2 = w2
  g = g
  b1 = b1
  b2 = b2
  r = r
  l = l
  x = x
  y = y
INVARIANTS
  SyncedWordsLoaded
  VocabularyIsUnion
  PendingWordsWait
  NoGrammarWaitsWhilePaused
PROPERTIES
  WordAnswerIsFinal
  GuardedFromFirstPause
CHECK_DEADLOCK FALSE
