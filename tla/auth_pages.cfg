CONSTANTS
  l1 = l1
  l2 = l2
  t1 = t1
  t2 = t2
  Linkings = {l1, l2}
  Transfers = {t1, t2}
  KeepsUp <- SomeKeepUp
  MaxAnswers = 2
SPECIFICATION FairSpec
CHECK_DEADLOCK FALSE
INVARIANTS
  Inductive
  TokenUsedOnce
  BrowserClosed
PROPERTIES
  FinalAnswer
  ComesBackFromCalls
  KeepsPromise
