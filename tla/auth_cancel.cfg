CONSTANTS
  l1 = l1
  l2 = l2
  t1 = t1
  t2 = t2
  Linkings = {l1}
  Transfers = {t1}
  KeepsUp <- BackOnly
  MaxAnswers = 2
SPECIFICATION Spec
CHECK_DEADLOCK FALSE
INVARIANTS
  AnsweredOnce
