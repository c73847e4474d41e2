CONSTANTS
  c1 = c1
  c2 = c2
  c3 = c3
  Block = Block
  Calls = {c1, c2, c3}
  MaxBlocks = 2
  FromCallbacks = FALSE
SPECIFICATION Spec
CHECK_DEADLOCK FALSE
INVARIANTS
  FramesAreUnfinished
  NeverHangs
PROPERTIES
  EveryCallComesBack
