CONSTANTS
  c1 = c1
  c2 = c2
  c3 = c3
  Block = Block
  Calls = {c1, c2, c3}
  MaxBlocks = 2
  FromCallbacks = TRUE
SPECIFICATION Spec
CHECK_DEADLOCK FALSE
PROPERTIES
  EveryCallComesBack
