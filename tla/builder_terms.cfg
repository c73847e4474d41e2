CONSTANTS
  Kinds = {"transfer"}
  Offers <- SomeOffers
  Resources = {}
  MaxBuilders = 2
  MaxBuilt = 2
  MaxCalls = 1
  LimbBytes = 2
  Inputs = {}
SPECIFICATION ValuesSpec
CHECK_DEADLOCK FALSE
INVARIANT SameTerms
