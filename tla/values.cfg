CONSTANTS
  Kinds = {"transfer", "standing", "bulk", "access"}
  Offers = {}
  Resources = {"accounts"}
  MaxBuilders = 2
  MaxBuilt = 2
  MaxCalls = 3
  LimbBytes = 2
  Inputs <- SomeInputs
SPECIFICATION ValuesSpec
CHECK_DEADLOCK FALSE
INVARIANTS
  Inductive
  RetriesMakeOneToken
  AnswersAreItsOwn
  ListsWhatWasAsked
  EncodesTheNumber
  DecodesWhatWasEncoded
  ReadsOnlyItsOwn
  ChecksOut
  DecodesBase64
