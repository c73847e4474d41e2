CONSTANTS
  d1 = d1
  d2 = d2
  k1 = k1
  k2 = k2
  k3 = k3
  upper = upper
  lower = lower
  other = other
  bank = bank
  none = none
  Nothing = Nothing
  Devices = {d1}
  Keys = {k1, k3}
  Levels <- SmallLevels
  Signing = "Privileged"
  LevelOf <- AllPrivileged
  FirstKeys <- OneKeyEach
  Approved <- FirstApproved
  Spellings = {}
  Normal <- Spelling
  Realms = {none}
  NoRealm = none
  Partner = none
  AliasChoices = {}
  KeyChoices <- EachKey
  MaxOps = 2
  Serial = TRUE
SPECIFICATION Spec
CHECK_DEADLOCK FALSE
PROPERTIES
  RemovesOnlyNonStored
