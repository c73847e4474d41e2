CONSTANTS
  d1 = d1
  d2 = d2
  k1 = k1
  k2 = k2
  k3 = k3
  upper = upper
  lower = lower
  other = other
  bank = bank
  none = none
  Nothing = Nothing
  Devices = {d1, d2}
  Keys = {k1, k2}
  Levels <- SmallLevels
  Signing = "Privileged"
  LevelOf <- AllPrivileged
  FirstKeys <- OneKeyEach
  Approved <- FirstApproved
  Spellings = {lower, upper}
  Normal <- Spelling
  Realms = {none, bank}
  NoRealm = none
  Partner = none
  AliasChoices <- OfNoPartner
  KeyChoices <- NewKeys
  MaxOps = 3
  Serial = TRUE
SPECIFICATION Spec
CHECK_DEADLOCK FALSE
PROPERTIES
  TakesEffectOnce
INVARIANTS
  Inductive
  AppliedInOrder
