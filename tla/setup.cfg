CONSTANTS
  Engines = {"token", "enclave"}
  Levels = {"Privileged", "Standard", "Low"}
  LevelOrder <- ThreeLevels
  MaxTime = 1
  MaxJobs = 2
  MaxOwn = 1
  MaxCrashes = 1
  Watched = 2
SPECIFICATION FairSpec
CHECK_DEADLOCK FALSE
INVARIANTS
  Inductive
  UsableAfterSuccess
  Replaced
  VerifiesLater
PROPERTIES
  RefusalSpares
  KeepsPromise
