CONSTANTS
  o1 = o1
  o2 = o2
  own = own
  copy = copy
  token = token
  Nothing = Nothing
  Free = Free
  Ops = {o1, o2}
  Apis <- CoreApis
  Clients = {own, copy}
  OwnClient = own
  AccessTokens = {token}
  Metadata = {}
  LocalAuthentication = TRUE
  GlobalCallback = TRUE
SPECIFICATION FairSpec
CHECK_DEADLOCK FALSE
INVARIANTS
  NeverStuck
  OneAnswer
  GlobalCallbackFirst
  QuietAfterAnswer
  OwnTimeout
  StepUpOnce
  ActsForItself
  Inductive
PROPERTIES
  KeepsPromise
