CONSTANTS
  o1 = o1
  own = own
  copy = copy
  token = token
  meta = meta
  Nothing = Nothing
  Free = Free
  Ops = {o1}
  Apis <- AllApis
  Clients = {own, copy}
  OwnClient = own
  AccessTokens = {token}
  Metadata = {meta}
  LocalAuthentication = TRUE
  GlobalCallback = TRUE
SPECIFICATION FairSpec
CHECK_DEADLOCK FALSE
PROPERTIES
  EveryCallAnswered
