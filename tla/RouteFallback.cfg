CONSTANTS
  a = a
  b = b
  Providers = {a, b}
  Queue <- PairQueue
  Keys = {k1}
  Requests = {r1}
  NoKey = NoKey
  MaxAttempts = 3
  RectifierRules = 1
  FailureThreshold = 1
  SuccessThreshold = 1
  MinRequests = 1
  ErrorRate = 60
  CountMax = 1
  CancelPhases = {"streaming"}
  Recovering = {b}
  MaxCancels = 0
  MaxResets = 1
SPECIFICATION FairSpec
PROPERTIES RequestEnds Serves
CHECK_DEADLOCK FALSE
