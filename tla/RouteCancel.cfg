CONSTANTS
  a = a
  b = b
  Providers = {a}
  Queue <- AloneQueue
  Keys = {k1}
  Requests = {r1, r2}
  NoKey = NoKey
  MaxAttempts = 2
  RectifierRules = 0
  FailureThreshold = 2
  SuccessThreshold = 1
  MinRequests = 2
  ErrorRate = 60
  CountMax = 2
  CancelPhases = {"sending", "refused", "reading", "switching", "streaming"}
  Recovering = {}
  MaxCancels = 1
  MaxResets = 0
SPECIFICATION Spec
INVARIANTS ProbeHasOwner
CHECK_DEADLOCK FALSE
