CONSTANTS
  a = a
  b = b
  Providers = {a}
  Queue <- AloneQueue
  Keys = {k1, k2}
  Requests = {r1, r2}
  NoKey = NoKey
  MaxAttempts = 2
  RectifierRules = 0
  FailureThreshold = 2
  SuccessThreshold = 2
  MinRequests = 2
  ErrorRate = 60
  CountMax = 2
  CancelPhases = {"streaming"}
  Recovering = {a}
  MaxCancels = 1
  MaxResets = 0
SPECIFICATION Spec
INVARIANTS TypeOK SingleProbe ProbeHasOwner ClosedBelowThreshold
PROPERTY ProbesDecide
CHECK_DEADLOCK FALSE
