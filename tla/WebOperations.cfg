SPECIFICATION FairSpec
CONSTANTS
  Ops = {o1}
  Attempts = 2
  MaxLosses = 1
  MaxReloads = 1
  MaxRestarts = 1
  MaxRefusals = 2
  Refusable = {"accepted", "completed"}
INVARIANTS TypeOK ResultTruthful ExecutedOnce CompletionKept
PROPERTIES OperationEnds
CHECK_DEADLOCK FALSE
