SPECIFICATION FairSpec
CONSTANTS
  s1 = s1
  Sessions = {s1}
  MaxSessions = 1
  BufferCap = 1
  MaxOut = 2
  MaxConns = 2
  MaxRestarts = 1
  MaxCrashes = 1
INVARIANTS TypeOK ExitAfterOutput NoOrphanProcess CreationTruthful
PROPERTIES CloseCompletes DeathRecorded ExitReachesTab
CHECK_DEADLOCK FALSE
