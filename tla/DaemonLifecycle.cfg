SPECIFICATION FairSpec
CONSTANTS
  None = None
  r1 = r1
  r2 = r2
  Daemons = {1, 2, 3}
  MaxLaunches = 2
  Upgrade = 2
  IdleChecks = 2
  Reports = {r1, r2}
  CacheMax = 1
  MaxCrashes = 2
  MaxTimeouts = 1
INVARIANTS TypeOK RecordNamesServer
PROPERTIES AppServed IdleEnds BacklogSent
CHECK_DEADLOCK FALSE
