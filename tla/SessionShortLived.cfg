SPECIFICATION FairSpec
CONSTANTS
  s1 = s1
  Sessions = {s1}
  MaxSessions = 1
  BufferCap = 1
  MaxOut = 0
  MaxConns = 1
  MaxRestarts = 0
  MaxCrashes = 0
PROPERTIES ExitEventuallyShown
CHECK_DEADLOCK FALSE
