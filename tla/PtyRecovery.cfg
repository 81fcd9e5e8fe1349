CONSTANTS
  t = t
  w = w
  Nobody = Nobody
  Clients = {t}
  Terminals = {t}
  Creator = t
  High = 2
  Low = 0
  QueueMax = 4
  Retain = 1
  CheckpointReplay = TRUE
  MaxSeq = 4
  MaxDrops = 1
SPECIFICATION FairSpec
INVARIANTS TypeOK UnpausedIsCurrent
PROPERTIES CaughtUp NoChunkSkipped
CHECK_DEADLOCK FALSE
