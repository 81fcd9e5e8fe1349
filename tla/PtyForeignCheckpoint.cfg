CONSTANTS
  t = t
  w = w
  Nobody = Nobody
  Clients = {t, w}
  Terminals = {t}
  Creator = t
  High = 2
  Low = 0
  QueueMax = 2
  Retain = 4
  CheckpointReplay = TRUE
  MaxSeq = 3
  MaxDrops = 0
SPECIFICATION Spec
INVARIANT UnpausedIsCurrent
CHECK_DEADLOCK FALSE
