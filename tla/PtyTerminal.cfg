CONSTANTS
  t = t
  w = w
  Nobody = Nobody
  Clients = {t}
  Terminals = {t}
  Creator = t
  High = 2
  Low = 1
  QueueMax = 4
  Retain = 5
  CheckpointReplay = FALSE
  MaxSeq = 5
  MaxDrops = 1
SPECIFICATION FairSpec
INVARIANTS StreamInv ScreenContiguous
PROPERTY ImplementsReader
CHECK_DEADLOCK FALSE
