CONSTANTS
  t = t
  w = w
  Nobody = Nobody
  Clients = {t, w}
  Terminals = {t}
  Creator = t
  High = 2
  Low = 1
  QueueMax = 2
  Retain = 3
  CheckpointReplay = TRUE
  MaxSeq = 3
  MaxDrops = 0
SPECIFICATION Spec
INVARIANTS CreditConservation PausedOwesMore StreamInv RebuildComplete
CHECK_DEADLOCK FALSE
