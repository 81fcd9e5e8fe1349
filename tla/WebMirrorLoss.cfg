SPECIFICATION FairSpec
CONSTANTS
  Browsers = {b1}
  Big = {2}
  BatchMax = 2
  OutboxMax = 1
  BufferMax = 1
  MaxSeq = 2
  MaxFaults = 1
  Limits <- AnyFault
INVARIANTS TypeOK DrawnInOrder UndisturbedContiguous
PROPERTIES AckOnlyQueued MirrorCurrent
CHECK_DEADLOCK FALSE
