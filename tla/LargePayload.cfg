\* One payload of 16 bytes in an arena of 20: it never fits once the head stands at 8.
SPECIFICATION MCFairSpec
CONSTANTS
  Threads = {t1}
  NoThread = NoThread
  SLOTS = 4
  DATA_SIZE = 20
  Sizes = {8, 16}
  Kinds = {"void"}
  AsyncSwap = TRUE
  MaxSeq = 3
  MaxWrites = 1
PROPERTIES
  AcceptedWriteFinishes
CHECK_DEADLOCK FALSE
