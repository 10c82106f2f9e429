\* Two threads on two slots; the caller reads its slot after g_lock is dropped.
SPECIFICATION MCSpec
CONSTANTS
  Threads = {t1, t2}
  NoThread = NoThread
  SLOTS = 2
  DATA_SIZE = 4
  Sizes = {}
  Kinds = {"void", "call"}
  AsyncSwap = TRUE
  MaxSeq = 4
  MaxWrites = 0
INVARIANTS
  SlotResultIsOwn
