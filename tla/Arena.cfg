\* One sender (g_lock makes all senders one) queues payloads of two sizes in
\* an arena of 20 bytes, which wraps within three commands; a ring of four
\* slots never fills first.  async_swap=0, where a swap is a blocking call.
SPECIFICATION MCFairSpec
CONSTANTS
  Threads = {t1}
  NoThread = NoThread
  SLOTS = 4
  DATA_SIZE = 20
  Sizes = {3, 8}
  Kinds = {"void", "swap"}
  AsyncSwap = FALSE
  MaxSeq = 3
  MaxWrites = 2
INVARIANTS
  RingInv
  ArenaDisjoint
PROPERTIES
  LockReleased
  ImplementsCallOrder
