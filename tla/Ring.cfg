\* Two threads mix all three kinds of commands on a ring of two slots.
SPECIFICATION MCFairSpec
CONSTANTS
  Threads = {t1, t2}
  NoThread = NoThread
  SLOTS = 2
  DATA_SIZE = 4
  Sizes = {}
  Kinds = {"void", "call", "swap"}
  AsyncSwap = TRUE
  MaxSeq = 4
  MaxWrites = 0
INVARIANTS
  RingInv
  TypeOK
  SlotIntact
  ReplyIsOwn
  OneBlockingCall
  SwapDepth
  ProxyWillWake
  SenderWillWake
PROPERTIES
  LockReleased
  ImplementsCallOrder
