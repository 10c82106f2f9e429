CONSTANTS
  Threads = {t1, t2}
  MAX_CONTEXTS = 3
  MAX_SURFACES = 2
  Windows = {w1}
  NoWindow = NoWindow
  MaxLive = 2
  RingBound = 2
  Workloads <- MCWorkloads
  Exclusive = TRUE
SPECIFICATION Spec
SYMMETRY MCSymmetry
PROPERTY ImplementsCurrentContext
INVARIANTS EglInv HandlesHold QueryFresh CurrentIsOwn
CHECK_DEADLOCK FALSE
