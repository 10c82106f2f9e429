\* Two threads whose contexts share their objects; three fences on two ids.
SPECIFICATION MCSafetySpec
CONSTANTS
  Threads = {t1, t2}
  Groups = {g1}
  GroupOf <- OneGroup
  NumIds = 2
  GenSpan = 4
  MaxDeferred = 1
  RingCap = 2
  MaxFences = 3
  MaxCalls = 3
SYMMETRY Symmetry
INVARIANTS
  TypeOK
  SyncInv
  ReportsAreTrue
  HeldFenceIsFound
  OneOwner
PROPERTIES
  TouchAfterFences
