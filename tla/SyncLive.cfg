\* A short ring and a deferred list of one entry.
SPECIFICATION MCFairSpec
CONSTANTS
  Threads = {t1, t2}
  Groups = {g1}
  GroupOf <- OneGroup
  NumIds = 1
  GenSpan = 4
  MaxDeferred = 1
  RingCap = 1
  MaxFences = 2
  MaxCalls = 3
PROPERTIES
  CallsReturn
