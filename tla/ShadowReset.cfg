CONSTANTS
  Threads = {t1, t2}
  MAX_CONTEXTS = 2
  Names = {1, 2}
  Units = {0, 1}
  CacheEntries = 1
  Workloads <- LateWorkloads
  Habits = {"late contexts"}
  Parts = {p1, p2}
  MAX_MAPS = 3
  MapHabits = {}
SPECIFICATION MapSpec
PROPERTY ImplementsGL
CHECK_DEADLOCK FALSE
