\* One thread dispatches, another makes the surfaces and callbacks.
SPECIFICATION MCFairSpec
CONSTANTS
  Threads = {t1, t2}
  NoThread = NoThread
  Dispatchers = {t1}
  Creators = {t2}
  PROXY_SURF_MAX = 3
  SURF_MAP_MAX = 2
  INPUT_EVT_MAX = 2
  MAX_CALLBACKS = 2
  WlHabits = {}
  Workloads <- MCWorkloads
INVARIANTS
  WlInv
  KeysOnceInOrder
  StatesSettle
PROPERTIES
  EventsArrive
