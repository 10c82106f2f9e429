\* EGL reads the socket whenever the proxy's thread is not about to.
SPECIFICATION MCSpec
CONSTANTS
  Threads = {t1, t2}
  NoThread = NoThread
  Dispatchers = {t1}
  Creators = {t2}
  PROXY_SURF_MAX = 3
  SURF_MAP_MAX = 2
  INPUT_EVT_MAX = 2
  MAX_CALLBACKS = 2
  WlHabits = {"egl_reads"}
  Workloads <- MCWorkloads
INVARIANTS
  WakeupKept
