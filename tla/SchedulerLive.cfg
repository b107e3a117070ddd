SPECIFICATION MCFairSpec
CONSTANTS
  Threads = {m, a, b}
  Main = m
  Idle = idle_thread
  NLocks = 2
  Semas = {}
  NULL = NULL
  PRI_MIN = 0
  PRI_MAX = 1
  PRI_DEFAULT = 0
  MaxSleep = 0
  Garbage = {0, 2}
  Ops = {"lock", "create"}
  MaxOps = 5
PROPERTY LocksGranted
