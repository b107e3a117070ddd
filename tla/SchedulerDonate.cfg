SPECIFICATION Spec
CONSTANTS
  Threads = {m, a, b, c}
  Main = m
  Idle = idle_thread
  NLocks = 2
  Semas = {}
  NULL = NULL
  PRI_MIN = 0
  PRI_MAX = 2
  PRI_DEFAULT = 0
  MaxSleep = 0
  Garbage = {0, 3}
  Ops = {"lock", "create", "priority"}
  MaxOps = 8
SYMMETRY Perms
INVARIANT NoInversion
INVARIANT RunsForemost
