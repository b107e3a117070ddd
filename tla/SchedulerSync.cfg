SPECIFICATION Spec
CONSTANTS
  Threads = {m, a, b}
  Main = m
  Idle = idle_thread
  NLocks = 1
  Semas = {s}
  NULL = NULL
  PRI_MIN = 0
  PRI_MAX = 1
  PRI_DEFAULT = 0
  MaxSleep = 2
  Garbage = {0, 2}
  Ops = {"lock", "try", "cond", "sema", "create", "interrupt", "sleep"}
  MaxOps = 10
SYMMETRY Perms
INVARIANT OneList
INVARIANT NoLostWakeup
INVARIANT SignalKept
PROPERTY WakesOnTime
