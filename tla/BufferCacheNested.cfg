SPECIFICATION MCSpec
CONSTANTS
  Threads = {t1, t2}
  Flusher = wb
  NoThread = none
  Blocks = {1, 2, 3, 4}
  NoBlock = 99
  Values = {0}
  Zero = 0
  SECTOR_COUNT = 3
  MaxHold = 2
  MaxTakes = 2
  MaxFlushes = 0
INVARIANTS TypeOK NoPanic SemCounts
SYMMETRY Perms
