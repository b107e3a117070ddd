SPECIFICATION MCFairSpec
CONSTANTS
  Threads = {t1, t2}
  Flusher = wb
  NoThread = none
  Blocks = {1, 2}
  NoBlock = 99
  Values = {0, 1}
  Zero = 0
  SECTOR_COUNT = 1
  MaxHold = 1
  MaxTakes = 2
  MaxFlushes = 1
PROPERTIES CallsReturn
