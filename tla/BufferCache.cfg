SPECIFICATION MCSpec
CONSTANTS
  Threads = {t1, t2}
  Flusher = wb
  NoThread = none
  Blocks = {1, 2, 3}
  NoBlock = 99
  Values = {0, 1}
  Zero = 0
  SECTOR_COUNT = 2
  MaxHold = 1
  MaxTakes = 2
  MaxFlushes = 1
INVARIANT NoLostWrite
PROPERTIES OwnedKeepsBlock ImplementsBlockStore
SYMMETRY Perms
