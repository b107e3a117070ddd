SPECIFICATION FairSpec
CONSTANTS
  MaxTid = 3
  MaxCalls = 2
  MaxTasks = 1
  Statuses = {7}
INVARIANTS TypeOK StructAlive ReleasedOnce StatusOnce
PROPERTIES ExecKnows EverybodyEnds
