SPECIFICATION FairSpec
CONSTANTS
  Resource = {r1}
  Gateway = {g1, g2}
  Database = {d1, d2}
  None = None
  MaxVersion = 2
  MaxMoves = 0
  MaxFaults = 2
INVARIANT NoOrphans
PROPERTY Converges
PROPERTY DeletionTerminates
PROPERTY IsRowStore
CHECK_DEADLOCK FALSE
