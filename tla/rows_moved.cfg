SPECIFICATION Spec
CONSTANTS
  Resource = {r1}
  Gateway = {g1, g2}
  Database = {d1, d2}
  None = None
  MaxVersion = 2
  MaxMoves = 1
  MaxFaults = 0
INVARIANT NoOrphans
CHECK_DEADLOCK FALSE
