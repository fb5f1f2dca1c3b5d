SPECIFICATION Spec
CONSTANTS
  Resource = {r1}
  Gateway = {g1, g2}
  Database = {d1, d2}
  None = None
  MaxVersion = 2
  MaxMoves = 2
  MaxFaults = 1
SYMMETRY Symmetric
INVARIANT TypeOK
INVARIANT StatusNamesRowHolder
PROPERTY ReleaseLeavesNoRow
PROPERTY RowsStay
CHECK_DEADLOCK FALSE
