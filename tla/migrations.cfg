SPECIFICATION FairSpec
CONSTANTS
  Process = {p1, p2, p3}
  RowId = {i1, i2, i3, i4, i5}
  Head = 5
INVARIANT TypeOK
INVARIANT Recoverable
INVARIANT CrossedStamps
PROPERTY HeadReached
CHECK_DEADLOCK FALSE
