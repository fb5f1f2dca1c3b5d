SPECIFICATION FairSpec
CONSTANTS
  User = {u1, u2}
  Username = {alice, bob}
  Gateway = {home}
  Extension = {x100, x101}
  None = None
  MaxEdits = 3
INVARIANT TypeOK
INVARIANT AuthBacked
INVARIANT GoneOwnsNothing
PROPERTY UsersStay
PROPERTY FreeNamesConverge
PROPERTY IsRowStore
CHECK_DEADLOCK FALSE
