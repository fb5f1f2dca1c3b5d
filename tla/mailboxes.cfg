SPECIFICATION FairSpec
CONSTANTS
  Mailbox = {m1, m2}
  Number = {n100, n101}
  None = None
  MaxEdits = 3
  MaxFaults = 1
INVARIANT TypeOK
INVARIANT StatusHasRow
PROPERTY PinNotReconciled
PROPERTY MailboxesStay
PROPERTY MailboxesConverge
PROPERTY DeletionTerminates
PROPERTY IsRowStore
CHECK_DEADLOCK FALSE
