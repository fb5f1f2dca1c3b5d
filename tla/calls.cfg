SPECIFICATION Spec
CONSTANTS
    MaxResends = 1
    MaxMoves = 1
INVARIANTS TypeOK OnlyPermitted AnswersFit
PROPERTIES RetryOnce NothingAfterCancel
\* The call ends.
CHECK_DEADLOCK FALSE
