SPECIFICATION Spec
CONSTANTS
    MaxResends = 1
    MaxMoves = 1
INVARIANT AnswersRewritten
\* The call ends.
CHECK_DEADLOCK FALSE
