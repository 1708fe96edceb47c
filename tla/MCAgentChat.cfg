SPECIFICATION Spec
CONSTANTS
    MaxRuns = 3
    MaxCalls = 2
    Budget = 3
INVARIANTS LeaseCoversTurn ReportsAreTrue
PROPERTIES NothingReplayed NoTypingAfterNo LeftTurnsEnd
CHECK_DEADLOCK FALSE
