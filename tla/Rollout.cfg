SPECIFICATION Spec
CONSTANTS
    MaxRecords = 5
    MaxTurns = 2
    MaxGhosts = 1
    MaxTears = 1
    MaxRestarts = 1
    Capacity = 2
CHECK_DEADLOCK FALSE
INVARIANTS ReplayMatches AckedSurvives
PROPERTY FlushReturns
