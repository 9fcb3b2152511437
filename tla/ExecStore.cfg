SPECIFICATION Spec
CONSTANTS
    Calls = {c1, c2}
    Writes = {w1}
    Ids = {i1, i2}
    MaxProcs = 2
    Warning = 2
    Protected = 1
    MaxCleanups = 1
    MaxAborts = 1
    None = None
CHECK_DEADLOCK FALSE
INVARIANTS EndOnce NoProcessLost CleanupComplete AnswerNamesTarget
PROPERTY ExitReported
