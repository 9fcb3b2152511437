SPECIFICATION Spec
CONSTANTS
    Calls = {c1}
    Writes = {}
    Ids = {i1}
    MaxProcs = 2
    Warning = 1
    Protected = 1
    MaxCleanups = 1
    MaxAborts = 1
    None = None
CHECK_DEADLOCK FALSE
PROPERTY BeginIsPaired
