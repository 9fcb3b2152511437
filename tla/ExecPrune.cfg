SPECIFICATION Spec
CONSTANTS
    Calls = {c1, c2, c3, c4}
    Writes = {}
    Ids = {i1, i2, i3, i4}
    MaxProcs = 3
    Warning = 3
    Protected = 1
    MaxCleanups = 0
    MaxAborts = 0
    None = None
SYMMETRY Symmetry
CHECK_DEADLOCK FALSE
INVARIANT StoreBounded
PROPERTY PruneSparesRunning
