SPECIFICATION Spec
CONSTANTS
    MaxSub = 2
    MaxRounds = 1
    SqCapacity = 2
    Ops = {"UserInput"}
INVARIANTS
    RunningIsNotCompleted
CHECK_DEADLOCK FALSE
