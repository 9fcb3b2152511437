SPECIFICATION Spec
CONSTANTS
    MaxSub = 3
    MaxRounds = 2
    SqCapacity = 2
    Ops = {"UserInput", "Aux", "ExecApproval", "Interrupt"}
INVARIANTS
    SingleTerminal
    OneRunningTask
    NoOrphanTurn
    ProcessesOwned
    LiveApprovalIsPending
PROPERTIES
    CleanupSparesOwner
CHECK_DEADLOCK FALSE
