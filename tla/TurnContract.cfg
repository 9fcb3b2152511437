SPECIFICATION Spec
CONSTANTS
    MaxSub = 2
    MaxRounds = 1
    SqCapacity = 2
    Ops = {"UserInput", "Aux", "Interrupt", "InterruptTurn", "ExecApproval", "Shutdown"}
INVARIANTS
    OwnershipInv
    InterruptAnswerTruthful
PROPERTIES
    MarkerPrecedesAbort
    ImplementsContract
    TurnEnds
    InterruptEndsTurn
    InterruptAnswered
CHECK_DEADLOCK FALSE
