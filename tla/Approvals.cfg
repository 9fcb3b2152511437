SPECIFICATION Spec
CONSTANTS
    MaxRequests = 2
    Channels = {c}
    Operators = {o}
    Decisions = {"approve"}
    MaxFaults = 1
CHECK_DEADLOCK FALSE
INVARIANTS AnswersItsOwn AuditTruthful LeftoversMissSession
PROPERTY WaitEnds
