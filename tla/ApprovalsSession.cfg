SPECIFICATION Spec
CONSTANTS
    MaxRequests = 1
    Channels = {c}
    Operators = {}
    Decisions = {"approve"}
    MaxFaults = 0
CHECK_DEADLOCK FALSE
PROPERTY DeliveredToEmitter
