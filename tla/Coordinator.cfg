SPECIFICATION MCSpec
CONSTANTS
    t1 = t1
    t2 = t2
    t3 = t3
    t4 = t4
    t5 = t5
    k1 = k1
    k2 = k2
    k3 = k3
    k4 = k4
    k5 = k5
    Tasks = {t1, t2, t3, t4, t5}
    Keys = {k1, k2, k3, k4, k5}
    Accepted = 4
    Executions = 3
    SessionExecutions = 2
    Capacity = 1
    None = None
CHECK_DEADLOCK FALSE
INVARIANTS SessionBound AcceptedBound StartsInOrder
PROPERTIES AcceptedStarts ImplementsDispatch
