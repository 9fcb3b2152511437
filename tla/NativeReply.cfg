SPECIFICATION Spec
CONSTANTS
    Intents = {i1, i2}
    Configs = {m1, m2}
    MaxPos = 2
    MaxFaults = 3
    MaxAuthor = 2
    None = None
CHECK_DEADLOCK FALSE
INVARIANTS LedgerValid AtMostOneSend ReplyIsRetained NoLiveInputIsStale SettledTruthfully
PROPERTIES RetainedNeverChanges ImplementsReplies UnknownSettles
