\* Two operations of any kinds, each with a signal of its own.
SPECIFICATION FairSpec
CONSTANTS
    r1 = r1
    r2 = r2
    s1 = s1
    s2 = s2
    Requests = {r1, r2}
    Signals = {s1, s2}
    SignalOf <- OwnSignals
    None = None
INVARIANTS
    CauseIsTrue
    InsertedMeansReceived
    SettledLeavesNothing
    AbortReaches
PROPERTIES
    FetchSettles
CHECK_DEADLOCK FALSE
