\* Two operations, a socket for each: every outcome, aborts, resets, late timers.
SPECIFICATION Spec
CONSTANTS
    r1 = r1
    r2 = r2
    r3 = r3
    c1 = c1
    Requests = {r1, r2}
    Sockets = {1, 2}
    Clients = {c1}
    None = None
    ClientOf <- OneClient
    KindOf <- KindsMixed
    Abortable = {r1, r2}
    Replies = {"ok", "error", "undecodable", "close"}
    MaxOpen = 2
    KeepAlive = TRUE
    IdleTTL = 2
    Eager = FALSE
    ServerTTL = 3
    PeerMayReset = TRUE
    MayClose = FALSE
    MaxLag = 1
    MaxTime = 4
INVARIANTS
    ErrorsHeardAndTrue
    RejectedHoldsNoSocket
    DoneMeansReceived
PROPERTIES
    KeepsLeases
    FreshWhenCalled
    AbortRejects
CHECK_DEADLOCK FALSE
