\* A request aborted while it waits for the only connection.
SPECIFICATION Spec
CONSTANTS
    r1 = r1
    r2 = r2
    r3 = r3
    c1 = c1
    Requests = {r1, r2, r3}
    Sockets = {1, 2, 3}
    Clients = {c1}
    None = None
    ClientOf <- OneClient
    KindOf <- KindsQuery
    Abortable = {r2}
    Replies = {"ok"}
    MaxOpen = 1
    KeepAlive = TRUE
    IdleTTL = 2
    Eager = FALSE
    ServerTTL = 3
    PeerMayReset = FALSE
    MayClose = FALSE
    MaxLag = 1
    MaxTime = 3
INVARIANTS
    NoTimerOnBusySocket
CHECK_DEADLOCK FALSE
