\* An error response while another request waits for the connection.
SPECIFICATION FairSpec
CONSTANTS
    r1 = r1
    r2 = r2
    r3 = r3
    c1 = c1
    Requests = {r1, r2}
    Sockets = {1, 2}
    Clients = {c1}
    None = None
    ClientOf <- OneClient
    KindOf <- KindsQuery
    Abortable = {}
    Replies = {"ok", "error"}
    MaxOpen = 1
    KeepAlive = TRUE
    IdleTTL = 2
    Eager = FALSE
    ServerTTL = 3
    PeerMayReset = FALSE
    MayClose = FALSE
    MaxLag = 1
    MaxTime = 3
PROPERTIES
    AbandonedStreamReleased
CHECK_DEADLOCK FALSE
