\* Two operations, one open connection, client.close(): what must end.
SPECIFICATION FairSpec
CONSTANTS
    r1 = r1
    r2 = r2
    r3 = r3
    c1 = c1
    Requests = {r1, r2}
    Sockets = {1, 2}
    Clients = {c1}
    None = None
    ClientOf <- OneClient
    KindOf <- KindsMixed
    Abortable = {r1}
    Replies = {"ok", "undecodable"}
    MaxOpen = 1
    KeepAlive = TRUE
    IdleTTL = 2
    Eager = FALSE
    ServerTTL = 3
    PeerMayReset = TRUE
    MayClose = TRUE
    MaxLag = 1
    MaxTime = 3
PROPERTIES
    EveryOpSettles
    AbandonedStreamReleased
CHECK_DEADLOCK FALSE
