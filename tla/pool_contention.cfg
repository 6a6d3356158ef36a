\* Three operations and one open connection: the queue of the agent.  Timers
\* may fire late, and the server closes idle connections at the TTL itself.
SPECIFICATION Spec
CONSTANTS
    r1 = r1
    r2 = r2
    r3 = r3
    c1 = c1
    Requests = {r1, r2, r3}
    Sockets = {1, 2, 3}
    Clients = {c1}
    None = None
    ClientOf <- OneClient
    KindOf <- KindsMixed
    Abortable = {}
    Replies = {"ok"}
    MaxOpen = 1
    KeepAlive = TRUE
    IdleTTL = 1
    Eager = TRUE
    ServerTTL = 1
    PeerMayReset = TRUE
    MayClose = FALSE
    MaxLag = 2
    MaxTime = 3
INVARIANTS
    NoTimerOnBusySocket
    TimeoutHeardByOwner
    KeptSocketsExpire
PROPERTIES
    OverdueOnlyByStall
CHECK_DEADLOCK FALSE
