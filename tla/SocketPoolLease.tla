--------------------------- MODULE SocketPoolLease ---------------------------
(* SocketPool seen as a ConnectionLease.                                    *)
EXTENDS SocketPool

ASSUME LeaseAssumption == {"Unused", "Idle", "Gone"} \cap (Requests \cup {None}) = {}

\* A socket is leased while the agent counts it as in use and it is usable.
leaseOf == [s \in Sockets |->
              CASE st[s] = "unborn" -> "Unused"
                [] st[s] = "busy" -> holder[s]
                [] st[s] = "free" -> "Idle"
                [] OTHER -> "Gone"]

\* A request has been given a socket when it left the queue.
servedRequests ==
    {r \in Requests :
        \/ phase[r] \notin {"idle", "sleeping", "waiting"}
        \/ \E s \in Sockets : holder[s] = r}

finishedRequests == destroyed \cup InPhase({"ended", "failed"})

Lease == INSTANCE ConnectionLease
            WITH Connections <- Sockets,
                 Unused <- "Unused", Idle <- "Idle", Gone <- "Gone",
                 lease <- leaseOf, served <- servedRequests,
                 finished <- finishedRequests, cut <- peerClosed

\* The pool keeps the promise of ConnectionLease: no request is sent twice,
\* no two requests share a socket, and no socket is taken from a request that
\* is not over, unless the peer cut it.
KeepsLeases == Lease!LeaseSpec
=============================================================================
