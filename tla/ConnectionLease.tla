--------------------------- MODULE ConnectionLease ---------------------------
(***************************************************************************)
(* What the users of a connection pool rely on, whatever the pool does      *)
(* about timers, queues and events.                                         *)
(*                                                                          *)
(* A connection is leased to one request at a time.  A request is given a   *)
(* connection at most once: nothing is ever sent a second time behind the   *)
(* caller's back.  A lease ends when its request is finished, whether it    *)
(* succeeded, failed, was aborted or timed out, or when the peer has cut    *)
(* the connection; only an idle connection is closed for another reason.    *)
(***************************************************************************)
CONSTANTS Requests, Connections, Unused, Idle, Gone   \* the last three: no requests

VARIABLES
    lease,      \* Unused, Idle, Gone, or the request that has the connection
    served,     \* the requests that have been given a connection
    finished,   \* the requests that are over
    cut         \* the connections the peer has closed or lost

leaseVars == <<lease, served, finished, cut>>

LeaseInit ==
    /\ lease = [s \in Connections |-> Unused]
    /\ served = {}
    /\ finished = {}
    /\ cut = {}

\* A connection is handed to a request for the first time in its life.
Begins(s) ==
    lease'[s] \in Requests \ served

Ends(s) ==
    /\ lease[s] \in Requests
    /\ \/ lease[s] \in finished'
       \/ s \in cut /\ lease'[s] = Gone

Change(s) ==
    \/ lease[s] \in {Unused, Idle} /\ Begins(s)
    \/ Ends(s) /\ (lease'[s] \in {Idle, Gone} \/ Begins(s))
    \/ lease[s] = Idle /\ lease'[s] = Gone

LeaseNext ==
    /\ \A s \in Connections : lease'[s] # lease[s] => Change(s)
    /\ \A s, t \in Connections :
          lease'[s] = lease'[t] /\ lease'[s] \in Requests => s = t
    /\ served' = served \cup (Requests \cap {lease'[s] : s \in Connections})
    /\ finished \subseteq finished'
    /\ cut \subseteq cut'

LeaseSpec == LeaseInit /\ [][LeaseNext]_leaseVars
=============================================================================
