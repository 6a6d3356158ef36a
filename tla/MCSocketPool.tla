----------------------------- MODULE MCSocketPool -----------------------------
(* Instances of SocketPool for TLC: which client runs which operation.      *)
EXTENDS SocketPoolLease, TLC

CONSTANTS r1, r2, r3, c1

OneClient == [r \in Requests |-> c1]

KindsMixed == [r \in Requests |-> CASE r = r1 -> "query"
                                    [] r = r2 -> "insert"
                                    [] r = r3 -> "command"]
KindsQuery == [r \in Requests |-> "query"]
=============================================================================
