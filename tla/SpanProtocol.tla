---------------------------- MODULE SpanProtocol ----------------------------
(* What the tracer of a client is promised (ClickHouseTracer): a span for    *)
(* an operation, a second one for the response of a query, opened only when  *)
(* the operation was answered, and every one of them ended once.             *)

CONSTANTS Operations

VARIABLES
    operation,      \* span of each operation: none, open, or its status at the end
    stream          \* span of its response

Init ==
    /\ operation = [o \in Operations |-> "none"]
    /\ stream = [o \in Operations |-> "none"]

Starts(o) ==
    /\ operation[o] = "none"
    /\ operation' = [operation EXCEPT ![o] = "open"]
    /\ UNCHANGED stream

\* An insert whose values cannot be encoded fails as soon as it has begun.
StartsAndFails(o) ==
    /\ operation[o] = "none"
    /\ operation' = [operation EXCEPT ![o] = "error"]
    /\ UNCHANGED stream

Ends(o) ==
    /\ operation[o] = "open"
    /\ \E how \in {"unset", "error"} : operation' = [operation EXCEPT ![o] = how]
    /\ UNCHANGED stream

Answered(o) ==
    /\ operation[o] = "open"
    /\ operation' = [operation EXCEPT ![o] = "unset"]
    /\ stream' = [stream EXCEPT ![o] = "open"]

StreamEnds(o) ==
    /\ stream[o] = "open"
    /\ \E how \in {"ok", "error"} : stream' = [stream EXCEPT ![o] = how]
    /\ UNCHANGED operation

Next ==
    \E o \in Operations :
        Starts(o) \/ StartsAndFails(o) \/ Ends(o) \/ Answered(o) \/ StreamEnds(o)

Spec == Init /\ [][Next]_<<operation, stream>>

=============================================================================
