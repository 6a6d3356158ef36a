---------------------------- MODULE ClientFacade ----------------------------
(***************************************************************************)
(* ClickHouseClient: query, command, exec, insert and ping around one call *)
(* of the connection each, with the span of the operation, and the         *)
(* ResultSet that query() makes of the response, with a span of its own.   *)
(*                                                                         *)
(* The connection is external here: it answers or fails.  SocketPool and   *)
(* WebConnection model what it does.  One of the operations is a query;    *)
(* the others run beside it on the same client, of any kind.               *)
(***************************************************************************)
EXTENDS ResultSet

CONSTANTS
    Operations,     \* calls of the client's methods
    TheQuery,       \* the one that is a query
    UserAttributes, \* choices of the keys of span_attributes
    LogsQueryText   \* dangerously_log_query_text

ASSUME ClientAssumption ==
    /\ TheQuery \in Operations
    /\ LogsQueryText \in BOOLEAN

VARIABLES
    method, outcome,    \* of each operation
    asked,              \* operations whose request the connection got
    opSpan,             \* none, open, or its status once ended
    opEnds,             \* how often it was ended
    attributes,         \* whose value each attribute of the span has
    handed              \* query() has given a ResultSet to the user

operationVars == <<method, outcome, asked, opSpan, opEnds, attributes>>
clientVars == <<vars, operationVars, handed>>

ClientInit ==
    /\ Init
    /\ method = [o \in Operations |-> "none"]
    /\ outcome = [o \in Operations |-> "idle"]
    /\ asked = {}
    /\ opSpan = [o \in Operations |-> "none"]
    /\ opEnds = [o \in Operations |-> 0]
    /\ attributes = [o \in Operations |-> << >>]
    /\ handed = FALSE

-----------------------------------------------------------------------------
(* Attributes, and the pieces of the methods *)

\* g where it is defined, and f elsewhere: Object.assign(f, g)
Over(f, g) ==
    [k \in DOMAIN f \cup DOMAIN g |-> IF k \in DOMAIN g THEN g[k] ELSE f[k]]
All(keys, whose) == [k \in keys |-> whose]

\* withBaseSpanAttributes: db.query.text is not taken from the user, and what
\* the operation sets wins.  named: the caller gave a query_id.
BaseAttributes(what, user, named) ==
    Over(All(user \ {"query_text"}, "user"),
         All((IF LogsQueryText /\ what # "ping" THEN {"query_text"} ELSE {})
             \cup (IF named THEN {"query_id"} ELSE {}), "client"))

\* What the span gets when the response has arrived.
ResponseAttributes(o) ==
    attributes' = [attributes EXCEPT
                       ![o] = Over(@, All({"query_id", "status_code"}, "server"))]

SpanStarts(o, what) ==
    /\ opSpan' = [opSpan EXCEPT ![o] = "open"]
    /\ \E user \in UserAttributes, named \in BOOLEAN :
           attributes' = [attributes EXCEPT ![o] = BaseAttributes(what, user, named)]

SpanEnds(o, how) ==
    /\ opSpan' = [opSpan EXCEPT ![o] = how]
    /\ opEnds' = [opEnds EXCEPT ![o] = @ + 1]

Settles(o, how) == outcome' = [outcome EXCEPT ![o] = how]

Methods(o) ==
    IF o = TheQuery THEN {"query"} ELSE {"command", "exec", "insert", "ping"}

-----------------------------------------------------------------------------
(* The methods.  A method runs up to its request without an interruption.   *)

Begins(o, what) ==
    /\ outcome[o] = "idle" /\ what \in Methods(o)
    /\ method' = [method EXCEPT ![o] = what]
    /\ UNCHANGED <<handed, vars>>

Call(o, what) ==
    /\ Begins(o, what)
    /\ SpanStarts(o, what)
    /\ asked' = asked \cup {o}
    /\ Settles(o, "pending")
    /\ UNCHANGED opEnds

\* An empty array is not sent; values of a wrong type are refused.  Neither
\* has a span.
InsertNothing(o) ==
    /\ Begins(o, "insert")
    /\ \E how \in {"fulfilled", "rejected"} : Settles(o, how)
    /\ UNCHANGED <<asked, opSpan, opEnds, attributes>>

\* encodeValues throws: values the format cannot hold.
InsertUnencodable(o) ==
    /\ Begins(o, "insert")
    /\ Settles(o, "rejected")
    /\ SpanEnds(o, "error")
    /\ \E user \in UserAttributes, named \in BOOLEAN :
           attributes' = [attributes EXCEPT ![o] = BaseAttributes("insert", user, named)]
    /\ UNCHANGED asked

Answer(o) ==
    /\ outcome[o] = "pending"
    /\ method[o] \in {"command", "exec", "insert"}
    /\ ResponseAttributes(o)
    /\ SpanEnds(o, "unset")
    /\ Settles(o, "fulfilled")
    /\ UNCHANGED <<method, asked, handed, vars>>

\* The span ends with the headers, and that of the response begins.
QueryAnswer_Finally(o) ==
    /\ outcome[o] = "pending" /\ method[o] = "query"
    /\ ResponseAttributes(o)
    /\ opSpan' = [opSpan EXCEPT ![o] = "unset"]
    /\ opEnds' = [opEnds EXCEPT ![o] = @ + 2]
    /\ Settles(o, "fulfilled")
    /\ handed' = TRUE
    /\ UNCHANGED <<method, asked, vars>>
QueryAnswer(o) ==
    /\ outcome[o] = "pending" /\ method[o] = "query"
    /\ ResponseAttributes(o)
    /\ SpanEnds(o, "unset")
    /\ Settles(o, "fulfilled")
    /\ handed' = TRUE
    /\ UNCHANGED <<method, asked, vars>>

\* ping() of a connection resolves whether the server was reached or not.
PingAnswer(o) ==
    /\ outcome[o] = "pending" /\ method[o] = "ping"
    /\ SpanEnds(o, "unset")
    /\ Settles(o, "fulfilled")
    /\ UNCHANGED <<method, asked, attributes, handed, vars>>

\* recordSpanError, then the error is thrown again.
Fail_Unrecorded(o) ==
    /\ outcome[o] = "pending" /\ method[o] # "ping"
    /\ SpanEnds(o, "unset")
    /\ Settles(o, "rejected")
    /\ UNCHANGED <<method, asked, attributes, handed, vars>>
Fail(o) ==
    /\ outcome[o] = "pending" /\ method[o] # "ping"
    /\ SpanEnds(o, "error")
    /\ Settles(o, "rejected")
    /\ UNCHANGED <<method, asked, attributes, handed, vars>>

\* The user and the response, once there is a ResultSet.
ResultSetStep == handed /\ Next /\ UNCHANGED <<operationVars, handed>>

OperationStep(o) ==
    \/ \E what \in {"query", "command", "exec", "insert", "ping"} : Call(o, what)
    \/ InsertNothing(o) \/ InsertUnencodable(o)
    \/ Answer(o) \/ QueryAnswer(o) \/ PingAnswer(o) \/ Fail(o)

ClientNext == (\E o \in Operations : OperationStep(o)) \/ ResultSetStep

ClientSpec == ClientInit /\ [][ClientNext]_clientVars

\* Streams and promises run on as long as the process does.  Nothing is asked
\* of the user, who need not read, or of the server, which need not answer.
ClientFairSpec ==
    /\ ClientSpec
    /\ WF_clientVars(handed /\ Settling /\ UNCHANGED <<operationVars, handed>>)

-----------------------------------------------------------------------------
(* Properties *)

\* An operation has an open span exactly while it waits for its request, and
\* what it then told the caller it told the span: an error if it rejected and
\* none if it did not, and the query_id of the server rather than a guess of
\* the user's.  The text of a query is on the span only by the client's option.
OperationTold ==
    \A o \in Operations :
        /\ opSpan[o] = "open" <=> outcome[o] = "pending"
        /\ opSpan[o] = "error" => outcome[o] = "rejected"
        /\ o \in asked /\ outcome[o] = "rejected" => opSpan[o] = "error"
        /\ o \in asked /\ outcome[o] = "fulfilled" /\ method[o] # "ping" =>
               attributes[o]["query_id"] = "server"
        /\ "query_text" \in DOMAIN attributes[o] =>
               LogsQueryText /\ attributes[o]["query_text"] = "client"

\* The tracer sees every span start once, then end once; the span of a
\* response starts when its operation has ended without an error, and it too
\* ends once at most, by whatever way the ResultSet is left.
OperationSpan(o) == IF opEnds[o] > 1 THEN "ended again" ELSE opSpan[o]
StreamSpan(o) ==
    CASE o # TheQuery \/ ~handed -> "none"
      [] ends > 1 -> "ended again"
      [] OTHER -> span
Protocol == INSTANCE SpanProtocol WITH
    operation <- [o \in Operations |-> OperationSpan(o)],
    stream <- [o \in Operations |-> StreamSpan(o)]
SpansKept == Protocol!Spec

=============================================================================
