---------------------------- MODULE WebConnection ----------------------------
(***************************************************************************)
(* The HTTP layer of the web client: request(), and query, exec, command,  *)
(* insert and ping on top of it (client-web/src/connection).  fetch, its   *)
(* AbortController and its response stream are external.                   *)
(*                                                                         *)
(* As in SocketPool, one thread runs everything: a timer or a network      *)
(* event waits until no promise continuation is due (LoopIdle), and user   *)
(* code may run between any two continuations.                             *)
(***************************************************************************)
EXTENDS Naturals

CONSTANTS
    Requests,       \* the operations users start
    Signals,        \* the AbortSignals users pass
    SignalOf,       \* the abort_signal of an operation
    None            \* no signal, no request

Kinds == {"query", "command", "insert", "ping"}     \* exec is as query

ASSUME WebAssumption ==
    /\ SignalOf \in [Requests -> Signals]
    /\ None \notin Requests \cup Signals

VARIABLES
    kind,           \* of each operation
    op,             \* the operation: idle, running, errtext (reads the text of
                    \* an error), draining, fulfilled, rejected
    cause,          \* why it was rejected
    fetched,        \* the promise of fetch: none, pending, ok, error, failed
    body,           \* the response: none, open, ended, broken, cancelled
    armed,          \* the requests whose timer runs
    isTimedOut, isAborted,
    onabort,        \* the request that the handler of a signal aborts
    fired,          \* the signals that users have fired
    asked           \* the requests that were in progress when theirs fired

vars == <<kind, op, cause, fetched, body, armed, isTimedOut, isAborted,
          onabort, fired, asked>>

TypeOK ==
    /\ kind \in [Requests -> Kinds]
    /\ op \in [Requests -> {"idle", "running", "errtext", "draining",
                            "fulfilled", "rejected"}]
    /\ cause \in [Requests -> {"none", "aborted", "timeout", "network", "server",
                               "broken"}]
    /\ fetched \in [Requests -> {"none", "pending", "ok", "error", "failed"}]
    /\ body \in [Requests -> {"none", "open", "ended", "broken", "cancelled"}]
    /\ armed \subseteq Requests
    /\ isTimedOut \subseteq Requests
    /\ isAborted \subseteq Requests
    /\ onabort \in [Signals -> Requests \cup {None}]
    /\ fired \subseteq Signals
    /\ asked \subseteq Requests

Init ==
    /\ kind \in [Requests -> Kinds]
    /\ op = [r \in Requests |-> "idle"]
    /\ cause = [r \in Requests |-> "none"]
    /\ fetched = [r \in Requests |-> "none"]
    /\ body = [r \in Requests |-> "none"]
    /\ armed = {}
    /\ isTimedOut = {}
    /\ isAborted = {}
    /\ onabort = [s \in Signals |-> None]
    /\ fired = {}
    /\ asked = {}

-----------------------------------------------------------------------------
(* The event loop, fetch and the server *)

\* The await of the operation has something to resume with.
Resumable(r) ==
    \/ op[r] = "running" /\ fetched[r] # "pending"
    \/ op[r] \in {"errtext", "draining"} /\ body[r] # "open"

\* The operation was given the signal; ping() takes no parameters.
Watches(r, s) == kind[r] # "ping" /\ SignalOf[r] = s

LoopIdle == \A r \in Requests : ~Resumable(r)

\* abortController.abort(): a pending fetch fails, an open response breaks.
\* A controller that aborts for nobody is None.
Abort(r) ==
    /\ fetched' = [x \in Requests |-> IF x = r /\ fetched[x] = "pending"
                                      THEN "failed" ELSE fetched[x]]
    /\ body' = [x \in Requests |-> IF x = r /\ body[x] = "open"
                                   THEN "broken" ELSE body[x]]

Headers(r) ==
    /\ fetched[r] = "pending"
    /\ LoopIdle
    /\ \E reply \in {"ok", "error"} : fetched' = [fetched EXCEPT ![r] = reply]
    /\ body' = [body EXCEPT ![r] = "open"]
    /\ UNCHANGED <<kind, op, cause, armed, isTimedOut, isAborted, onabort,
                   fired, asked>>

\* The rest of the response arrives and is read.
BodyEnd(r) ==
    /\ body[r] = "open"
    /\ op[r] \in {"errtext", "draining", "fulfilled"}
    /\ LoopIdle
    /\ body' = [body EXCEPT ![r] = "ended"]
    /\ UNCHANGED <<kind, op, cause, fetched, armed, isTimedOut, isAborted,
                   onabort, fired, asked>>

\* The connection fails: what it does is what an abort does.
NetworkError(r) ==
    /\ fetched[r] = "pending" \/ body[r] = "open"
    /\ LoopIdle
    /\ Abort(r)
    /\ UNCHANGED <<kind, op, cause, armed, isTimedOut, isAborted, onabort,
                   fired, asked>>

\* The user of query or exec cancels the stream.
ConsumerCancel(r) ==
    /\ op[r] = "fulfilled" /\ body[r] = "open"
    /\ body' = [body EXCEPT ![r] = "cancelled"]
    /\ UNCHANGED <<kind, op, cause, fetched, armed, isTimedOut, isAborted,
                   onabort, fired, asked>>

-----------------------------------------------------------------------------
(* WebConnection *)

\* const timeout = setTimeout(...)
TimerSet_Never(r) == armed
TimerSet(r) == armed \cup {r}

\* The timer and the onabort handler are set, then fetch is called.  The
\* handler replaces whatever handler the signal had.
Call(r) ==
    /\ op[r] = "idle"
    /\ op' = [op EXCEPT ![r] = "running"]
    /\ fetched' = [fetched EXCEPT ![r] = "pending"]
    /\ armed' = TimerSet(r)
    /\ onabort' = [s \in Signals |-> IF Watches(r, s) THEN r ELSE onabort[s]]
    /\ UNCHANGED <<kind, cause, body, isTimedOut, isAborted, fired, asked>>

\* The timer of the request timeout
Timeout(r) ==
    /\ r \in armed
    /\ LoopIdle
    /\ armed' = armed \ {r}
    /\ isTimedOut' = isTimedOut \cup {r}
    /\ Abort(r)
    /\ UNCHANGED <<kind, op, cause, isAborted, onabort, fired, asked>>

InProgress(r) ==
    op[r] \in {"running", "errtext", "draining"} \/ body[r] = "open"

\* The handler of the signal
Handler_FlagOnly(r) ==
    /\ isAborted' = isAborted \cup ({r} \cap Requests)
    /\ UNCHANGED <<fetched, body>>
Handler(r) ==
    /\ isAborted' = isAborted \cup ({r} \cap Requests)
    /\ Abort(r)

\* The user fires a signal.
UserAbort(s) ==
    /\ s \notin fired
    /\ fired' = fired \cup {s}
    /\ asked' = asked \cup {r \in Requests : Watches(r, s) /\ InProgress(r)}
    /\ Handler(onabort[s])
    /\ UNCHANGED <<kind, op, cause, armed, isTimedOut, onabort>>

\* clearTimeout(timeout), after fetch and in the catch clause
TimerCleared_AfterFetch(r) ==
    IF fetched[r] = "failed" THEN armed ELSE armed \ {r}
TimerCleared(r) == armed \ {r}

\* The catch clause
Cause_NoTimeout(r) == IF r \in isAborted THEN "aborted" ELSE "network"
Cause(r) ==
    IF r \in isAborted THEN "aborted"
    ELSE IF r \in isTimedOut THEN "timeout" ELSE "network"

Rejected(r, why) ==
    /\ op' = [op EXCEPT ![r] = "rejected"]
    /\ cause' = [cause EXCEPT ![r] = why]

\* What the operation does with a successful response: query and exec return
\* its stream, command and ping cancel it, insert reads it to the end.
\* Cancelling a broken stream rejects with what broke it.
Use_NoDrain(r) ==
    /\ op' = [op EXCEPT ![r] = "fulfilled"]
    /\ UNCHANGED <<cause, body>>
Use(r) ==
    \/ /\ kind[r] = "query"
       /\ op' = [op EXCEPT ![r] = "fulfilled"]
       /\ UNCHANGED <<cause, body>>
    \/ /\ kind[r] = "insert"
       /\ op' = [op EXCEPT ![r] = "draining"]
       /\ UNCHANGED <<cause, body>>
    \/ /\ kind[r] \in {"command", "ping"} /\ body[r] = "open"
       /\ op' = [op EXCEPT ![r] = "fulfilled"]
       /\ body' = [body EXCEPT ![r] = "cancelled"]
       /\ UNCHANGED cause
    \/ /\ kind[r] \in {"command", "ping"} /\ body[r] # "open"
       /\ Rejected(r, "broken")
       /\ UNCHANGED body

\* The await of fetch resumes.  ping turns a rejection into success: false.
Continue(r) ==
    /\ op[r] = "running"
    /\ fetched[r] # "pending"
    /\ armed' = TimerCleared(r)
    /\ \/ fetched[r] = "ok" /\ Use(r)
       \/ /\ fetched[r] = "error"
          /\ op' = [op EXCEPT ![r] = "errtext"]
          /\ UNCHANGED <<cause, body>>
       \/ /\ fetched[r] = "failed"
          /\ Rejected(r, Cause(r))
          /\ UNCHANGED body
    /\ UNCHANGED <<kind, fetched, isTimedOut, isAborted, onabort, fired, asked>>

\* The text of an error response has been read, or was cut off.
ErrorText(r) ==
    /\ op[r] = "errtext"
    /\ body[r] # "open"
    /\ Rejected(r, IF body[r] = "ended" THEN "server" ELSE Cause(r))
    /\ UNCHANGED <<kind, fetched, body, armed, isTimedOut, isAborted, onabort,
                   fired, asked>>

\* insert: response.text() resolves or rejects.
Drained(r) ==
    /\ op[r] = "draining"
    /\ \/ /\ body[r] = "ended"
          /\ op' = [op EXCEPT ![r] = "fulfilled"]
          /\ UNCHANGED cause
       \/ body[r] = "broken" /\ Rejected(r, "broken")
    /\ UNCHANGED <<kind, fetched, body, armed, isTimedOut, isAborted, onabort,
                   fired, asked>>

RequestStep(r) ==
    \/ Call(r) \/ Headers(r) \/ BodyEnd(r) \/ NetworkError(r) \/ ConsumerCancel(r)
    \/ Timeout(r) \/ Continue(r) \/ ErrorText(r) \/ Drained(r)

Next ==
    \/ \E r \in Requests : RequestStep(r)
    \/ \E s \in Signals : UserAbort(s)

Spec == Init /\ [][Next]_vars

\* Promise continuations and timers run; nothing is assumed of the server,
\* of the network or of the users.
Fairness ==
    \A r \in Requests :
        /\ WF_vars(Continue(r) \/ ErrorText(r) \/ Drained(r))
        /\ WF_vars(Timeout(r))

FairSpec == Spec /\ Fairness

-----------------------------------------------------------------------------
(* Properties *)

\* The request timeout covers the time up to the headers and nothing else: a
\* response that has begun is never broken by a late timer.
TimeoutSparesResponses == \A r \in isTimedOut : body[r] = "none"

\* The reported cause is what happened: a user's abort of this very request, a
\* timer that fired, or neither.
CauseIsTrue ==
    \A r \in Requests :
        /\ cause[r] = "aborted" => SignalOf[r] \in fired /\ r \in isAborted
        /\ cause[r] = "timeout" => r \in isTimedOut /\ r \notin asked
        /\ fetched[r] = "failed" /\ op[r] = "rejected" /\ r \in isTimedOut
               => cause[r] \in {"timeout", "aborted"}

\* An insert is reported as done only when its response was received whole,
\* even when it is aborted or the connection is lost while it drains.
InsertedMeansReceived ==
    \A r \in Requests :
        kind[r] = "insert" /\ op[r] = "fulfilled" => body[r] = "ended"

\* However an operation settles, it leaves no timer behind; and one that was
\* rejected leaves no response open.
SettledLeavesNothing ==
    \A r \in Requests :
        /\ op[r] \in {"fulfilled", "rejected"} => r \notin armed
        /\ op[r] = "rejected" => body[r] # "open"

\* Firing a signal cancels the requests in progress that were given it, in
\* whatever phase they are.
AbortReaches ==
    \A r \in asked : fetched[r] # "pending" /\ body[r] # "open"

\* A server that never answers does not keep an operation waiting for ever.
FetchSettles ==
    \A r \in Requests : fetched[r] = "pending" ~> fetched[r] # "pending"

=============================================================================
