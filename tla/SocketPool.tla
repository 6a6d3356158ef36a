------------------------------ MODULE SocketPool ------------------------------
(***************************************************************************)
(* The Node.js HTTP layer of the ClickHouse client: the operations of      *)
(* NodeBaseConnection (query, exec, command, insert, ping, close), the     *)
(* SocketPool they go through, and, as an external part, the http.Agent,   *)
(* ClientRequest and event loop of Node.js that SocketPool is written      *)
(* against.                                                                *)
(*                                                                         *)
(* One JavaScript thread runs everything.  A macrotask (a timer, a socket  *)
(* event, the clock) is an action guarded by LoopIdle: it starts only when *)
(* no process.nextTick callback (OnSocketNT) and no promise continuation   *)
(* (Continue, Drained) is waiting.  Those two queues are not ordered with  *)
(* each other here.  User code (Call, UserAbort, CloseClient) may run      *)
(* between any two of them.                                                *)
(*                                                                         *)
(* Data is abstracted away: a request is its progress, a response is "ok", *)
(* "error" or "undecodable", and a socket is its state in the agent.       *)
(***************************************************************************)
EXTENDS Naturals, Sequences, FiniteSets

CONSTANTS
    Requests,       \* the operations users start, one HTTP request each
    Sockets,        \* TCP connections, numbered; one is never used twice
    Clients,        \* client instances (their SocketPools) on one http.Agent
    ClientOf,       \* the client that runs a request
    KindOf,         \* "query" (query, exec), "command", "insert" (insert, ping)
    None,           \* no socket, no request
    Abortable,      \* the requests whose abort_signal the user may fire
    Replies,        \* what the server may answer; "close" is Connection: close
    MaxOpen,        \* max_open_connections
    KeepAlive,      \* keep_alive.enabled
    IdleTTL,        \* keep_alive.idle_socket_ttl; 0 turns the idle timers off
    Eager,          \* keep_alive.eagerly_destroy_stale_sockets
    ServerTTL,      \* how long the server keeps an idle connection
    PeerMayReset,   \* whether a connection may break while a request uses it
    MayClose,       \* whether client.close() may be called
    MaxLag,         \* how late a timer may fire
    MaxTime         \* bound of the clock

Kinds == {"query", "command", "insert"}

ASSUME ConfigAssumption ==
    /\ Sockets \subseteq Nat
    /\ ClientOf \in [Requests -> Clients]
    /\ KindOf \in [Requests -> Kinds]
    /\ None \notin Requests \cup Sockets
    /\ Abortable \subseteq Requests
    /\ Replies \subseteq {"ok", "error", "undecodable", "close"}
    /\ MaxOpen \in Nat \ {0}
    /\ IdleTTL \in Nat
    /\ ServerTTL \in Nat
    /\ MaxLag \in Nat
    /\ MaxTime \in Nat
    /\ {KeepAlive, Eager, PeerMayReset, MayClose} \subseteq BOOLEAN

VARIABLES
    now,            \* Date.now(); starts at 1, so that 0 is "undefined"
    \* --- the requests
    phase,          \* progress of the request and its response, see Phases
    socketOf,       \* request.socket, set when the socket is handed over
    destroyed,      \* the requests whose ClientRequest, or response, is destroyed
    listeners,      \* what hears the request's 'error': pool, noop or none
    outcome,        \* how the promise of SocketPool.request settled
    op,             \* the promise of the operation itself
    wakeAt,         \* when the sleep(0) of the request is due
    aborted,        \* the requests whose AbortController has fired
    asked,          \* the requests whose user signal has fired
    \* --- the sockets and the agent
    st,             \* unborn, busy (agent.sockets), free (agent.freeSockets),
                    \* closing (destroyed, 'close' to come), dead
    holder,         \* the request the agent has given the socket to
    httpMessage,    \* the sockets whose _httpMessage is set
    freedAt,        \* when the socket last emitted 'free'
    peerClosed,     \* the connections the peer has closed or lost
    armed,          \* the sockets whose inactivity timer runs
    onTimeout,      \* the requests listening to their socket's 'timeout'
    queue,          \* agent.requests: the requests that wait for a socket
    \* --- the pools
    known,          \* knownSockets, per client
    handle,         \* deadline of the timer in idle_timeout_handle, or 0
    orphans,        \* <<client, socket, deadline>>: idle timers that run but
                    \* that no idle_timeout_handle refers to any more
    uncaught        \* an 'error' event found no listener

reqVars == <<phase, socketOf, destroyed, listeners, outcome, op, wakeAt,
             aborted, asked>>
sockVars == <<st, holder, httpMessage, freedAt, peerClosed, armed, onTimeout,
              queue>>
poolVars == <<known, handle, orphans>>
vars == <<now, reqVars, sockVars, poolVars, uncaught>>

Phases == {"idle", "sleeping",  \* not called; in sleep(0)
           "waiting",           \* created; queued, or given a socket not yet
           "sent",              \* on its socket, no response yet
           "body", "errbody",   \* response, error response being received
           "ended", "failed"}   \* fully received; died before that

Outcomes == {"pending", "response", "server", "undecodable", "timeout",
             "aborted", "network", "source"}

RequestsOK ==
    /\ phase \in [Requests -> Phases]
    /\ socketOf \in [Requests -> Sockets \cup {None}]
    /\ destroyed \subseteq Requests
    /\ listeners \in [Requests -> {"none", "pool", "noop"}]
    /\ outcome \in [Requests -> Outcomes]
    /\ op \in [Requests -> {"idle", "running", "draining", "fulfilled", "rejected"}]
    /\ wakeAt \in [Requests -> Nat]
    /\ aborted \subseteq Requests
    /\ asked \subseteq Requests

SocketsOK ==
    /\ st \in [Sockets -> {"unborn", "busy", "free", "closing", "dead"}]
    /\ holder \in [Sockets -> Requests \cup {None}]
    /\ httpMessage \subseteq Sockets
    /\ freedAt \in [Sockets -> Nat]
    /\ peerClosed \subseteq Sockets
    /\ armed \subseteq Sockets
    /\ onTimeout \subseteq Requests
    /\ queue \in Seq(Requests)

PoolsOK ==
    /\ known \in [Clients -> SUBSET Sockets]
    /\ handle \in [Clients -> [Sockets -> Nat]]
    /\ orphans \subseteq Clients \X Sockets \X Nat

TypeOK ==
    /\ now \in Nat \ {0}
    /\ RequestsOK
    /\ SocketsOK
    /\ PoolsOK
    /\ uncaught \in BOOLEAN

Init ==
    /\ now = 1
    /\ phase = [r \in Requests |-> "idle"]
    /\ socketOf = [r \in Requests |-> None]
    /\ destroyed = {}
    /\ listeners = [r \in Requests |-> "none"]
    /\ outcome = [r \in Requests |-> "pending"]
    /\ op = [r \in Requests |-> "idle"]
    /\ wakeAt = [r \in Requests |-> 0]
    /\ aborted = {}
    /\ asked = {}
    /\ st = [s \in Sockets |-> "unborn"]
    /\ holder = [s \in Sockets |-> None]
    /\ httpMessage = {}
    /\ freedAt = [s \in Sockets |-> 0]
    /\ peerClosed = {}
    /\ armed = {}
    /\ onTimeout = {}
    /\ queue = <<>>
    /\ known = [c \in Clients |-> {}]
    /\ handle = [c \in Clients |-> [s \in Sockets |-> 0]]
    /\ orphans = {}
    /\ uncaught = FALSE

-----------------------------------------------------------------------------
(* The event loop *)

\* The idle timers are in use.
Managed == KeepAlive /\ IdleTTL > 0

\* The agent has given r a socket: its onSocketNT is in the nextTick queue.
Assigned(r) == phase[r] = "waiting" /\ \E s \in Sockets : holder[s] = r

\* The await of r's operation has something to resume with.
Resumable(r) ==
    \/ op[r] = "running" /\ outcome[r] # "pending"
    \/ op[r] = "draining" /\ phase[r] \in {"ended", "failed"}

LoopIdle == \A r \in Requests : ~Assigned(r) /\ ~Resumable(r)

\* The abort_signal of the user still reaches the request's AbortController:
\* controllerCleanup has not run.
Linked(r) == op[r] = "running" \/ (op[r] = "draining" /\ KindOf[r] = "insert")

\* The clock may advance by t: no timer gets later than MaxLag.
CanPass(t) ==
    /\ now + t <= MaxTime
    /\ \A c \in Clients, s \in Sockets :
          handle[c][s] # 0 => now + t <= handle[c][s] + MaxLag
    /\ \A o \in orphans : now + t <= o[3] + MaxLag
    /\ \A r \in Requests : phase[r] = "sleeping" => now + t <= wakeAt[r] + MaxLag

\* An idle timer that runs is due at t: sleep(0) lets it fire first.
TimerDue_NoSleep(t) == FALSE
TimerDue(t) ==
    \/ \E c \in Clients, s \in Sockets : handle[c][s] # 0 /\ handle[c][s] <= t
    \/ \E o \in orphans : o[3] <= t

-----------------------------------------------------------------------------
(* http.Agent *)

FreeSockets == {s \in Sockets : st[s] = "free"}

\* Sockets are created in order.
NextUnborn(s) ==
    st[s] = "unborn" /\ \A t \in Sockets : t < s => st[t] # "unborn"

\* agent.requests
Dequeued == Tail(queue)
Enqueued(r) == Append(queue, r)

\* agent.addRequest: a free socket outside gone, a new one, or the queue.
\* The socket is handed to the request by OnSocketNT, but req.timeout is
\* armed at once.
GiveSocket(r, s, sts) ==
    /\ st' = [sts EXCEPT ![s] = "busy"]
    /\ holder' = [holder EXCEPT ![s] = r]
    /\ armed' = armed \cup {s}
    /\ UNCHANGED queue

AddRequest(r, gone) ==
    LET left == [s \in Sockets |-> IF s \in gone THEN "closing" ELSE st[s]]
        inUse == {s \in Sockets : holder[s] # None}
    IN  \/ \E s \in FreeSockets \ gone : GiveSocket(r, s, left)
        \/ /\ FreeSockets \subseteq gone
           /\ Cardinality(inUse) < MaxOpen
           /\ \E s \in Sockets : NextUnborn(s) /\ GiveSocket(r, s, left)
        \/ /\ FreeSockets \subseteq gone
           /\ Cardinality(inUse) >= MaxOpen
           /\ queue' = Enqueued(r)
           /\ st' = left
           /\ UNCHANGED <<holder, armed>>

\* The 'free' listeners of the pools that know s
IdleTimerStarted_Once(s) ==
    [c \in Clients |-> IF s \in known[c] /\ freedAt[s] = 0
                       THEN [handle[c] EXCEPT ![s] = now + IdleTTL]
                       ELSE handle[c]]
IdleTimerStarted(s) ==
    [c \in Clients |-> IF s \in known[c]
                       THEN [handle[c] EXCEPT ![s] = now + IdleTTL]
                       ELSE handle[c]]

\* socket.emit('free'), with running the sockets whose inactivity timer runs.
\* The agent hears it first: it gives the socket to the head of the queue,
\* keeps it, or destroys it when no request has used it since it was last
\* kept.  Then every pool that knows the socket starts an idle timer,
\* whatever idle_timeout_handle held before.
Freed(s, running) ==
    /\ \/ /\ queue # <<>>
          /\ holder' = [holder EXCEPT ![s] = Head(queue)]
          /\ queue' = Dequeued
          /\ armed' = running \cup {s}
          /\ UNCHANGED <<st, httpMessage>>
       \/ /\ queue = <<>>
          /\ s \in httpMessage
          /\ st' = [st EXCEPT ![s] = "free"]
          /\ holder' = [holder EXCEPT ![s] = None]
          /\ httpMessage' = httpMessage \ {s}
          /\ armed' = running \ {s}
          /\ UNCHANGED queue
       \/ /\ queue = <<>>
          /\ s \notin httpMessage
          /\ st' = [st EXCEPT ![s] = "closing"]
          /\ armed' = running
          /\ UNCHANGED <<holder, httpMessage, queue>>
    /\ freedAt' = [freedAt EXCEPT ![s] = now]
    /\ handle' = IdleTimerStarted(s)
    /\ orphans' = orphans \cup
                    {o \in {<<c, s, handle[c][s]>> : c \in Clients} :
                       s \in known[o[1]] /\ o[3] # 0}

-----------------------------------------------------------------------------
(* SocketPool.request *)

\* reject and resolve have no effect on a settled promise.
Settle(r, how) ==
    [outcome EXCEPT ![r] = IF @ = "pending" THEN how ELSE @]

\* removeRequestListeners takes onTimeout of r off its socket.
Unheard_Kept(r) == onTimeout
Unheard(r) == onTimeout \ {r}

\* socket.setTimeout(request_timeout, onTimeout) of onSocket: the listener
Heard_Never(r) == onTimeout
Heard(r) == onTimeout \cup {r}

\* clearTimeout(idle_timeout_handle) of onSocket
IdleTimerCleared_Never(c, s) == handle
IdleTimerCleared(c, s) == [handle EXCEPT ![c][s] = 0]

\* socket.destroy() on a socket the agent has in use or keeps
Destroy(S) ==
    [s \in Sockets |-> IF s \in S /\ st[s] \in {"busy", "free"}
                       THEN "closing" ELSE st[s]]

\* The user starts an operation; getAbortController, then sleep(0).
Call(r) ==
    /\ op[r] = "idle"
    /\ op' = [op EXCEPT ![r] = "running"]
    /\ phase' = [phase EXCEPT ![r] = "sleeping"]
    /\ wakeAt' = [wakeAt EXCEPT ![r] = now]
    /\ UNCHANGED <<now, socketOf, destroyed, listeners, outcome, aborted, asked,
                   sockVars, poolVars, uncaught>>

\* The sockets that the eager check of client c destroys.  now is its clock:
\* the process may be descheduled before it uses the sockets it spared.
Expired_OffByOne(c) ==
    {s \in FreeSockets : Eager /\ Managed /\ s \in known[c]
                           /\ now - freedAt[s] > IdleTTL}
Expired(c) ==
    {s \in FreeSockets : /\ Eager /\ Managed
                         /\ s \in known[c]
                         /\ now - freedAt[s] >= IdleTTL}

\* A request created with a signal that has fired is destroyed at once.
BornDestroyed_Ignored(r) == {}
BornDestroyed(r) == {r} \cap aborted

\* request.on("socket"), ("response"), ("error") and ("close")
Attached(r) == [listeners EXCEPT ![r] = "pool"]

\* sleep(0) is over: the timers due before it have run.  Destroys the expired
\* sockets, creates the request (destroyed at once if its signal has fired)
\* and attaches the listeners.  Nothing else runs meanwhile, but the clock
\* does: a starved process may be descheduled between the check of the
\* sockets, at now, and the choice of one of them, at now'.
WakeUp(r) ==
    LET c == ClientOf[r]
        gone == Expired(c)
    IN  /\ phase[r] = "sleeping"
        /\ LoopIdle
        /\ ~TimerDue(wakeAt[r])
        /\ phase' = [phase EXCEPT ![r] = "waiting"]
        /\ listeners' = Attached(r)
        /\ destroyed' = destroyed \cup BornDestroyed(r)
        /\ known' = [known EXCEPT ![c] = @ \ gone]
        /\ handle' = [handle EXCEPT ![c] =
                        [s \in Sockets |-> IF s \in gone THEN 0 ELSE @[s]]]
        /\ AddRequest(r, gone)
        /\ \E t \in 0 .. MaxLag : CanPass(t) /\ now' = now + t
        /\ UNCHANGED <<socketOf, outcome, op, wakeAt, aborted, asked,
                       httpMessage, freedAt, peerClosed, onTimeout, orphans,
                       uncaught>>

\* onSocketNT for a live request: the 'socket' event, and onSocket.
OnSocket(r) ==
    \E s \in Sockets :
        /\ phase[r] = "waiting"
        /\ holder[s] = r
        /\ r \notin destroyed
        /\ phase' = [phase EXCEPT ![r] = "sent"]
        /\ socketOf' = [socketOf EXCEPT ![r] = s]
        /\ httpMessage' = httpMessage \cup {s}
        /\ armed' = armed \cup {s}
        /\ onTimeout' = Heard(r)
        /\ IF Managed
           THEN /\ known' = [known EXCEPT ![ClientOf[r]] = @ \cup {s}]
                /\ handle' = IdleTimerCleared(ClientOf[r], s)
           ELSE UNCHANGED <<known, handle>>
        /\ UNCHANGED <<now, destroyed, listeners, outcome, op, wakeAt, aborted,
                       asked, st, holder, freedAt, peerClosed, queue, orphans,
                       uncaught>>

\* What hears an 'error' event of r: onError rejects, the listener of onAbort
\* swallows it, and nothing at all is an uncaught exception.
ErrorEvent(r, how) ==
    /\ outcome' = IF listeners[r] = "pool" THEN Settle(r, how) ELSE outcome
    /\ uncaught' = (uncaught \/ listeners[r] = "none")
    /\ listeners' = [listeners EXCEPT ![r] = "none"]
    /\ onTimeout' = Unheard(r)

\* onSocketNT for a request destroyed while it waited: the socket goes back
\* to the agent, the request emits its error.
OnSocketTooLate(r) ==
    \E s \in Sockets :
        /\ phase[r] = "waiting"
        /\ holder[s] = r
        /\ r \in destroyed
        /\ phase' = [phase EXCEPT ![r] = "failed"]
        /\ ErrorEvent(r, "aborted")
        /\ IF st[s] = "busy"
           THEN Freed(s, armed)
           ELSE UNCHANGED <<st, holder, httpMessage, freedAt, armed, queue,
                            handle, orphans>>
        /\ UNCHANGED <<now, socketOf, destroyed, op, wakeAt, aborted, asked,
                       peerClosed, known>>

\* controller.abort(): the ClientRequest destroys its socket unless it is
\* destroyed already, then onAbort runs.  removeRequestListeners resets the
\* timeout of request.socket even if the agent has given it to another
\* request since.
ControllerAbort(r) ==
    IF r \in aborted
    THEN UNCHANGED <<aborted, destroyed, st, listeners, armed, onTimeout, outcome>>
    ELSE /\ aborted' = aborted \cup {r}
         /\ IF phase[r] \in {"idle", "sleeping"}
            THEN UNCHANGED <<destroyed, st, listeners, armed, onTimeout, outcome>>
            ELSE /\ destroyed' = destroyed \cup {r}
                 /\ st' = IF r \in destroyed THEN st ELSE Destroy({socketOf[r]})
                 /\ listeners' = [listeners EXCEPT ![r] = "noop"]
                 /\ armed' = armed \ {socketOf[r]}
                 /\ onTimeout' = Unheard(r)
                 /\ outcome' = Settle(r, "aborted")

-----------------------------------------------------------------------------
(* The operations of NodeBaseConnection *)

\* The catch clause of an operation
Caught_NoAbort(r) ==
    UNCHANGED <<aborted, destroyed, st, listeners, armed, onTimeout, outcome>>
Caught(r) == ControllerAbort(r)

\* query and exec hand out the stream; command, insert and ping drain it.
AfterResponse(r) == IF KindOf[r] = "query" THEN "fulfilled" ELSE "draining"

\* The await of query, exec, command, insert or ping resumes with the
\* settled promise.  A rejection aborts the controller (catch); query, exec
\* and command leave the user's signal behind (finally) and hand out or
\* drain the stream; insert and ping drain it inside the try.
Continue(r) ==
    /\ op[r] = "running"
    /\ outcome[r] # "pending"
    /\ \/ /\ outcome[r] = "response"
          /\ op' = [op EXCEPT ![r] = AfterResponse(r)]
          /\ UNCHANGED <<aborted, destroyed, st, listeners, armed, onTimeout, outcome>>
       \/ /\ outcome[r] # "response"
          /\ op' = [op EXCEPT ![r] = "rejected"]
          /\ Caught(r)
    /\ UNCHANGED <<now, phase, socketOf, wakeAt, asked, holder, httpMessage,
                   freedAt, peerClosed, queue, poolVars, uncaught>>

\* How drainStreamInternal may settle: 'end' resolves, 'error' rejects, and
\* 'close' resolves too, which is all that comes of a response the server has
\* cut if Node.js emits no 'error' for it.  (Node.js does emit 'error' on
\* a response that the client itself destroys while somebody listens.)
Drain_ErrorUnheard(r) == {"fulfilled"}
Drain(r) == IF phase[r] = "ended" THEN {"fulfilled"}
            ELSE {"rejected"} \cup
                 {how \in {"fulfilled"} : socketOf[r] \in peerClosed}

\* The await of the drain resumes.  Only insert and ping await it inside the
\* try: a command that fails here aborts nothing.
Drained(r) ==
    /\ op[r] = "draining"
    /\ phase[r] \in {"ended", "failed"}
    /\ \E how \in Drain(r) :
          /\ op' = [op EXCEPT ![r] = how]
          /\ \/ /\ how = "rejected" /\ KindOf[r] = "insert"
                /\ Caught(r)
             \/ /\ how = "fulfilled" \/ KindOf[r] = "command"
                /\ UNCHANGED <<aborted, destroyed, st, listeners, armed,
                               onTimeout, outcome>>
    /\ UNCHANGED <<now, phase, socketOf, wakeAt, asked, holder, httpMessage,
                   freedAt, peerClosed, queue, poolVars, uncaught>>

\* The user fires the signal passed to the operation.
UserAbort(r) ==
    /\ r \in Abortable \ asked
    /\ op[r] \in {"idle", "running", "draining"} \/ phase[r] = "body"
    /\ asked' = asked \cup {r}
    /\ IF Linked(r)
       THEN ControllerAbort(r)
       ELSE UNCHANGED <<aborted, destroyed, st, listeners, armed, onTimeout, outcome>>
    /\ UNCHANGED <<now, phase, socketOf, op, wakeAt, holder, httpMessage,
                   freedAt, peerClosed, queue, poolVars, uncaught>>

\* ResultSet.close(), or the user destroys the stream.
ConsumerDestroy(r) ==
    /\ op[r] = "fulfilled"
    /\ phase[r] = "body"
    /\ st[socketOf[r]] = "busy"
    /\ LoopIdle
    /\ st' = Destroy({socketOf[r]})
    /\ destroyed' = destroyed \cup {r}
    /\ UNCHANGED <<now, phase, socketOf, listeners, outcome, op, wakeAt, aborted,
                   asked, holder, httpMessage, freedAt, peerClosed, armed,
                   onTimeout, queue, poolVars, uncaught>>

\* client.close(): agent.destroy()
CloseClient ==
    /\ MayClose
    /\ \E s \in Sockets : st[s] \in {"busy", "free"}
    /\ st' = Destroy(Sockets)
    /\ UNCHANGED <<now, reqVars, holder, httpMessage, freedAt, peerClosed, armed,
                   onTimeout, queue, poolVars, uncaught>>

-----------------------------------------------------------------------------
(* Events of the socket *)

\* r is on its socket, and the socket is usable.
InFlight(r) ==
    /\ phase[r] \in {"sent", "body", "errbody"}
    /\ socketOf[r] # None
    /\ st[socketOf[r]] = "busy"

\* onResponse.  An undecodable response rejects and is left unread.
Response(r) ==
    /\ phase[r] = "sent"
    /\ InFlight(r)
    /\ socketOf[r] \notin peerClosed
    /\ LoopIdle
    /\ \/ /\ "ok" \in Replies
          /\ phase' = [phase EXCEPT ![r] = "body"]
          /\ outcome' = Settle(r, "response")
       \/ /\ "error" \in Replies
          /\ phase' = [phase EXCEPT ![r] = "errbody"]
          /\ UNCHANGED outcome
       \/ /\ "undecodable" \in Replies
          /\ phase' = [phase EXCEPT ![r] = "body"]
          /\ outcome' = Settle(r, "undecodable")
    /\ UNCHANGED <<now, socketOf, destroyed, listeners, op, wakeAt, aborted,
                   asked, sockVars, poolVars, uncaught>>

\* The response is received to its end and read.  With keep-alive the request
\* emits 'close' (onClose), then the socket emits 'free'; if the client or
\* the server declined keep-alive the socket is closed.  The text of an error
\* response rejects the promise.
BodyEnd(r) ==
    /\ phase[r] \in {"body", "errbody"}
    /\ InFlight(r)
    /\ socketOf[r] \notin peerClosed
    /\ LoopIdle
    /\ phase' = [phase EXCEPT ![r] = "ended"]
    /\ outcome' = IF phase[r] = "errbody" THEN Settle(r, "server") ELSE outcome
    /\ \/ /\ KeepAlive
          /\ destroyed' = destroyed \cup {r}
          /\ listeners' = [listeners EXCEPT ![r] = "none"]
          /\ onTimeout' = Unheard(r)
          /\ Freed(socketOf[r], armed \ {socketOf[r]})
       \/ /\ ~KeepAlive \/ "close" \in Replies
          /\ st' = Destroy({socketOf[r]})
          /\ UNCHANGED <<destroyed, listeners, onTimeout, holder, httpMessage,
                         freedAt, armed, queue, handle, orphans>>
    /\ UNCHANGED <<now, socketOf, op, wakeAt, aborted, asked, peerClosed, known,
                   uncaught>>

\* onTimeout of the request timeout
RequestTimeout(r) ==
    LET s == socketOf[r]
    IN  /\ r \in onTimeout
        /\ s \in armed
        /\ st[s] = "busy"
        /\ LoopIdle
        /\ armed' = armed \ {s}
        /\ onTimeout' = Unheard(r)
        /\ listeners' = [listeners EXCEPT ![r] = "none"]
        /\ destroyed' = destroyed \cup {r}
        /\ st' = IF r \in destroyed THEN st ELSE Destroy({s})
        /\ outcome' = Settle(r, "timeout")
        /\ UNCHANGED <<now, phase, socketOf, op, wakeAt, aborted, asked, holder,
                       httpMessage, freedAt, peerClosed, queue, poolVars, uncaught>>

\* The stream of values of an insert or an exec fails while it is sent: the
\* callback of pipeStream, and the pipeline destroys the request.
SourceError(r) ==
    /\ KindOf[r] \in {"insert", "query"}
    /\ phase[r] = "sent"
    /\ InFlight(r)
    /\ LoopIdle
    /\ armed' = armed \ {socketOf[r]}
    /\ onTimeout' = Unheard(r)
    /\ listeners' = [listeners EXCEPT ![r] = "none"]
    /\ destroyed' = destroyed \cup {r}
    /\ st' = Destroy({socketOf[r]})
    /\ outcome' = Settle(r, "source")
    /\ UNCHANGED <<now, phase, socketOf, op, wakeAt, aborted, asked, holder,
                   httpMessage, freedAt, peerClosed, queue, poolVars, uncaught>>

\* The connection breaks while a request uses it.
PeerReset(s) ==
    /\ PeerMayReset
    /\ st[s] = "busy"
    /\ s \notin peerClosed
    /\ LoopIdle
    /\ peerClosed' = peerClosed \cup {s}
    /\ UNCHANGED <<now, reqVars, st, holder, httpMessage, freedAt, armed,
                   onTimeout, queue, poolVars, uncaught>>

\* The server closes an idle connection.
ServerIdleClose(s) ==
    /\ st[s] = "free"
    /\ s \notin peerClosed
    /\ now >= freedAt[s] + ServerTTL
    /\ LoopIdle
    /\ peerClosed' = peerClosed \cup {s}
    /\ UNCHANGED <<now, reqVars, st, holder, httpMessage, freedAt, armed,
                   onTimeout, queue, poolVars, uncaught>>

\* The client learns that the peer has closed the connection.
NoticeClose(s) ==
    /\ s \in peerClosed
    /\ st[s] \in {"busy", "free"}
    /\ LoopIdle
    /\ st' = Destroy({s})
    /\ UNCHANGED <<now, reqVars, holder, httpMessage, freedAt, peerClosed, armed,
                   onTimeout, queue, poolVars, uncaught>>

InPhase(P) == {r \in Requests : phase[r] \in P}

\* 'close' of a destroyed socket: the pools that know it clear its idle timer
\* (cleanup), its request fails, and the agent opens a socket for the head of
\* its queue.
SocketClose(s) ==
    LET r == holder[s]
        dead == [st EXCEPT ![s] = "dead"]
    IN  /\ st[s] = "closing"
        /\ LoopIdle
        /\ handle' = [c \in Clients |-> IF s \in known[c]
                                        THEN [handle[c] EXCEPT ![s] = 0]
                                        ELSE handle[c]]
        /\ \/ /\ r \in InPhase({"sent"})
              /\ ErrorEvent(r, "network")
              /\ phase' = [phase EXCEPT ![r] = "failed"]
              /\ destroyed' = destroyed \cup {r}
           \/ /\ r \in InPhase({"errbody", "body", "ended"})
              /\ outcome' = IF phase[r] = "errbody" THEN Settle(r, "network")
                                                    ELSE outcome
              /\ phase' = [phase EXCEPT ![r] = IF @ = "ended" THEN @ ELSE "failed"]
              /\ destroyed' = destroyed \cup {r}
              /\ onTimeout' = Unheard(r)
              /\ listeners' = [listeners EXCEPT ![r] = IF @ = "pool" THEN "none" ELSE @]
              /\ UNCHANGED uncaught
           \/ /\ r \notin InPhase({"sent", "errbody", "body", "ended"})
              /\ UNCHANGED <<outcome, phase, destroyed, onTimeout, listeners, uncaught>>
        /\ \/ /\ queue = <<>>
              /\ st' = dead
              /\ holder' = [holder EXCEPT ![s] = None]
              /\ armed' = armed \ {s}
              /\ UNCHANGED queue
           \/ /\ queue # <<>>
              /\ \E u \in Sockets :
                    /\ NextUnborn(u)
                    /\ st' = [dead EXCEPT ![u] = "busy"]
                    /\ holder' = [holder EXCEPT ![s] = None, ![u] = Head(queue)]
                    /\ armed' = (armed \ {s}) \cup {u}
              /\ queue' = Dequeued
        /\ UNCHANGED <<now, socketOf, op, wakeAt, aborted, asked, httpMessage,
                       freedAt, peerClosed, known, orphans>>

-----------------------------------------------------------------------------
(* The idle timers and the clock *)

\* The timer in idle_timeout_handle fires.
IdleTimeout(c, s) ==
    /\ handle[c][s] # 0
    /\ handle[c][s] <= now
    /\ LoopIdle
    /\ handle' = [handle EXCEPT ![c][s] = 0]
    /\ known' = [known EXCEPT ![c] = @ \ {s}]
    /\ st' = Destroy({s})
    /\ UNCHANGED <<now, reqVars, holder, httpMessage, freedAt, peerClosed, armed,
                   onTimeout, queue, orphans, uncaught>>

\* A timer that nothing refers to any more fires.
OrphanTimeout(o) ==
    /\ o[3] <= now
    /\ LoopIdle
    /\ orphans' = orphans \ {o}
    /\ known' = [known EXCEPT ![o[1]] = @ \ {o[2]}]
    /\ st' = Destroy({o[2]})
    /\ UNCHANGED <<now, reqVars, holder, httpMessage, freedAt, peerClosed, armed,
                   onTimeout, queue, handle, uncaught>>

\* Time passes between two macrotasks.
Tick ==
    /\ LoopIdle
    /\ CanPass(1)
    /\ now' = now + 1
    /\ UNCHANGED <<reqVars, sockVars, poolVars, uncaught>>

RequestStep(r) ==
    \/ Call(r) \/ WakeUp(r) \/ OnSocket(r) \/ OnSocketTooLate(r)
    \/ Continue(r) \/ Drained(r) \/ UserAbort(r) \/ ConsumerDestroy(r)
    \/ Response(r) \/ BodyEnd(r) \/ RequestTimeout(r) \/ SourceError(r)

SocketStep(s) ==
    \/ PeerReset(s) \/ ServerIdleClose(s) \/ NoticeClose(s) \/ SocketClose(s)
    \/ \E c \in Clients : IdleTimeout(c, s)

Next ==
    \/ \E r \in Requests : RequestStep(r)
    \/ \E s \in Sockets : SocketStep(s)
    \/ \E o \in orphans : OrphanTimeout(o)
    \/ CloseClient
    \/ Tick

Spec == Init /\ [][Next]_vars

\* The event loop runs what is due.  Nothing is assumed of the users, of the
\* server or of the network, nor that time passes.
Fairness ==
    /\ \A r \in Requests :
          /\ WF_vars(WakeUp(r))
          /\ WF_vars(OnSocket(r) \/ OnSocketTooLate(r))
          /\ WF_vars(Continue(r) \/ Drained(r))
          /\ WF_vars(RequestTimeout(r))
    /\ \A s \in Sockets :
          /\ WF_vars(SocketClose(s))
          /\ \A c \in Clients : WF_vars(IdleTimeout(c, s))
    /\ WF_vars(\E o \in orphans : OrphanTimeout(o))

FairSpec == Spec /\ Fairness

-----------------------------------------------------------------------------
(* Properties *)

\* While a request uses a socket, no idle timer that could destroy it runs:
\* onSocket clears the timer the 'free' listener started.
NoTimerOnBusySocket ==
    \A r \in Requests : InFlight(r) =>
        /\ \A c \in Clients : handle[c][socketOf[r]] = 0
        /\ \A o \in orphans : o[2] # socketOf[r]

\* A kept socket is handed to a request.
Reused(s) == st[s] = "free" /\ st'[s] = "busy"

\* What sleep(0) buys: however late the timers run, a socket that was past
\* its idle TTL when the operation was started is never handed to it.
FreshWhenCalled ==
    [][\A s \in Sockets : Reused(s) =>
          freedAt[s] + IdleTTL > wakeAt[holder'[s]]]_vars

\* What eagerly_destroy_stale_sockets adds, however late the timers run: a
\* socket that is past its idle TTL when it is handed out is so by less than
\* the time for which the process was descheduled since it checked the
\* sockets.  The check is racy on a starved machine, as its comment says; this
\* is all that the race can cost.
OverdueOnlyByStall ==
    [][\A s \in Sockets :
          Reused(s) => now' < freedAt[s] + IdleTTL + (now' - now)]_vars

\* A request that uses a socket has its request timeout running on it, and
\* the timeout of a socket is heard by the request that uses it and by nobody
\* else: a request never times out on behalf of another.
TimeoutHeardByOwner ==
    /\ \A r \in onTimeout : holder[socketOf[r]] = r
    /\ \A r \in Requests :
          InFlight(r) /\ r \notin destroyed
              => r \in onTimeout /\ socketOf[r] \in armed

\* Whatever fails and in whatever order, no 'error' event goes unheard, and a
\* "socket hang up" is the peer's doing: the client never destroys a socket
\* under a request except to abort it or to time it out.
ErrorsHeardAndTrue ==
    /\ ~uncaught
    /\ \A r \in Requests : outcome[r] = "network" => socketOf[r] \in peerClosed

\* Every socket the agent keeps has its idle timer running in some pool, due
\* idle_socket_ttl after the socket was freed.
KeptSocketsExpire ==
    Managed => \A s \in FreeSockets : \E c \in Clients :
                  s \in known[c] /\ handle[c][s] = freedAt[s] + IdleTTL

\* An operation that was rejected leaves no socket in use.
RejectedHoldsNoSocket ==
    LoopIdle =>
        \A s \in Sockets :
            st[s] = "busy" => holder[s] # None /\ op[holder[s]] # "rejected"

\* A command or an insert is reported as done only when its response began
\* and was received to the end, or was cut by the server: drainStream resolves
\* on a 'close' without 'end' and says that it means to.  No abort, timeout,
\* idle timer or client.close() that cuts a response short is taken for the
\* end of it.
DoneMeansReceived ==
    \A r \in Requests :
        op[r] = "fulfilled" /\ KindOf[r] # "query" =>
            /\ outcome[r] = "response"
            /\ phase[r] = "ended" \/ socketOf[r] \in peerClosed

\* An aborted request that has no socket yet is never sent, and an operation
\* aborted before its response never succeeds.
AbortRejects ==
    [][\A r \in aborted :
          /\ phase[r] \in {"sleeping", "waiting"} => phase'[r] # "sent"
          /\ outcome[r] = "aborted" => op'[r] # "fulfilled"]_vars

\* Every operation settles, with no help from the server.
EveryOpSettles ==
    \A r \in Requests : op[r] = "running" ~> op[r] \in {"fulfilled", "rejected"}

\* A response nobody reads does not keep its socket for ever.
AbandonedStreamReleased ==
    \A r \in Requests : phase[r] = "body" ~> phase[r] \in {"ended", "failed"}

=============================================================================
