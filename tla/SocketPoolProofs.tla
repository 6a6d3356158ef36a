--------------------------- MODULE SocketPoolProofs ---------------------------
(* Theorems about SocketPool, for every number of requests, sockets and      *)
(* clients, every bound of the clock and every configuration.                *)
EXTENDS SocketPool, SequenceTheorems, TLAPS

\* Rejecting or resolving a promise leaves the table of outcomes a table.
LEMMA SettleType ==
    ASSUME outcome \in [Requests -> Outcomes], NEW r \in Requests, NEW how \in Outcomes
    PROVE  Settle(r, how) \in [Requests -> Outcomes]
  BY DEF Settle

\* The head and the rest of a queue that is not empty.
LEMMA QueueType ==
    ASSUME queue \in Seq(Requests), queue # <<>>
    PROVE  Head(queue) \in Requests /\ Dequeued \in Seq(Requests)
  BY HeadTailProperties DEF Dequeued

\* Names of the outcomes that the actions use.
LEMMA OutcomeNames ==
    {"pending", "response", "server", "undecodable", "timeout", "aborted",
     "network", "source"} \subseteq Outcomes
  BY DEF Outcomes

LEMMA DestroyType ==
    ASSUME SocketsOK, NEW S
    PROVE  Destroy(S) \in [Sockets -> {"unborn", "busy", "free", "closing", "dead"}]
  BY DEF SocketsOK, Destroy

\* What ControllerAbort may do to the types.
LEMMA AbortTypes ==
    ASSUME TypeOK, NEW r \in Requests, ControllerAbort(r)
    PROVE  /\ aborted' \subseteq Requests
           /\ destroyed' \subseteq Requests
           /\ st' \in [Sockets -> {"unborn", "busy", "free", "closing", "dead"}]
           /\ listeners' \in [Requests -> {"none", "pool", "noop"}]
           /\ armed' \subseteq Sockets
           /\ onTimeout' \subseteq Requests
           /\ outcome' \in [Requests -> Outcomes]
  <1>1. outcome' \in [Requests -> Outcomes]
    BY SettleType, OutcomeNames DEF TypeOK, RequestsOK, ControllerAbort
  <1>2. st' \in [Sockets -> {"unborn", "busy", "free", "closing", "dead"}]
    BY DestroyType DEF TypeOK, SocketsOK, ControllerAbort
  <1> QED
    BY <1>1, <1>2, ZenonT(60) DEF TypeOK, RequestsOK, SocketsOK, ControllerAbort, Unheard

\* What Freed may do to the types.
LEMMA FreedTypes ==
    ASSUME TypeOK, NEW s \in Sockets, NEW running \in SUBSET Sockets,
           Freed(s, running)
    PROVE  /\ st' \in [Sockets -> {"unborn", "busy", "free", "closing", "dead"}]
           /\ holder' \in [Sockets -> Requests \cup {None}]
           /\ httpMessage' \subseteq Sockets
           /\ freedAt' \in [Sockets -> Nat]
           /\ armed' \subseteq Sockets
           /\ queue' \in Seq(Requests)
           /\ handle' \in [Clients -> [Sockets -> Nat]]
           /\ orphans' \subseteq Clients \X Sockets \X Nat
  <1>1. st' \in [Sockets -> {"unborn", "busy", "free", "closing", "dead"}]
    BY DEF TypeOK, SocketsOK, Freed
  <1>2. holder' \in [Sockets -> Requests \cup {None}] /\ queue' \in Seq(Requests)
    BY QueueType DEF TypeOK, SocketsOK, Freed
  <1>3. httpMessage' \subseteq Sockets /\ armed' \subseteq Sockets
    BY DEF TypeOK, SocketsOK, Freed
  <1>4. freedAt' \in [Sockets -> Nat]
    BY DEF TypeOK, SocketsOK, Freed
  <1>5. handle' \in [Clients -> [Sockets -> Nat]]
    <2>1. now + IdleTTL \in Nat
      BY ConfigAssumption DEF TypeOK
    <2> QED
      BY <2>1 DEF TypeOK, PoolsOK, Freed, IdleTimerStarted
  <1>6. orphans' \subseteq Clients \X Sockets \X Nat
    BY DEF TypeOK, PoolsOK, Freed
  <1> QED
    BY <1>1, <1>2, <1>3, <1>4, <1>5, <1>6

\* What asking the agent for a socket may do to the types.
LEMMA AddRequestTypes ==
    ASSUME TypeOK, NEW r \in Requests, NEW gone \in SUBSET Sockets, AddRequest(r, gone)
    PROVE  /\ st' \in [Sockets -> {"unborn", "busy", "free", "closing", "dead"}]
           /\ holder' \in [Sockets -> Requests \cup {None}]
           /\ armed' \subseteq Sockets
           /\ queue' \in Seq(Requests)
  <1> DEFINE left == [s \in Sockets |-> IF s \in gone THEN "closing" ELSE st[s]]
  <1>1. left \in [Sockets -> {"unborn", "busy", "free", "closing", "dead"}]
    BY DEF TypeOK, SocketsOK
  <1>2. CASE \E s \in Sockets : GiveSocket(r, s, left)
    BY <1>1, <1>2 DEF TypeOK, SocketsOK, GiveSocket
  <1>3. CASE /\ queue' = Enqueued(r)
             /\ st' = left
             /\ UNCHANGED <<holder, armed>>
    BY <1>1, <1>3, AppendProperties DEF TypeOK, SocketsOK, Enqueued
  <1> QED
    BY <1>2, <1>3 DEF AddRequest, FreeSockets

\* What an 'error' event may do to the types.
LEMMA ErrorTypes ==
    ASSUME TypeOK, NEW r \in Requests, NEW how \in Outcomes, ErrorEvent(r, how)
    PROVE  /\ outcome' \in [Requests -> Outcomes]
           /\ listeners' \in [Requests -> {"none", "pool", "noop"}]
           /\ onTimeout' \subseteq Requests
           /\ uncaught' \in BOOLEAN
  <1>1. outcome' \in [Requests -> Outcomes]
    BY SettleType DEF TypeOK, RequestsOK, ErrorEvent
  <1>2. uncaught' \in BOOLEAN
    BY Zenon DEF ErrorEvent
  <1> QED
    BY <1>1, <1>2 DEF TypeOK, RequestsOK, SocketsOK, ErrorEvent, Unheard

\* Only an existing socket is in use.
LEMMA BusyHasSocket ==
    ASSUME TypeOK, NEW r \in Requests, InFlight(r)
    PROVE  socketOf[r] \in Sockets
  BY DEF TypeOK, RequestsOK, InFlight

\* The initial values have their types.
LEMMA InitTypes == Init => TypeOK
<1> SUFFICES ASSUME Init PROVE TypeOK
  OBVIOUS
<1>1. RequestsOK
  BY DEF Init, RequestsOK, Phases, Outcomes
<1>2. SocketsOK
  BY DEF Init, SocketsOK
<1>3. PoolsOK
  BY DEF Init, PoolsOK
<1>4. now \in Nat \ {0}
  BY DEF Init
<1>5. uncaught \in BOOLEAN
  BY Zenon DEF Init
<1> QED
  BY <1>1, <1>2, <1>3, <1>4, <1>5 DEF TypeOK

\* Every step keeps the types.
LEMMA StepTypes == TypeOK /\ [Next]_vars => TypeOK'
<1> SUFFICES ASSUME TypeOK, [Next]_vars PROVE TypeOK'
  OBVIOUS
<1> USE ConfigAssumption
<1>1. CASE \E r \in Requests : RequestStep(r)
  <2> PICK r \in Requests : RequestStep(r)
    BY <1>1
  <2>1. CASE Call(r)
    BY <2>1 DEF TypeOK, RequestsOK, SocketsOK, PoolsOK, Phases, Call, sockVars, poolVars
  <2>2. CASE WakeUp(r)
    <3>1. RequestsOK'
      BY <2>2 DEF TypeOK, RequestsOK, Phases, WakeUp, BornDestroyed, Attached
    <3>2. PoolsOK'
      BY <2>2 DEF TypeOK, PoolsOK, WakeUp
    <3>3. SocketsOK'
      BY <2>2, AddRequestTypes DEF TypeOK, SocketsOK, WakeUp, Expired, FreeSockets
    <3>4. now' \in Nat \ {0}
      BY <2>2 DEF TypeOK, WakeUp
    <3> QED
      BY <2>2, <3>1, <3>2, <3>3, <3>4 DEF TypeOK, WakeUp
  <2>3. CASE OnSocket(r)
    <3>1. RequestsOK'
      BY <2>3 DEF TypeOK, RequestsOK, Phases, OnSocket
    <3>2. SocketsOK'
      <4>1. /\ httpMessage' \subseteq Sockets /\ armed' \subseteq Sockets
            /\ onTimeout' \subseteq Requests
        BY <2>3 DEF TypeOK, SocketsOK, OnSocket, Heard
      <4>2. UNCHANGED <<st, holder, freedAt, peerClosed, queue>>
        BY <2>3 DEF OnSocket
      <4> QED
        BY <4>1, <4>2 DEF TypeOK, SocketsOK
    <3>3. PoolsOK'
      <4>1. CASE Managed
        <5> PICK s \in Sockets :
              /\ known' = [known EXCEPT ![ClientOf[r]] = @ \cup {s}]
              /\ handle' = IdleTimerCleared(ClientOf[r], s)
          BY <2>3, <4>1 DEF OnSocket
        <5>1. known' \in [Clients -> SUBSET Sockets]
          BY DEF TypeOK, PoolsOK
        <5>2. handle' \in [Clients -> [Sockets -> Nat]]
          BY DEF TypeOK, PoolsOK, IdleTimerCleared
        <5> QED
          BY <2>3, <5>1, <5>2 DEF TypeOK, PoolsOK, OnSocket
      <4>2. CASE ~Managed
        BY <2>3, <4>2 DEF TypeOK, PoolsOK, OnSocket
      <4> QED
        BY <4>1, <4>2
    <3> QED
      BY <2>3, <3>1, <3>2, <3>3 DEF TypeOK, OnSocket
  <2>4. CASE OnSocketTooLate(r)
    <3> PICK s \in Sockets :
            IF st[s] = "busy"
            THEN Freed(s, armed)
            ELSE UNCHANGED <<st, holder, httpMessage, freedAt, armed, queue,
                             handle, orphans>>
      BY <2>4 DEF OnSocketTooLate
    <3>1. ErrorEvent(r, "aborted")
      BY <2>4 DEF OnSocketTooLate
    <3>2. RequestsOK' /\ uncaught' \in BOOLEAN
      BY <2>4, <3>1, ErrorTypes, OutcomeNames DEF TypeOK, RequestsOK, Phases, OnSocketTooLate
    <3>3. onTimeout' \subseteq Requests
      BY <3>1, ErrorTypes, OutcomeNames
    <3>4. CASE st[s] = "busy"
      <4>1. Freed(s, armed) /\ armed \in SUBSET Sockets
        BY <3>4 DEF TypeOK, SocketsOK
      <4> QED
        BY <2>4, <3>2, <3>3, <4>1, FreedTypes DEF TypeOK, SocketsOK, PoolsOK, OnSocketTooLate
    <3>5. CASE st[s] # "busy"
      BY <2>4, <3>2, <3>3, <3>5 DEF TypeOK, SocketsOK, PoolsOK, OnSocketTooLate
    <3> QED
      BY <3>4, <3>5
  <2>5. CASE Continue(r)
    <3>0. op' \in [Requests -> {"idle", "running", "draining", "fulfilled", "rejected"}]
      BY <2>5 DEF TypeOK, RequestsOK, Continue, AfterResponse
    <3>1. CASE ControllerAbort(r)
      BY <2>5, <3>1, <3>0, AbortTypes DEF TypeOK, RequestsOK, SocketsOK, PoolsOK, Continue, poolVars
    <3>2. CASE UNCHANGED <<aborted, destroyed, st, listeners, armed, onTimeout, outcome>>
      BY <2>5, <3>2, <3>0 DEF TypeOK, RequestsOK, SocketsOK, PoolsOK, Continue, poolVars
    <3> QED
      BY <2>5, <3>1, <3>2 DEF Continue, Caught
  <2>6. CASE Drained(r)
    <3>0. op' \in [Requests -> {"idle", "running", "draining", "fulfilled", "rejected"}]
      BY <2>6 DEF TypeOK, RequestsOK, Drained, Drain
    <3>1. CASE ControllerAbort(r)
      BY <2>6, <3>1, <3>0, AbortTypes DEF TypeOK, RequestsOK, SocketsOK, PoolsOK, Drained, poolVars
    <3>2. CASE UNCHANGED <<aborted, destroyed, st, listeners, armed, onTimeout, outcome>>
      BY <2>6, <3>2, <3>0 DEF TypeOK, RequestsOK, SocketsOK, PoolsOK, Drained, poolVars
    <3> QED
      BY <2>6, <3>1, <3>2 DEF Drained, Caught
  <2>7. CASE UserAbort(r)
    BY <2>7, AbortTypes DEF TypeOK, RequestsOK, SocketsOK, PoolsOK, UserAbort, poolVars
  <2>8. CASE ConsumerDestroy(r)
    BY <2>8 DEF TypeOK, RequestsOK, SocketsOK, PoolsOK, ConsumerDestroy, Destroy, reqVars, poolVars
  <2>9. CASE Response(r)
    <3>1. outcome' \in [Requests -> Outcomes]
      BY <2>9, SettleType, OutcomeNames DEF TypeOK, RequestsOK, Response
    <3>2. phase' \in [Requests -> Phases]
      BY <2>9 DEF TypeOK, RequestsOK, Phases, Response
    <3> QED
      BY <2>9, <3>1, <3>2 DEF TypeOK, RequestsOK, SocketsOK, PoolsOK, Response, sockVars, poolVars
  <2>10. CASE BodyEnd(r)
    <3>1. outcome' \in [Requests -> Outcomes]
      BY <2>10, SettleType, OutcomeNames DEF TypeOK, RequestsOK, BodyEnd
    <3>2. phase' \in [Requests -> Phases]
      BY <2>10 DEF TypeOK, RequestsOK, Phases, BodyEnd
    <3>3. RequestsOK' /\ onTimeout' \subseteq Requests
      BY <2>10, <3>1, <3>2, SMTT(40) DEF TypeOK, RequestsOK, SocketsOK, BodyEnd, Unheard
    <3>4. socketOf[r] \in Sockets
      BY <2>10, BusyHasSocket DEF BodyEnd, InFlight
    <3>5. CASE Freed(socketOf[r], armed \ {socketOf[r]})
      <4>1. armed \ {socketOf[r]} \in SUBSET Sockets
        BY DEF TypeOK, SocketsOK
      <4> QED
        BY <2>10, <3>3, <3>4, <3>5, <4>1, FreedTypes DEF TypeOK, SocketsOK, PoolsOK, BodyEnd
    <3>6. CASE /\ st' = Destroy({socketOf[r]})
               /\ UNCHANGED <<holder, httpMessage, freedAt, armed, queue, handle, orphans>>
      BY <2>10, <3>3, <3>6, DestroyType DEF TypeOK, SocketsOK, PoolsOK, BodyEnd
    <3> QED
      BY <2>10, <3>5, <3>6 DEF BodyEnd
  <2>11. CASE RequestTimeout(r)
    BY <2>11 DEF TypeOK, RequestsOK, SocketsOK, PoolsOK, Outcomes, RequestTimeout, Settle,
                 Unheard, Destroy, poolVars
  <2>12. CASE SourceError(r)
    BY <2>12 DEF TypeOK, RequestsOK, SocketsOK, PoolsOK, Outcomes, SourceError, Settle,
                 Unheard, Destroy, poolVars
  <2> QED
    BY <2>1, <2>2, <2>3, <2>4, <2>5, <2>6, <2>7, <2>8, <2>9, <2>10, <2>11,
       <2>12 DEF RequestStep
<1>2. CASE \E s \in Sockets : SocketStep(s)
  <2> PICK s \in Sockets : SocketStep(s)
    BY <1>2
  <2>1. CASE PeerReset(s)
    BY <2>1 DEF TypeOK, RequestsOK, SocketsOK, PoolsOK, PeerReset, reqVars, poolVars
  <2>2. CASE ServerIdleClose(s)
    BY <2>2 DEF TypeOK, RequestsOK, SocketsOK, PoolsOK, ServerIdleClose, reqVars, poolVars
  <2>3. CASE NoticeClose(s)
    BY <2>3 DEF TypeOK, RequestsOK, SocketsOK, PoolsOK, NoticeClose, Destroy, reqVars, poolVars
  <2>4. CASE SocketClose(s)
    <3>1. PoolsOK'
      BY <2>4 DEF TypeOK, PoolsOK, SocketClose
    <3>2. SocketsOK'
      <4>1. onTimeout' \subseteq Requests
        BY <2>4 DEF TypeOK, SocketsOK, SocketClose, ErrorEvent, Unheard
      <4>2. CASE queue = <<>>
        BY <2>4, <4>1, <4>2 DEF TypeOK, SocketsOK, SocketClose
      <4>3. CASE queue # <<>>
        <5> PICK u \in Sockets :
              /\ st' = [[st EXCEPT ![s] = "dead"] EXCEPT ![u] = "busy"]
              /\ holder' = [holder EXCEPT ![s] = None, ![u] = Head(queue)]
              /\ armed' = (armed \ {s}) \cup {u}
          BY <2>4, <4>3 DEF SocketClose
        <5>1. Head(queue) \in Requests /\ queue' \in Seq(Requests)
          BY <2>4, <4>3, QueueType DEF TypeOK, SocketsOK, SocketClose
        <5>2. holder' \in [Sockets -> Requests \cup {None}]
          BY <5>1 DEF TypeOK, SocketsOK
        <5>3. st' \in [Sockets -> {"unborn", "busy", "free", "closing", "dead"}]
          BY DEF TypeOK, SocketsOK
        <5> QED
          BY <2>4, <4>1, <5>1, <5>2, <5>3, ZenonT(60) DEF TypeOK, SocketsOK, SocketClose
      <4> QED
        BY <4>2, <4>3
    <3>3. RequestsOK' /\ uncaught' \in BOOLEAN
      <4>1. CASE holder[s] \in InPhase({"sent"}) /\ ErrorEvent(holder[s], "network")
        BY <2>4, <4>1, ErrorTypes, OutcomeNames
           DEF TypeOK, RequestsOK, Phases, SocketClose, InPhase
      <4>2. CASE holder[s] \in InPhase({"errbody", "body", "ended"})
        <5>1. outcome' \in [Requests -> Outcomes]
          <6>1. Settle(holder[s], "network") \in [Requests -> Outcomes]
            BY <4>2, SettleType, OutcomeNames DEF TypeOK, RequestsOK, InPhase
          <6> QED
            BY <2>4, <4>2, <6>1 DEF TypeOK, RequestsOK, SocketClose, InPhase
        <5> QED
          BY <2>4, <4>2, <5>1, ZenonT(60) DEF TypeOK, RequestsOK, Phases, SocketClose, InPhase
      <4>3. CASE UNCHANGED <<outcome, phase, destroyed, onTimeout, listeners, uncaught>>
        BY <2>4, <4>3 DEF TypeOK, RequestsOK, SocketClose
      <4> QED
        BY <2>4, <4>1, <4>2, <4>3 DEF SocketClose
    <3> QED
      BY <2>4, <3>1, <3>2, <3>3 DEF TypeOK, SocketClose
  <2>5. CASE \E c \in Clients : IdleTimeout(c, s)
    <3> PICK c \in Clients : IdleTimeout(c, s)
      BY <2>5
    <3>1. PoolsOK'
      BY DEF TypeOK, PoolsOK, IdleTimeout
    <3>2. SocketsOK'
      BY DestroyType DEF TypeOK, SocketsOK, IdleTimeout
    <3> QED
      BY <3>1, <3>2 DEF TypeOK, RequestsOK, IdleTimeout, reqVars
  <2> QED
    BY <2>1, <2>2, <2>3, <2>4, <2>5 DEF SocketStep
<1>3. CASE \E o \in orphans : OrphanTimeout(o)
  <2> PICK o \in orphans : OrphanTimeout(o)
    BY <1>3
  <2>1. PoolsOK'
    BY DEF TypeOK, PoolsOK, OrphanTimeout
  <2>2. SocketsOK'
    BY DestroyType DEF TypeOK, SocketsOK, OrphanTimeout
  <2> QED
    BY <2>1, <2>2 DEF TypeOK, RequestsOK, OrphanTimeout, reqVars
<1>4. CASE CloseClient
  BY <1>4 DEF TypeOK, RequestsOK, SocketsOK, PoolsOK, CloseClient, Destroy, reqVars, poolVars
<1>5. CASE Tick
  BY <1>5 DEF TypeOK, RequestsOK, SocketsOK, PoolsOK, Tick, reqVars, sockVars, poolVars
<1>6. CASE UNCHANGED vars
  BY <1>6 DEF TypeOK, RequestsOK, SocketsOK, PoolsOK, vars, reqVars, sockVars, poolVars
<1> QED
  BY <1>1, <1>2, <1>3, <1>4, <1>5, <1>6 DEF Next

\* Every variable keeps its type: in particular no request is ever queued
\* or given a socket that does not exist.
THEOREM TypeCorrect == Spec => []TypeOK
<1> QED
  BY InitTypes, StepTypes, PTL DEF Spec

-----------------------------------------------------------------------------
(* Who has which socket *)

\* The queue of the agent holds distinct requests that have no socket.
QueueOK ==
    /\ \A i, j \in 1 .. Len(queue) : queue[i] = queue[j] => i = j
    /\ \A i \in 1 .. Len(queue) : phase[queue[i]] = "waiting"
    /\ \A i \in 1 .. Len(queue), s \in Sockets : holder[s] # queue[i]

\* A request has one socket, and only once it has been created.
HoldersOK ==
    /\ \A s, t \in Sockets : holder[s] = holder[t] /\ holder[s] # None => s = t
    /\ \A s \in Sockets :
          holder[s] # None => phase[holder[s]] \notin {"idle", "sleeping"}

LeaseInv ==
    /\ TypeOK
    /\ \A r \in Requests : op[r] = "idle" => phase[r] = "idle"
    /\ QueueOK
    /\ HoldersOK

\* The head of the queue may have a socket that nobody holds.
LEMMA HeadGetsSocket ==
    ASSUME LeaseInv, queue # <<>>, NEW s \in Sockets,
           holder' = [holder EXCEPT ![s] = Head(queue)],
           queue' = Dequeued,
           \A r \in Requests : phase[r] = "waiting" /\ holder[s] # r => phase'[r] = "waiting",
           \A r \in Requests : phase[r] \notin {"idle", "sleeping"}
                                   => phase'[r] \notin {"idle", "sleeping"}
    PROVE  QueueOK' /\ HoldersOK'
  <1>1. /\ Head(queue) = queue[1] /\ Head(queue) \in Requests
        /\ 1 \in 1 .. Len(queue)
        /\ Len(queue') = Len(queue) - 1 /\ Len(queue) \in Nat
        /\ \A i \in 1 .. Len(queue') : queue'[i] = queue[i + 1] /\ i + 1 \in 1 .. Len(queue)
    BY HeadTailProperties, QueueType DEF LeaseInv, TypeOK, SocketsOK, Dequeued
  <1>2. \A i \in 1 .. Len(queue) : queue[i] \in Requests
    BY DEF LeaseInv, TypeOK, SocketsOK
  <1>3. QueueOK'
    <2>1. \A i, j \in 1 .. Len(queue') : queue'[i] = queue'[j] => i = j
      BY <1>1 DEF LeaseInv, QueueOK
    <2>2. \A i \in 1 .. Len(queue') : phase'[queue'[i]] = "waiting"
      BY <1>1, <1>2 DEF LeaseInv, QueueOK
    <2>3. \A i \in 1 .. Len(queue'), t \in Sockets : holder'[t] # queue'[i]
      <3> TAKE i \in 1 .. Len(queue'), t \in Sockets
      <3>1. queue'[i] = queue[i + 1] /\ i + 1 \in 1 .. Len(queue) /\ i + 1 # 1
        BY <1>1
      <3>2. queue[1] # queue[i + 1]
        BY <1>1, <3>1 DEF LeaseInv, QueueOK
      <3>3. holder[t] # queue[i + 1]
        BY <3>1 DEF LeaseInv, QueueOK
      <3> QED
        BY <1>1, <3>1, <3>2, <3>3 DEF LeaseInv, TypeOK, SocketsOK
    <2> QED
      BY <2>1, <2>2, <2>3 DEF QueueOK
  <1>4. HoldersOK'
    BY <1>1, <1>2, ConfigAssumption DEF LeaseInv, QueueOK, HoldersOK, TypeOK, SocketsOK
  <1> QED
    BY <1>3, <1>4

\* A socket is taken back, and the head of the queue gets another one.
LEMMA HeadGetsOther ==
    ASSUME LeaseInv, queue # <<>>, NEW s \in Sockets,
           \E u \in Sockets :
              holder' = [holder EXCEPT ![s] = None, ![u] = Head(queue)],
           queue' = Dequeued,
           \A r \in Requests : phase[r] = "waiting" => phase'[r] = "waiting",
           \A r \in Requests : phase[r] \notin {"idle", "sleeping"}
                                   => phase'[r] \notin {"idle", "sleeping"}
    PROVE  QueueOK' /\ HoldersOK'
  <1> PICK u \in Sockets : holder' = [holder EXCEPT ![s] = None, ![u] = Head(queue)]
    OBVIOUS
  <1>1. /\ Head(queue) = queue[1] /\ Head(queue) \in Requests
        /\ 1 \in 1 .. Len(queue)
        /\ Len(queue') = Len(queue) - 1 /\ Len(queue) \in Nat
        /\ \A i \in 1 .. Len(queue') : queue'[i] = queue[i + 1] /\ i + 1 \in 1 .. Len(queue)
    BY HeadTailProperties, QueueType DEF LeaseInv, TypeOK, SocketsOK, Dequeued
  <1>2. \A i \in 1 .. Len(queue) : queue[i] \in Requests /\ queue[i] # None
    BY ConfigAssumption DEF LeaseInv, TypeOK, SocketsOK
  <1>3. QueueOK'
    <2>1. \A i, j \in 1 .. Len(queue') : queue'[i] = queue'[j] => i = j
      BY <1>1 DEF LeaseInv, QueueOK
    <2>2. \A i \in 1 .. Len(queue') : phase'[queue'[i]] = "waiting"
      BY <1>1, <1>2 DEF LeaseInv, QueueOK
    <2>3. \A i \in 1 .. Len(queue'), t \in Sockets : holder'[t] # queue'[i]
      <3> TAKE i \in 1 .. Len(queue'), t \in Sockets
      <3>1. queue'[i] = queue[i + 1] /\ i + 1 \in 1 .. Len(queue) /\ i + 1 # 1
        BY <1>1
      <3>2. queue[1] # queue[i + 1]
        BY <1>1, <3>1 DEF LeaseInv, QueueOK
      <3>3. holder[t] # queue[i + 1]
        BY <3>1 DEF LeaseInv, QueueOK
      <3> QED
        BY <1>1, <1>2, <3>1, <3>2, <3>3 DEF LeaseInv, TypeOK, SocketsOK
    <2> QED
      BY <2>1, <2>2, <2>3 DEF QueueOK
  <1>4. HoldersOK'
    <2>1. \A t \in Sockets : holder[t] # Head(queue)
      BY <1>1 DEF LeaseInv, QueueOK
    <2>2. \A t \in Sockets : holder'[t] = IF t = u THEN Head(queue)
                                           ELSE IF t = s THEN None ELSE holder[t]
      BY DEF LeaseInv, TypeOK, SocketsOK
    <2>3. \A t, v \in Sockets : holder'[t] = holder'[v] /\ holder'[t] # None => t = v
      BY <2>1, <2>2 DEF LeaseInv, HoldersOK
    <2>4. phase'[Head(queue)] \notin {"idle", "sleeping"}
      BY <1>1 DEF LeaseInv, QueueOK
    <2>5. \A t \in Sockets : holder[t] # None => phase'[holder[t]] \notin {"idle", "sleeping"}
      BY DEF LeaseInv, HoldersOK, TypeOK, SocketsOK
    <2>6. \A t \in Sockets : holder'[t] # None => phase'[holder'[t]] \notin {"idle", "sleeping"}
      BY <2>2, <2>4, <2>5
    <2> QED
      BY <2>3, <2>6 DEF HoldersOK
  <1> QED
    BY <1>3, <1>4

\* Nothing moves in the queue or among the holders.
LEMMA LeasesKept ==
    ASSUME LeaseInv, UNCHANGED <<holder, queue>>,
           \A r \in Requests : phase[r] = "waiting" /\ (\A s \in Sockets : holder[s] # r)
                                   => phase'[r] = "waiting",
           \A r \in Requests : phase[r] \notin {"idle", "sleeping"}
                                   => phase'[r] \notin {"idle", "sleeping"}
    PROVE  QueueOK' /\ HoldersOK'
  <1>1. \A i \in 1 .. Len(queue) : queue[i] \in Requests
    BY DEF LeaseInv, TypeOK, SocketsOK
  <1>2. QueueOK'
    BY <1>1 DEF LeaseInv, QueueOK
  <1>3. HoldersOK'
    BY DEF LeaseInv, HoldersOK, TypeOK, SocketsOK
  <1> QED
    BY <1>2, <1>3

\* A socket that is taken back holds nobody.
LEMMA SocketReleased ==
    ASSUME LeaseInv, NEW s \in Sockets, holder' = [holder EXCEPT ![s] = None],
           UNCHANGED queue,
           \A r \in Requests : phase[r] = "waiting" /\ holder[s] # r => phase'[r] = "waiting",
           \A r \in Requests : phase[r] \notin {"idle", "sleeping"}
                                   => phase'[r] \notin {"idle", "sleeping"}
    PROVE  QueueOK' /\ HoldersOK'
  <1>1. \A i \in 1 .. Len(queue) : queue[i] \in Requests /\ queue[i] # None
    BY ConfigAssumption DEF LeaseInv, TypeOK, SocketsOK
  <1>2. QueueOK'
    BY <1>1, SMTT(40) DEF LeaseInv, QueueOK, TypeOK, SocketsOK
  <1>3. HoldersOK'
    BY ConfigAssumption DEF LeaseInv, HoldersOK, TypeOK, SocketsOK
  <1> QED
    BY <1>2, <1>3

\* socket.emit('free') passes the socket on, keeps it or closes it.
LEMMA FreedLeases ==
    ASSUME LeaseInv, NEW s \in Sockets, NEW running, Freed(s, running),
           \A r \in Requests : phase[r] = "waiting" /\ holder[s] # r => phase'[r] = "waiting",
           \A r \in Requests : phase[r] \notin {"idle", "sleeping"}
                                   => phase'[r] \notin {"idle", "sleeping"}
    PROVE  QueueOK' /\ HoldersOK'
  BY HeadGetsSocket, SocketReleased, LeasesKept DEF Freed

THEOREM LeaseInvariant == Spec => []LeaseInv
<1>1. Init => LeaseInv
  <2> SUFFICES ASSUME Init PROVE LeaseInv
    OBVIOUS
  <2>1. TypeOK
    BY InitTypes
  <2>2. QueueOK
    BY DEF Init, QueueOK
  <2>3. HoldersOK
    BY DEF Init, HoldersOK
  <2> QED
    BY <2>1, <2>2, <2>3 DEF Init, LeaseInv
<1>2. LeaseInv /\ [Next]_vars => LeaseInv'
  <2> SUFFICES ASSUME LeaseInv, [Next]_vars PROVE LeaseInv'
    OBVIOUS
  <2>0. TypeOK /\ TypeOK'
    BY StepTypes DEF LeaseInv
  <2> USE <2>0
  <2>1. ASSUME NEW r \in Requests, RequestStep(r) PROVE LeaseInv'
    <3>1. CASE Call(r)
      <4>1. phase[r] = "idle"
        BY <3>1 DEF Call, LeaseInv
      <4>2. QueueOK' /\ HoldersOK'
        <5>1. \A i \in 1 .. Len(queue) : queue[i] \in Requests /\ queue[i] # r
          BY <4>1 DEF LeaseInv, QueueOK, TypeOK, SocketsOK
        <5>2. \A s \in Sockets : holder[s] # r
          BY <4>1, ConfigAssumption DEF LeaseInv, HoldersOK
        <5>3. QueueOK'
          BY <3>1, <5>1 DEF Call, LeaseInv, QueueOK, TypeOK, RequestsOK, sockVars
        <5>4. HoldersOK'
          BY <3>1, <5>2 DEF Call, LeaseInv, HoldersOK, TypeOK, RequestsOK, sockVars
        <5> QED
          BY <5>3, <5>4
      <4> QED
        BY <3>1, <4>2 DEF Call, LeaseInv, TypeOK, RequestsOK
    <3>2. CASE WakeUp(r)
      <4>1. op' = op /\ phase' = [phase EXCEPT ![r] = "waiting"] /\ phase[r] = "sleeping"
        BY <3>2 DEF WakeUp
      <4>2. \A i \in 1 .. Len(queue) : queue[i] \in Requests /\ queue[i] # r
        BY <4>1 DEF LeaseInv, QueueOK, TypeOK, SocketsOK
      <4>3. \A s \in Sockets : holder[s] # r
        BY <4>1, ConfigAssumption DEF LeaseInv, HoldersOK
      <4>4. QueueOK' /\ HoldersOK'
        <5>1. CASE \E s \in Sockets : /\ holder' = [holder EXCEPT ![s] = r]
                                      /\ UNCHANGED queue
          <6> PICK s \in Sockets : holder' = [holder EXCEPT ![s] = r] /\ UNCHANGED queue
            BY <5>1
          <6>1. \A t \in Sockets : holder'[t] = IF t = s THEN r ELSE holder[t]
            BY DEF TypeOK, SocketsOK
          <6>2. \A q \in Requests : phase'[q] = IF q = r THEN "waiting" ELSE phase[q]
            BY <4>1 DEF TypeOK, RequestsOK
          <6>3. QueueOK'
            <7>1. \A i \in 1 .. Len(queue) : phase'[queue[i]] = "waiting"
              BY <4>2, <6>2 DEF LeaseInv, QueueOK
            <7>2. \A i \in 1 .. Len(queue), t \in Sockets : holder'[t] # queue[i]
              BY <4>2, <6>1 DEF LeaseInv, QueueOK
            <7>3. \A i, j \in 1 .. Len(queue) : queue[i] = queue[j] => i = j
              BY DEF LeaseInv, QueueOK
            <7>4. queue' = queue
              OBVIOUS
            <7> QED
              BY <7>1, <7>2, <7>3, <7>4 DEF QueueOK
          <6>4. \A t, v \in Sockets : holder'[t] = holder'[v] /\ holder'[t] # None => t = v
            BY <4>3, <6>1 DEF LeaseInv, HoldersOK
          <6>5. \A t \in Sockets : holder'[t] # None => phase'[holder'[t]] \notin {"idle", "sleeping"}
            <7> SUFFICES ASSUME NEW t \in Sockets, holder'[t] # None
                         PROVE  phase'[holder'[t]] \notin {"idle", "sleeping"}
              OBVIOUS
            <7>1. CASE t = s
              BY <7>1, <6>1, <6>2
            <7>2. CASE t # s
              <8>1. holder'[t] = holder[t] /\ holder[t] \in Requests
                BY <7>2, <6>1 DEF TypeOK, SocketsOK
              <8>2. phase[holder[t]] \notin {"idle", "sleeping"}
                BY <8>1 DEF LeaseInv, HoldersOK
              <8> QED
                BY <8>1, <8>2, <6>2
            <7> QED
              BY <7>1, <7>2
          <6> QED
            BY <6>3, <6>4, <6>5 DEF HoldersOK
        <5>2. CASE queue' = Enqueued(r) /\ UNCHANGED holder
          <6>1. /\ Len(queue') = Len(queue) + 1 /\ Len(queue) \in Nat
                /\ \A i \in 1 .. Len(queue) : queue'[i] = queue[i]
                /\ queue'[Len(queue) + 1] = r
            BY <5>2, AppendProperties DEF LeaseInv, TypeOK, SocketsOK, Enqueued
          <6>2. \A i \in 1 .. Len(queue') : i \in 1 .. Len(queue) \/ i = Len(queue) + 1
            BY <6>1
          <6>3. QueueOK'
            <7>1. \A i \in 1 .. Len(queue') : queue'[i] = IF i \in 1 .. Len(queue) THEN queue[i] ELSE r
              BY <6>1, <6>2
            <7>2. \A i, j \in 1 .. Len(queue') : queue'[i] = queue'[j] => i = j
              BY <6>2, <7>1, <4>2 DEF LeaseInv, QueueOK
            <7>3. \A i \in 1 .. Len(queue') : phase'[queue'[i]] = "waiting"
              <8>1. \A q \in Requests : phase'[q] = IF q = r THEN "waiting" ELSE phase[q]
                BY <4>1 DEF TypeOK, RequestsOK
              <8> QED
                BY <7>1, <8>1, <4>2 DEF LeaseInv, QueueOK
            <7>4. \A i \in 1 .. Len(queue'), s \in Sockets : holder'[s] # queue'[i]
              BY <5>2, <7>1, <4>3 DEF LeaseInv, QueueOK
            <7> QED
              BY <7>2, <7>3, <7>4 DEF QueueOK
          <6>4. HoldersOK'
            BY <5>2, <4>1, <4>3 DEF LeaseInv, HoldersOK, TypeOK, RequestsOK, SocketsOK
          <6> QED
            BY <6>3, <6>4
        <5> QED
          BY <3>2, <5>1, <5>2 DEF WakeUp, AddRequest, GiveSocket, FreeSockets
      <4> QED
        BY <4>1, <4>4 DEF LeaseInv, TypeOK, RequestsOK
    <3>3. CASE OnSocket(r)
      <4>1. QueueOK' /\ HoldersOK'
        BY <3>3, LeasesKept DEF OnSocket, LeaseInv, TypeOK, RequestsOK
      <4> QED
        BY <3>3, <4>1 DEF OnSocket, LeaseInv, TypeOK, RequestsOK
    <3>4. CASE OnSocketTooLate(r)
      <4> PICK s \in Sockets :
              /\ phase[r] = "waiting"
              /\ holder[s] = r
              /\ phase' = [phase EXCEPT ![r] = "failed"]
              /\ op' = op
              /\ \/ Freed(s, armed)
                 \/ UNCHANGED <<holder, queue>>
        BY <3>4 DEF OnSocketTooLate
      <4>1. QueueOK' /\ HoldersOK'
        BY FreedLeases, LeasesKept DEF LeaseInv, TypeOK, RequestsOK
      <4> QED
        BY <4>1 DEF LeaseInv, TypeOK, RequestsOK
    <3>5. CASE /\ UNCHANGED <<phase, holder, queue>>
               /\ \A q \in Requests : op'[q] = "idle" => op[q] = "idle"
      <4>1. QueueOK' /\ HoldersOK'
        BY <3>5, LeasesKept
      <4> QED
        BY <3>5, <4>1 DEF LeaseInv
    <3>6. CASE Response(r)
      <4>1. QueueOK' /\ HoldersOK'
        BY <3>6, LeasesKept DEF Response, LeaseInv, TypeOK, RequestsOK, sockVars
      <4> QED
        BY <3>6, <4>1 DEF Response, LeaseInv, TypeOK, RequestsOK
    <3>7. CASE BodyEnd(r)
      <4>1. /\ phase' = [phase EXCEPT ![r] = "ended"]
            /\ phase[r] \in {"body", "errbody"}
            /\ op' = op
            /\ socketOf[r] \in Sockets
            /\ \/ Freed(socketOf[r], armed \ {socketOf[r]})
               \/ UNCHANGED <<holder, queue>>
        BY <3>7, BusyHasSocket DEF BodyEnd
      <4>2. QueueOK' /\ HoldersOK'
        BY <4>1, FreedLeases, LeasesKept DEF LeaseInv, TypeOK, RequestsOK
      <4> QED
        BY <4>1, <4>2 DEF LeaseInv, TypeOK, RequestsOK
    <3>8. CASE \/ Continue(r) \/ Drained(r) \/ UserAbort(r) \/ ConsumerDestroy(r)
               \/ RequestTimeout(r) \/ SourceError(r)
      BY <3>5, <3>8 DEF Continue, AfterResponse, Drained, Drain, UserAbort, ConsumerDestroy, RequestTimeout,
                        SourceError, TypeOK, RequestsOK
    <3> QED
      BY <2>1, <3>1, <3>2, <3>3, <3>4, <3>6, <3>7, <3>8 DEF RequestStep
  <2>2. ASSUME NEW s \in Sockets, SocketClose(s) PROVE LeaseInv'
    <3>1. /\ \A r \in Requests : phase[r] = "waiting" => phase'[r] = "waiting"
          /\ \A r \in Requests : phase[r] \notin {"idle", "sleeping"}
                                     => phase'[r] \notin {"idle", "sleeping"}
          /\ \A r \in Requests : phase[r] = "idle" => phase'[r] = "idle"
      BY <2>2 DEF SocketClose, InPhase, TypeOK, RequestsOK
    <3>2. QueueOK' /\ HoldersOK'
      <4>1. CASE queue = <<>>
        BY <2>2, <4>1, <3>1, SocketReleased DEF SocketClose
      <4>2. CASE queue # <<>>
        BY <2>2, <4>2, <3>1, HeadGetsOther DEF SocketClose
      <4> QED
        BY <4>1, <4>2
    <3> QED
      BY <2>2, <3>1, <3>2 DEF SocketClose, LeaseInv
  <2>3. CASE UNCHANGED <<op, phase, holder, queue>>
    <3>1. QueueOK' /\ HoldersOK'
      BY <2>3, LeasesKept
    <3> QED
      BY <2>3, <3>1 DEF LeaseInv
  <2>4. CASE \/ \E s \in Sockets : \/ PeerReset(s) \/ ServerIdleClose(s) \/ NoticeClose(s)
                                   \/ \E c \in Clients : IdleTimeout(c, s)
             \/ \E o \in orphans : OrphanTimeout(o)
             \/ CloseClient \/ Tick \/ UNCHANGED vars
    <3>1. ASSUME NEW s \in Sockets, PeerReset(s) \/ ServerIdleClose(s) \/ NoticeClose(s)
          PROVE  UNCHANGED <<phase, op, holder, queue>>
      BY <3>1 DEF PeerReset, ServerIdleClose, NoticeClose, reqVars
    <3>2. ASSUME NEW s \in Sockets, NEW c \in Clients, IdleTimeout(c, s)
          PROVE  UNCHANGED <<phase, op, holder, queue>>
      BY <3>2 DEF IdleTimeout, reqVars
    <3>3. ASSUME NEW o \in orphans, OrphanTimeout(o)
          PROVE  UNCHANGED <<phase, op, holder, queue>>
      BY <3>3 DEF OrphanTimeout, reqVars
    <3>4. CloseClient \/ Tick \/ UNCHANGED vars => UNCHANGED <<phase, op, holder, queue>>
      BY DEF CloseClient, Tick, vars, reqVars, sockVars
    <3> QED
      BY <2>3, <2>4, <3>1, <3>2, <3>3, <3>4
  <2> QED
    BY <2>1, <2>2, <2>4 DEF Next, SocketStep
<1> QED
  BY <1>1, <1>2, PTL DEF Spec

-----------------------------------------------------------------------------
(* Idle timers: what sleep(0), the timers and the eager check promise about  *)
(* the sockets that are reused.                                              *)

\* An unborn or kept socket is held by no request; a socket a request has
\* used is known to some pool; a kept one has its timer.
IdleInv ==
    /\ TypeOK
    /\ \A s \in Sockets : st[s] \in {"unborn", "free"} => holder[s] = None
    /\ \A s \in Sockets : st[s] = "unborn" => s \notin httpMessage
    /\ Managed => \A s \in httpMessage :
                     st[s] \in {"busy", "free"} => \E c \in Clients : s \in known[c]
    /\ KeptSocketsExpire

\* The steps that only destroy sockets, and touch no timer of the others.
LEMMA DestroyKeepsIdle ==
    ASSUME IdleInv, TypeOK', UNCHANGED <<holder, httpMessage, freedAt>>,
           \A s \in Sockets : st'[s] = st[s] \/ st'[s] = "closing",
           \A c \in Clients, s \in Sockets :
              st'[s] \in {"busy", "free"} =>
                 /\ s \in known[c] => s \in known'[c]
                 /\ handle'[c][s] = handle[c][s]
    PROVE  IdleInv'
  <1>1. \A s \in Sockets : st'[s] \in {"unborn", "free"} => holder'[s] = None
    BY DEF IdleInv
  <1>2. \A s \in Sockets : st'[s] = "unborn" => s \notin httpMessage'
    BY DEF IdleInv
  <1>3. Managed => \A s \in httpMessage' :
                      st'[s] \in {"busy", "free"} => \E c \in Clients : s \in known'[c]
    BY DEF IdleInv, TypeOK, SocketsOK
  <1>4. KeptSocketsExpire'
    BY DEF IdleInv, KeptSocketsExpire, FreeSockets
  <1> QED
    BY <1>1, <1>2, <1>3, <1>4 DEF IdleInv

\* socket.emit('free') starts the timer of a socket it keeps.
LEMMA FreedKeepsIdle ==
    ASSUME IdleInv, TypeOK', NEW s \in Sockets, NEW running, Freed(s, running),
           st[s] = "busy", UNCHANGED known
    PROVE  IdleInv'
  <1>1. /\ \A t \in Sockets : t # s => /\ st'[t] = st[t]
                                       /\ holder'[t] = holder[t]
                                       /\ freedAt'[t] = freedAt[t]
                                       /\ t \in httpMessage' <=> t \in httpMessage
                                       /\ \A c \in Clients : handle'[c][t] = handle[c][t]
        /\ st'[s] \in {"busy", "free", "closing"}
        /\ st'[s] = "free" => holder'[s] = None /\ s \in httpMessage
        /\ freedAt'[s] = now
        /\ httpMessage' \subseteq httpMessage
        /\ \A c \in Clients : s \in known[c] => handle'[c][s] = now + IdleTTL
    BY DEF IdleInv, TypeOK, SocketsOK, PoolsOK, Freed, IdleTimerStarted
  <1>2. \A t \in Sockets : st'[t] \in {"unborn", "free"} => holder'[t] = None
    BY <1>1 DEF IdleInv
  <1>3. \A t \in Sockets : st'[t] = "unborn" => t \notin httpMessage'
    BY <1>1 DEF IdleInv
  <1>4. Managed => \A t \in httpMessage' :
                      st'[t] \in {"busy", "free"} => \E c \in Clients : t \in known'[c]
    BY <1>1 DEF IdleInv, TypeOK, SocketsOK
  <1>5. KeptSocketsExpire'
    <2> SUFFICES ASSUME Managed, NEW t \in Sockets, st'[t] = "free"
                 PROVE  \E c \in Clients :
                           t \in known'[c] /\ handle'[c][t] = freedAt'[t] + IdleTTL
      BY DEF KeptSocketsExpire, FreeSockets
    <2>1. CASE t = s
      BY <1>1, <2>1 DEF IdleInv
    <2>2. CASE t # s
      BY <1>1, <2>2 DEF IdleInv, KeptSocketsExpire, FreeSockets
    <2> QED
      BY <2>1, <2>2
  <1> QED
    BY <1>2, <1>3, <1>4, <1>5 DEF IdleInv

\* Creating a request keeps the timers of the sockets that stay kept.
LEMMA WakeUpKeepsIdle ==
    ASSUME IdleInv, TypeOK', NEW r \in Requests, WakeUp(r)
    PROVE  IdleInv'
  <1> DEFINE gone == Expired(ClientOf[r])
  <1>1. gone \subseteq FreeSockets
    BY DEF Expired
  <1>2. /\ UNCHANGED <<httpMessage, freedAt>>
        /\ \A c \in Clients, s \in Sockets \ gone :
              /\ s \in known[c] => s \in known'[c]
              /\ handle'[c][s] = handle[c][s]
    BY DEF WakeUp, IdleInv, TypeOK, PoolsOK
  <1> DEFINE left == [s \in Sockets |-> IF s \in gone THEN "closing" ELSE st[s]]
  <1>3. \A s \in Sockets :
           \/ s \notin gone /\ st'[s] = st[s] /\ holder'[s] = holder[s]
           \/ s \in gone /\ st'[s] = "closing"
           \/ s \notin gone /\ st[s] \in {"free", "unborn"} /\ st'[s] = "busy"
    <2>1. AddRequest(r, gone)
      BY DEF WakeUp
    <2>2. CASE \E u \in Sockets : /\ u \notin gone
                                  /\ st[u] \in {"free", "unborn"}
                                  /\ GiveSocket(r, u, left)
      BY <2>2 DEF GiveSocket, IdleInv, TypeOK, SocketsOK
    <2>3. CASE st' = left /\ UNCHANGED holder
      BY <2>3
    <2>4. \A u \in Sockets : NextUnborn(u) => st[u] = "unborn" /\ u \notin gone
      BY <1>1 DEF NextUnborn, FreeSockets
    <2> QED
      BY <2>1, <2>2, <2>3, <2>4 DEF AddRequest, FreeSockets
  <1>4. \A s \in Sockets : st'[s] \in {"unborn", "free"} => holder'[s] = None
    BY <1>3 DEF IdleInv
  <1>5. \A s \in Sockets : st'[s] = "unborn" => s \notin httpMessage'
    BY <1>2, <1>3 DEF IdleInv
  <1>6. Managed => \A s \in httpMessage' :
                      st'[s] \in {"busy", "free"} => \E c \in Clients : s \in known'[c]
    BY <1>2, <1>3 DEF IdleInv, TypeOK, SocketsOK
  <1>7. KeptSocketsExpire'
    BY <1>2, <1>3 DEF IdleInv, KeptSocketsExpire, FreeSockets
  <1> QED
    BY <1>4, <1>5, <1>6, <1>7 DEF IdleInv

\* Handing a socket over makes it known to the pool of its request.
LEMMA OnSocketKeepsIdle ==
    ASSUME IdleInv, TypeOK', NEW r \in Requests, OnSocket(r)
    PROVE  IdleInv'
  <1> PICK s \in Sockets :
        /\ holder[s] = r
        /\ httpMessage' = httpMessage \cup {s}
        /\ IF Managed
           THEN /\ known' = [known EXCEPT ![ClientOf[r]] = @ \cup {s}]
                /\ handle' = IdleTimerCleared(ClientOf[r], s)
           ELSE UNCHANGED <<known, handle>>
    BY DEF OnSocket
  <1>1. UNCHANGED <<st, holder, freedAt>>
    BY DEF OnSocket
  <1>2. st[s] \notin {"unborn", "free"}
    BY ConfigAssumption DEF IdleInv
  <1>3. Managed => /\ ClientOf[r] \in Clients /\ s \in known'[ClientOf[r]]
                   /\ \A c \in Clients : known[c] \subseteq known'[c]
                   /\ \A c \in Clients, t \in Sockets : t # s => handle'[c][t] = handle[c][t]
    <2> SUFFICES ASSUME Managed
                 PROVE  /\ ClientOf[r] \in Clients /\ s \in known'[ClientOf[r]]
                        /\ \A c \in Clients : known[c] \subseteq known'[c]
                        /\ \A c \in Clients, t \in Sockets :
                              t # s => handle'[c][t] = handle[c][t]
      OBVIOUS
    <2>1. ClientOf[r] \in Clients
      BY ConfigAssumption
    <2>2. s \in known'[ClientOf[r]] /\ \A c \in Clients : known[c] \subseteq known'[c]
      BY <2>1 DEF IdleInv, TypeOK, PoolsOK
    <2>3. \A c \in Clients, t \in Sockets : t # s => handle'[c][t] = handle[c][t]
      BY <2>1 DEF IdleInv, TypeOK, PoolsOK, IdleTimerCleared
    <2> QED
      BY <2>1, <2>2, <2>3
  <1>4. \A t \in Sockets : st'[t] \in {"unborn", "free"} => holder'[t] = None
    BY <1>1 DEF IdleInv
  <1>5. \A t \in Sockets : st'[t] = "unborn" => t \notin httpMessage'
    BY <1>1, <1>2 DEF IdleInv
  <1>6. Managed => \A t \in httpMessage' :
                      st'[t] \in {"busy", "free"} => \E c \in Clients : t \in known'[c]
    BY <1>1, <1>3 DEF IdleInv, TypeOK, SocketsOK
  <1>7. KeptSocketsExpire'
    BY <1>1, <1>2, <1>3 DEF IdleInv, KeptSocketsExpire, FreeSockets
  <1> QED
    BY <1>4, <1>5, <1>6, <1>7 DEF IdleInv

\* A socket that closes takes its timers along; the one opened for the head
\* of the queue is new.
LEMMA SocketCloseKeepsIdle ==
    ASSUME IdleInv, TypeOK', NEW s \in Sockets, SocketClose(s)
    PROVE  IdleInv'
  <1>1. /\ UNCHANGED <<httpMessage, freedAt, known>>
        /\ st[s] = "closing"
        /\ \A c \in Clients, t \in Sockets : t # s => handle'[c][t] = handle[c][t]
    BY DEF SocketClose, IdleInv, TypeOK, PoolsOK
  <1>2. \A t \in Sockets :
           \/ st'[t] = st[t] /\ (holder'[t] = holder[t] \/ st[t] = "closing")
           \/ st'[t] = "dead"
           \/ st[t] = "unborn" /\ st'[t] = "busy"
    BY <1>1 DEF SocketClose, NextUnborn, IdleInv, TypeOK, SocketsOK
  <1>3. \A t \in Sockets : st'[t] \in {"unborn", "free"} => holder'[t] = None
    BY <1>1, <1>2 DEF IdleInv
  <1>4. \A t \in Sockets : st'[t] = "unborn" => t \notin httpMessage'
    BY <1>1, <1>2 DEF IdleInv
  <1>5. Managed => \A t \in httpMessage' :
                      st'[t] \in {"busy", "free"} => \E c \in Clients : t \in known'[c]
    BY <1>1, <1>2 DEF IdleInv, TypeOK, SocketsOK
  <1>6. KeptSocketsExpire'
    BY <1>1, <1>2 DEF IdleInv, KeptSocketsExpire, FreeSockets
  <1> QED
    BY <1>3, <1>4, <1>5, <1>6 DEF IdleInv

LEMMA IdleStep == IdleInv /\ [Next]_vars => IdleInv'
<1> SUFFICES ASSUME IdleInv, [Next]_vars PROVE IdleInv'
  OBVIOUS
<1>0. TypeOK /\ TypeOK'
  BY StepTypes DEF IdleInv
<1> USE <1>0
<1>1. ASSUME UNCHANGED <<holder, httpMessage, freedAt, known, handle>>,
             \E S : st' = Destroy(S)
      PROVE  IdleInv'
  BY <1>1, DestroyKeepsIdle DEF Destroy
<1>2. ASSUME UNCHANGED <<holder, httpMessage, freedAt, known, handle, st>>
      PROVE  IdleInv'
  BY <1>2, DestroyKeepsIdle
<1>3. ASSUME NEW r \in Requests, RequestStep(r) PROVE IdleInv'
  <2>1. CASE Call(r)
    BY <2>1, <1>2 DEF Call, sockVars, poolVars
  <2>2. CASE OnSocketTooLate(r)
    <3> PICK s \in Sockets :
          IF st[s] = "busy"
          THEN Freed(s, armed)
          ELSE UNCHANGED <<st, holder, httpMessage, freedAt, armed, queue, handle, orphans>>
      BY <2>2 DEF OnSocketTooLate
    <3> QED
      BY <2>2, <1>2, FreedKeepsIdle DEF OnSocketTooLate
  <2>3. ASSUME ControllerAbort(r),
               UNCHANGED <<holder, httpMessage, freedAt, known, handle>>
        PROVE  IdleInv'
    BY <2>3, <1>1, <1>2 DEF ControllerAbort
  <2>4. CASE Continue(r) \/ Drained(r) \/ UserAbort(r)
    BY <2>4, <2>3, <1>2 DEF Continue, Drained, UserAbort, Caught, poolVars
  <2>5. CASE ConsumerDestroy(r) \/ SourceError(r) \/ RequestTimeout(r)
    BY <2>5, <1>1, <1>2 DEF ConsumerDestroy, SourceError, RequestTimeout, poolVars
  <2>6. CASE Response(r)
    BY <2>6, <1>2 DEF Response, sockVars, poolVars
  <2>7. CASE BodyEnd(r)
    BY <2>7, <1>1, FreedKeepsIdle, BusyHasSocket DEF BodyEnd, InFlight
  <2> QED
    BY <1>3, <2>1, <2>2, <2>4, <2>5, <2>6, <2>7, WakeUpKeepsIdle, OnSocketKeepsIdle
       DEF RequestStep
<1>4. ASSUME NEW s \in Sockets, SocketStep(s) PROVE IdleInv'
  <2>1. CASE PeerReset(s) \/ ServerIdleClose(s) \/ NoticeClose(s)
    BY <2>1, <1>1, <1>2 DEF PeerReset, ServerIdleClose, NoticeClose, poolVars
  <2>2. CASE \E c \in Clients : IdleTimeout(c, s)
    BY <2>2, DestroyKeepsIdle DEF IdleTimeout, Destroy, TypeOK, PoolsOK
  <2> QED
    BY <1>4, <2>1, <2>2, SocketCloseKeepsIdle DEF SocketStep
<1>5. CASE \E o \in orphans : OrphanTimeout(o)
  <2> PICK o \in orphans : OrphanTimeout(o)
    BY <1>5
  <2>1. o[1] \in Clients /\ o[2] \in Sockets
    BY DEF TypeOK, PoolsOK
  <2> QED
    BY <2>1, DestroyKeepsIdle DEF OrphanTimeout, Destroy, TypeOK, PoolsOK
<1>6. CASE CloseClient \/ Tick \/ UNCHANGED vars
  BY <1>6, <1>1, <1>2 DEF CloseClient, Tick, vars, sockVars, poolVars
<1> QED
  BY <1>3, <1>4, <1>5, <1>6 DEF Next

LEMMA IdleInit == Init => IdleInv
  <1> SUFFICES ASSUME Init PROVE IdleInv
    OBVIOUS
  <1> QED
    BY InitTypes DEF Init, IdleInv, KeptSocketsExpire, FreeSockets

\* Every socket the agent keeps has its idle timer running, due exactly
\* idle_socket_ttl after the last 'free' event: nothing idles unwatched.
THEOREM KeptExpire == Spec => []KeptSocketsExpire
<1>1. IdleInv => KeptSocketsExpire
  BY DEF IdleInv
<1> QED
  BY <1>1, IdleInit, IdleStep, PTL DEF Spec

-----------------------------------------------------------------------------
(* Reuse of kept sockets *)

\* Only a request that wakes up is given a kept socket, and not one that the
\* eager check of its client has just destroyed.
LEMMA ReuseIsWakeUp ==
    ASSUME TypeOK, [Next]_vars, NEW s \in Sockets, Reused(s)
    PROVE  \E r \in Requests : /\ WakeUp(r)
                               /\ holder'[s] = r
                               /\ s \in FreeSockets \ Expired(ClientOf[r])
<1>1. st[s] = "free" /\ st'[s] = "busy"
  BY DEF Reused
<1>2. ASSUME NEW S, st' = Destroy(S) PROVE FALSE
  BY <1>1, <1>2 DEF Destroy
<1>3. ASSUME NEW t \in Sockets, NEW running, Freed(t, running) PROVE FALSE
  BY <1>1, <1>3 DEF Freed, TypeOK, SocketsOK
<1>4. st' # st
  BY <1>1
<1>5. ASSUME NEW r \in Requests, ControllerAbort(r) PROVE FALSE
  BY <1>5, <1>2, <1>4 DEF ControllerAbort
<1>6. ASSUME NEW t \in Sockets, SocketStep(t) PROVE FALSE
  <2>1. ~SocketClose(t)
    BY <1>1 DEF SocketClose, NextUnborn, TypeOK, SocketsOK
  <2> QED
    BY <1>6, <2>1, <1>2, <1>4 DEF SocketStep, PeerReset, ServerIdleClose, NoticeClose, IdleTimeout
<1>7. ~\E o \in orphans : OrphanTimeout(o)
  BY <1>2 DEF OrphanTimeout
<1>8. ~CloseClient /\ ~Tick /\ ~UNCHANGED vars
  BY <1>2, <1>4 DEF CloseClient, Tick, vars, sockVars
<1>9. ASSUME NEW r \in Requests, RequestStep(r) PROVE WakeUp(r)
  <2>1. ~Call(r) /\ ~OnSocket(r) /\ ~Response(r)
    BY <1>4 DEF Call, OnSocket, Response, sockVars
  <2>2. ~OnSocketTooLate(r)
    BY <1>3, <1>4 DEF OnSocketTooLate
  <2>3. ~Continue(r) /\ ~Drained(r) /\ ~UserAbort(r)
    BY <1>4, <1>5 DEF Continue, Drained, UserAbort, Caught
  <2>4. ~ConsumerDestroy(r) /\ ~SourceError(r) /\ ~RequestTimeout(r)
    BY <1>2, <1>4 DEF ConsumerDestroy, SourceError, RequestTimeout
  <2>5. ~BodyEnd(r)
    BY <1>2, <1>3, BusyHasSocket DEF BodyEnd
  <2> QED
    BY <1>9, <2>1, <2>2, <2>3, <2>4, <2>5 DEF RequestStep
<1>10. ASSUME NEW r \in Requests, WakeUp(r)
       PROVE  holder'[s] = r /\ s \in FreeSockets \ Expired(ClientOf[r])
  <2> DEFINE gone == Expired(ClientOf[r])
             left == [t \in Sockets |-> IF t \in gone THEN "closing" ELSE st[t]]
  <2>1. s \in FreeSockets /\ left[s] # "busy"
    BY <1>1 DEF FreeSockets
  <2>2. PICK u \in Sockets : GiveSocket(r, u, left) /\ (u \in FreeSockets \ gone \/ NextUnborn(u))
    BY <1>1, <1>10, <2>1 DEF WakeUp, AddRequest, FreeSockets
  <2>3. u = s
    BY <1>1, <2>1, <2>2 DEF GiveSocket
  <2> QED
    BY <1>1, <2>2, <2>3 DEF GiveSocket, NextUnborn, TypeOK, SocketsOK
<1> QED
  BY <1>6, <1>7, <1>8, <1>9, <1>10 DEF Next

\* With idle timers in use, however late they fire: a request never gets a
\* socket that was past idle_socket_ttl when its operation was called.  It is
\* sleep(0) that makes this true: the timers due before it run before it.
THEOREM SocketsFreshWhenCalled == ASSUME Managed PROVE Spec => FreshWhenCalled
<1>1. ASSUME IdleInv, [Next]_vars, NEW s \in Sockets, Reused(s)
      PROVE  freedAt[s] + IdleTTL > wakeAt[holder'[s]]
  <2>1. TypeOK
    BY <1>1 DEF IdleInv
  <2>2. PICK r \in Requests : WakeUp(r) /\ holder'[s] = r /\ s \in FreeSockets
    BY <1>1, <2>1, ReuseIsWakeUp
  <2>3. PICK c \in Clients : handle[c][s] = freedAt[s] + IdleTTL
    BY <1>1, <2>2 DEF IdleInv, KeptSocketsExpire
  <2>4. freedAt[s] \in Nat /\ IdleTTL \in Nat /\ IdleTTL > 0 /\ wakeAt[r] \in Nat
    BY <2>1, ConfigAssumption DEF TypeOK, SocketsOK, RequestsOK, Managed
  <2>5. ~TimerDue(wakeAt[r])
    BY <2>2 DEF WakeUp
  <2> QED
    BY <2>2, <2>3, <2>4, <2>5 DEF TimerDue
<1>2. IdleInv /\ [Next]_vars
         => [\A s \in Sockets : Reused(s) =>
                freedAt[s] + IdleTTL > wakeAt[holder'[s]]]_vars
  BY <1>1
<1> QED
  BY <1>2, IdleInit, IdleStep, PTL DEF Spec, FreshWhenCalled

\* eagerly_destroy_stale_sockets, for an agent that is not shared and for
\* every MaxLag: what a starved process can add to the age of the socket that
\* a request gets is the time it lost after it checked the sockets, no more.
THEOREM EagerCheckBounds ==
    ASSUME Managed, Eager, \A c, d \in Clients : c = d
    PROVE  Spec => OverdueOnlyByStall
<1>1. ASSUME IdleInv, [Next]_vars, NEW s \in Sockets, Reused(s)
      PROVE  now' < freedAt[s] + IdleTTL + (now' - now)
  <2>1. TypeOK
    BY <1>1 DEF IdleInv
  <2>2. PICK r \in Requests : WakeUp(r) /\ s \in FreeSockets \ Expired(ClientOf[r])
    BY <1>1, <2>1, ReuseIsWakeUp
  <2>3. PICK c \in Clients : s \in known[c]
    BY <1>1, <2>2 DEF IdleInv, KeptSocketsExpire
  <2>4. s \in known[ClientOf[r]]
    BY <2>3, ConfigAssumption
  <2>5. ~(now - freedAt[s] >= IdleTTL)
    BY <2>2, <2>4 DEF Expired
  <2>6. now \in Nat /\ now' \in Nat /\ freedAt[s] \in Nat /\ IdleTTL \in Nat
    BY <2>1, <2>2, ConfigAssumption DEF TypeOK, SocketsOK, WakeUp
  <2> QED
    BY <2>5, <2>6
<1>2. IdleInv /\ [Next]_vars
         => [\A s \in Sockets :
                Reused(s) => now' < freedAt[s] + IdleTTL + (now' - now)]_vars
  BY <1>1
<1> QED
  BY <1>2, IdleInit, IdleStep, PTL DEF Spec, OverdueOnlyByStall

=============================================================================
