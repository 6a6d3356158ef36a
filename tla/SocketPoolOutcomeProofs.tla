----------------------- MODULE SocketPoolOutcomeProofs -----------------------
(* Theorems about what the requests of SocketPool do to their sockets and    *)
(* tell their callers: errors, aborts, timeouts, and the refinement of       *)
(* ConnectionLease.                                                          *)
EXTENDS SocketPoolLease, SocketPoolProofs

(* The inductive invariant, one request and one socket at a time. *)

\* An operation whose request is not created has nothing yet.
NotCreatedFits(r) ==
    phase[r] \in {"idle", "sleeping"} =>
        /\ socketOf[r] = None
        /\ op[r] \in {"idle", "running"}
        /\ outcome[r] = "pending"
        /\ r \notin destroyed
        /\ r \notin onTimeout

\* A request that waits has no socket to time out on, and is heard by the
\* pool unless it was aborted.
WaitingFits(r) ==
    phase[r] = "waiting" =>
        /\ socketOf[r] = None
        /\ r \notin onTimeout
        /\ outcome[r] \in {"pending", "aborted"}
        /\ listeners[r] \in {"pool", "noop"}
        /\ r \notin destroyed => /\ op[r] = "running"
                                 /\ outcome[r] = "pending"
                                 /\ listeners[r] = "pool"

\* A request that was sent and is not answered is alive and heard by the
\* pool, or its promise has settled.  Where nobody hears it the operation has
\* not resumed yet, so that no 'error' can come before the catch clause aborts.
SentFits(r) ==
    phase[r] = "sent" =>
        /\ outcome[r] # "response"
        /\ r \in onTimeout => /\ r \notin destroyed
                              /\ op[r] = "running"
                              /\ outcome[r] = "pending"
                              /\ listeners[r] = "pool"
        /\ listeners[r] = "none" => /\ op[r] = "running"
                                    /\ outcome[r] # "pending"
                                    /\ r \notin aborted

\* A request keeps its socket until its response is received or the socket is
\* closed; the socket is unusable once the request is destroyed.
UsesSocket(r) ==
    phase[r] \in {"sent", "body", "errbody"} =>
        /\ socketOf[r] \in Sockets
        /\ holder[socketOf[r]] = r
        /\ IF r \in destroyed THEN st[socketOf[r]] # "busy" ELSE r \in onTimeout

\* A request that is over has at most a socket that is being closed.
OverFits(r) ==
    phase[r] \in {"ended", "failed"} =>
        /\ \A s \in Sockets : holder[s] = r => st[s] = "closing"
        /\ r \notin destroyed => /\ phase[r] = "ended"
                                 /\ socketOf[r] \in Sockets
                                 /\ holder[socketOf[r]] = r

\* Who listens to the timeout of a socket has the socket.
HeardFits(r) ==
    r \in onTimeout => /\ phase[r] \in {"sent", "body", "errbody", "ended"}
                       /\ socketOf[r] \in Sockets
                       /\ holder[socketOf[r]] = r

\* What the operation says and what became of its request.
OpFits(r) ==
    /\ r \in aborted /\ phase[r] \notin {"idle", "sleeping"} => r \in destroyed
    /\ op[r] = "rejected" => r \in destroyed \/ phase[r] \in {"ended", "failed"}
    /\ op[r] \in {"draining", "fulfilled"} => outcome[r] = "response"
    /\ op[r] = "draining" => KindOf[r] # "query"
    /\ op[r] = "fulfilled" /\ KindOf[r] # "query" => phase[r] \in {"ended", "failed"}
    /\ phase[r] = "body" => outcome[r] # "pending"

Fits(r) ==
    /\ NotCreatedFits(r) /\ WaitingFits(r) /\ SentFits(r) /\ UsesSocket(r)
    /\ OverFits(r) /\ HeardFits(r) /\ OpFits(r)

\* The agent counts as in use the sockets that somebody holds.
SocketFits(s) ==
    /\ st[s] \in {"unborn", "free", "dead"} => holder[s] = None
    /\ st[s] = "busy" => holder[s] # None

OutcomeInv ==
    /\ ~uncaught
    /\ \A r \in Requests : Fits(r)
    /\ \A s \in Sockets : SocketFits(s)

-----------------------------------------------------------------------------
(* What a step leaves alone *)

SameRequest(r) ==
    /\ phase'[r] = phase[r] /\ socketOf'[r] = socketOf[r] /\ op'[r] = op[r]
    /\ listeners'[r] = listeners[r] /\ outcome'[r] = outcome[r]
    /\ r \in destroyed' <=> r \in destroyed
    /\ r \in onTimeout' <=> r \in onTimeout
    /\ r \in aborted' <=> r \in aborted

\* r keeps its socket, gets none unless it waits, and what is closed stays so.
SameLease(r) ==
    \A s \in Sockets :
        /\ holder[s] = r => holder'[s] = r
        /\ holder'[s] = r /\ phase[r] # "waiting" =>
              /\ holder[s] = r
              /\ st[s] # "busy" => st'[s] = st[s]

LEMMA Untouched ==
    ASSUME NEW r \in Requests, Fits(r), SameRequest(r), SameLease(r)
    PROVE  Fits(r)'
  <1>1. NotCreatedFits(r)' /\ WaitingFits(r)'
    BY DEF Fits, SameRequest, NotCreatedFits, WaitingFits
  <1>2. SentFits(r)' /\ OpFits(r)'
    BY DEF Fits, SameRequest, SentFits, OpFits
  <1>3. UsesSocket(r)'
    BY DEF Fits, SameRequest, SameLease, UsesSocket
  <1>4. OverFits(r)'
    BY DEF Fits, SameRequest, SameLease, OverFits
  <1>5. HeardFits(r)'
    BY DEF Fits, SameRequest, SameLease, HeardFits
  <1> QED
    BY <1>1, <1>2, <1>3, <1>4, <1>5 DEF Fits

\* The steps that leave the sockets alone.
LEMMA SocketsStay ==
    ASSUME OutcomeInv, UNCHANGED <<st, holder>>
    PROVE  /\ \A r \in Requests : SameLease(r)
           /\ \A s \in Sockets : SocketFits(s)'
  BY DEF OutcomeInv, SocketFits, SameLease

\* socket.destroy() changes no lease.
LEMMA DestroySpares ==
    ASSUME TypeOK, OutcomeInv, NEW S, st' = Destroy(S), UNCHANGED holder
    PROVE  /\ \A r \in Requests : SameLease(r)
           /\ \A s \in Sockets : SocketFits(s)'
           /\ \A s \in Sockets : st'[s] = "busy" => st[s] = "busy" /\ s \notin S
           /\ \A s \in Sockets : st[s] # "busy" /\ holder[s] # None => st'[s] = st[s]
  <1>1. \A s \in Sockets : st'[s] = IF s \in S /\ st[s] \in {"busy", "free"}
                                    THEN "closing" ELSE st[s]
    BY DEF Destroy
  <1>2. \A s \in Sockets : st[s] \in {"unborn", "busy", "free", "closing", "dead"}
    BY DEF TypeOK, SocketsOK
  <1>3. \A s \in Sockets : SocketFits(s)
    BY DEF OutcomeInv
  <1>4. \A s \in Sockets : SocketFits(s)'
    BY <1>1, <1>3 DEF SocketFits
  <1>5. \A s \in Sockets : st[s] # "busy" /\ holder[s] # None => st'[s] = st[s]
    BY <1>1, <1>2, <1>3 DEF SocketFits
  <1>6. \A r \in Requests : SameLease(r)
    BY <1>5, ConfigAssumption DEF SameLease
  <1> QED
    BY <1>1, <1>4, <1>5, <1>6

\* socket.emit('free') changes no lease but that of the request that leaves
\* the socket, which has it at most while it is closed.
LEMMA FreedSpares ==
    ASSUME TypeOK, TypeOK', LeaseInv, OutcomeInv, NEW r \in Requests, NEW s \in Sockets,
           holder[s] = r, st[s] = "busy", NEW running, Freed(s, running)
    PROVE  /\ \A q \in Requests : q # r => SameLease(q)
           /\ \A t \in Sockets : SocketFits(t)'
           /\ \A t \in Sockets : holder'[t] = r => st'[t] = "closing"
  <1>1. \A t \in Sockets : holder[t] = r => t = s
    BY ConfigAssumption DEF LeaseInv, HoldersOK
  <1>2. \A t \in Sockets : t # s => holder'[t] = holder[t] /\ st'[t] = st[t]
    BY DEF Freed, TypeOK, SocketsOK
  <1>3. CASE queue # <<>> /\ holder' = [holder EXCEPT ![s] = Head(queue)] /\ st' = st
    <2>1. /\ Head(queue) \in Requests /\ Head(queue) # None
          /\ phase[Head(queue)] = "waiting"
          /\ \A t \in Sockets : holder[t] # Head(queue)
      BY <1>3, QueueType, HeadTailProperties, ConfigAssumption
         DEF LeaseInv, QueueOK, TypeOK, SocketsOK
    <2>2. holder'[s] = Head(queue)
      BY <1>3 DEF TypeOK, SocketsOK
    <2> QED
      BY <1>1, <1>2, <1>3, <2>1, <2>2 DEF OutcomeInv, SocketFits, SameLease
  <1>4. CASE holder'[s] = None /\ st'[s] = "free"
    BY <1>1, <1>2, <1>4, ConfigAssumption DEF OutcomeInv, SocketFits, SameLease
  <1>5. CASE holder'[s] = holder[s] /\ st'[s] = "closing"
    BY <1>1, <1>2, <1>5, ConfigAssumption DEF OutcomeInv, SocketFits, SameLease
  <1> QED
    BY <1>3, <1>4, <1>5 DEF Freed, TypeOK, SocketsOK

\* The 'close' of a socket takes it from the request that had it, and may
\* give a new one to a request that waits.
LEMMA CloseSpares ==
    ASSUME TypeOK, LeaseInv, OutcomeInv, NEW s \in Sockets, SocketClose(s)
    PROVE  /\ \A q \in Requests : q # holder[s] => SameLease(q)
           /\ \A t \in Sockets : SocketFits(t)'
           /\ \A t \in Sockets : holder[s] # None => holder'[t] # holder[s]
  <1>1. \A t \in Sockets : holder[t] = holder[s] /\ holder[s] # None => t = s
    BY DEF LeaseInv, HoldersOK
  <1>2. CASE queue = <<>>
    <2>1. /\ \A t \in Sockets : t # s => holder'[t] = holder[t] /\ st'[t] = st[t]
          /\ holder'[s] = None /\ st'[s] = "dead"
      BY <1>2 DEF SocketClose, TypeOK, SocketsOK
    <2> QED
      BY <1>1, <2>1, ConfigAssumption DEF OutcomeInv, SocketFits, SameLease
  <1>3. CASE queue # <<>>
    <2>1. PICK u \in Sockets :
             /\ st[u] = "unborn"
             /\ st' = [[st EXCEPT ![s] = "dead"] EXCEPT ![u] = "busy"]
             /\ holder' = [holder EXCEPT ![s] = None, ![u] = Head(queue)]
      BY <1>3 DEF SocketClose, NextUnborn
    <2>2. /\ Head(queue) \in Requests /\ Head(queue) # None
          /\ phase[Head(queue)] = "waiting"
          /\ \A t \in Sockets : holder[t] # Head(queue)
      BY <1>3, QueueType, HeadTailProperties, ConfigAssumption
         DEF LeaseInv, QueueOK, TypeOK, SocketsOK
    <2>3. u # s /\ holder[u] = None
      BY <2>1 DEF SocketClose, OutcomeInv, SocketFits
    <2>4. /\ \A t \in Sockets : t # s /\ t # u => holder'[t] = holder[t] /\ st'[t] = st[t]
          /\ holder'[s] = None /\ st'[s] = "dead"
          /\ holder'[u] = Head(queue) /\ st'[u] = "busy"
      BY <2>1, <2>3 DEF TypeOK, SocketsOK
    <2> QED
      BY <1>1, <2>2, <2>3, <2>4, ConfigAssumption DEF OutcomeInv, SocketFits, SameLease
  <1> QED
    BY <1>2, <1>3

\* A new request is given a socket nobody has, or waits.
LEMMA WakeUpSpares ==
    ASSUME TypeOK, OutcomeInv, NEW r \in Requests, WakeUp(r)
    PROVE  /\ \A q \in Requests : q # r => SameLease(q)
           /\ \A t \in Sockets : SocketFits(t)'
  <1> DEFINE gone == Expired(ClientOf[r])
             left == [s \in Sockets |-> IF s \in gone THEN "closing" ELSE st[s]]
  <1>1. gone \subseteq FreeSockets
    BY DEF Expired
  <1>2. \A t \in Sockets : left[t] = IF t \in gone THEN "closing" ELSE st[t]
    OBVIOUS
  <1>3. \A t \in gone : st[t] = "free" /\ holder[t] = None
    BY <1>1 DEF FreeSockets, OutcomeInv, SocketFits
  <1> HIDE DEF gone
  <1>4. CASE \E s \in Sockets : st[s] \in {"free", "unborn"} /\ GiveSocket(r, s, left)
    <2> PICK s \in Sockets : st[s] \in {"free", "unborn"} /\ GiveSocket(r, s, left)
      BY <1>4
    <2>1. holder[s] = None
      BY DEF OutcomeInv, SocketFits
    <2>2. /\ \A t \in Sockets : t # s => holder'[t] = holder[t] /\ st'[t] = left[t]
          /\ holder'[s] = r /\ st'[s] = "busy"
      BY DEF GiveSocket, TypeOK, SocketsOK
    <2> QED
      BY <1>2, <1>3, <2>1, <2>2, ConfigAssumption DEF OutcomeInv, SocketFits, SameLease
  <1>5. CASE st' = left /\ UNCHANGED holder
    BY <1>2, <1>3, <1>5, ConfigAssumption DEF OutcomeInv, SocketFits, SameLease
  <1>6. AddRequest(r, gone)
    BY DEF WakeUp, gone
  <1> QED
    BY <1>4, <1>5, <1>6 DEF AddRequest, FreeSockets, NextUnborn

\* controller.abort() destroys the request it is about, and no other.
LEMMA AbortFits ==
    ASSUME TypeOK, LeaseInv, OutcomeInv, NEW r \in Requests, ControllerAbort(r),
           UNCHANGED <<phase, socketOf, holder>>,
           \A q \in Requests \ {r} : op'[q] = op[q],
           op'[r] = op[r] \/ (op'[r] = "rejected" /\ phase[r] \notin {"idle", "sleeping"})
    PROVE  /\ \A q \in Requests : Fits(q)'
           /\ \A s \in Sockets : SocketFits(s)'
  <1>0. Fits(r)
    BY DEF OutcomeInv
  <1>1. ASSUME NEW q \in Requests, q # r PROVE SameRequest(q)
    BY <1>1, ConfigAssumption DEF ControllerAbort, SameRequest, Settle, Unheard, TypeOK, RequestsOK
  <1>2. CASE r \in aborted \/ phase[r] \in {"idle", "sleeping"}
    <2>1. UNCHANGED <<destroyed, st, listeners, onTimeout, outcome>>
      BY <1>2 DEF ControllerAbort
    <2>2. \A q \in Requests : q # r => Fits(q)'
      BY <1>1, <2>1, SocketsStay, Untouched DEF OutcomeInv
    <2>3. Fits(r)'
      <3>1. NotCreatedFits(r)' /\ WaitingFits(r)'
        BY <1>0, <1>2, <2>1 DEF Fits, OpFits, NotCreatedFits, WaitingFits
      <3>2. SentFits(r)' /\ OpFits(r)'
        BY <1>0, <1>2, <2>1 DEF Fits, SentFits, OpFits, ControllerAbort, UsesSocket
      <3>3. UsesSocket(r)' /\ OverFits(r)' /\ HeardFits(r)'
        BY <1>0, <2>1 DEF Fits, UsesSocket, OverFits, HeardFits
      <3> QED
        BY <3>1, <3>2, <3>3 DEF Fits
    <2> QED
      BY <2>1, <2>2, <2>3, SocketsStay
  <1>3. CASE r \notin aborted /\ phase[r] \notin {"idle", "sleeping"}
    <2>1. /\ aborted' = aborted \cup {r}
          /\ destroyed' = destroyed \cup {r}
          /\ st' = IF r \in destroyed THEN st ELSE Destroy({socketOf[r]})
          /\ listeners' = [listeners EXCEPT ![r] = "noop"]
          /\ onTimeout' = onTimeout \ {r}
          /\ outcome' = Settle(r, "aborted")
      BY <1>3 DEF ControllerAbort, Unheard
    <2>2. /\ \A q \in Requests : SameLease(q)
          /\ \A s \in Sockets : SocketFits(s)'
          /\ \A s \in Sockets : st'[s] = "busy" => st[s] = "busy" /\ (r \in destroyed \/ s # socketOf[r])
          /\ \A s \in Sockets : st[s] # "busy" /\ holder[s] # None => st'[s] = st[s]
      BY <2>1, DestroySpares, SocketsStay
    <2>3. \A q \in Requests : q # r => Fits(q)'
      BY <1>1, <2>2, Untouched DEF OutcomeInv
    <2>4. /\ outcome'[r] = IF outcome[r] = "pending" THEN "aborted" ELSE outcome[r]
          /\ listeners'[r] = "noop" /\ r \in destroyed' /\ r \notin onTimeout'
          /\ phase'[r] = phase[r] /\ socketOf'[r] = socketOf[r] /\ holder' = holder
      BY <2>1 DEF Settle, TypeOK, RequestsOK
    <2>5. Fits(r)'
      <3>1. NotCreatedFits(r)' /\ WaitingFits(r)'
        BY <1>0, <1>3, <2>4 DEF Fits, NotCreatedFits, WaitingFits
      <3>2. SentFits(r)' /\ HeardFits(r)'
        BY <1>0, <1>3, <2>4 DEF Fits, SentFits, HeardFits
      <3>3. OpFits(r)'
        BY <1>0, <1>3, <2>4 DEF Fits, OpFits
      <3>4. UsesSocket(r)'
        BY <1>0, <2>4, <2>2 DEF Fits, UsesSocket
      <3>5. OverFits(r)'
        BY <1>0, <2>4, <2>2, ConfigAssumption DEF Fits, OverFits
      <3> QED
        BY <3>1, <3>2, <3>3, <3>4, <3>5 DEF Fits
    <2> QED
      BY <2>2, <2>3, <2>5
  <1> QED
    BY <1>2, <1>3

\* The steps of a request keep the invariant.
LEMMA RequestStepFits ==
    ASSUME TypeOK, TypeOK', LeaseInv, OutcomeInv, NEW r \in Requests, RequestStep(r)
    PROVE  OutcomeInv'
  <1>0. Fits(r) /\ ~uncaught
    BY DEF OutcomeInv
  <1>a. ASSUME \A q \in Requests : q # r => SameRequest(q) /\ SameLease(q),
               Fits(r)', \A s \in Sockets : SocketFits(s)', ~uncaught'
        PROVE  OutcomeInv'
    BY <1>a, Untouched DEF OutcomeInv
  <1>1. CASE Call(r)
    <2>1. \A q \in Requests : q # r => SameRequest(q)
      BY <1>1 DEF Call, SameRequest, TypeOK, RequestsOK, sockVars
    <2>2. /\ phase[r] = "idle" /\ phase'[r] = "sleeping" /\ op'[r] = "running"
          /\ UNCHANGED <<socketOf, destroyed, listeners, outcome, aborted, onTimeout,
                         st, holder, uncaught>>
      BY <1>1 DEF Call, LeaseInv, TypeOK, RequestsOK, sockVars
    <2>3. Fits(r)'
      BY <1>0, <2>2 DEF Fits, NotCreatedFits, WaitingFits, SentFits, UsesSocket, OverFits,
                        HeardFits, OpFits
    <2> QED
      BY <1>0, <1>a, <2>1, <2>2, <2>3, SocketsStay
  <1>2. CASE WakeUp(r)
    <2>1. \A q \in Requests : q # r => SameRequest(q)
      BY <1>2 DEF WakeUp, SameRequest, Attached, BornDestroyed, TypeOK, RequestsOK
    <2>2. /\ phase[r] = "sleeping" /\ phase'[r] = "waiting" /\ listeners'[r] = "pool"
          /\ r \in destroyed' <=> r \in destroyed \/ r \in aborted
          /\ UNCHANGED <<socketOf, outcome, op, aborted, onTimeout, uncaught>>
      BY <1>2 DEF WakeUp, Attached, BornDestroyed, TypeOK, RequestsOK
    <2>3. op[r] = "running"
      BY <1>0, <2>2 DEF Fits, NotCreatedFits, LeaseInv
    <2>4. Fits(r)'
      BY <1>0, <2>2, <2>3 DEF Fits, NotCreatedFits, WaitingFits, SentFits, UsesSocket, OverFits,
                              HeardFits, OpFits
    <2> QED
      BY <1>0, <1>2, <1>a, <2>1, <2>2, <2>4, WakeUpSpares
  <1>3. CASE OnSocket(r)
    <2>1. PICK s \in Sockets :
             /\ phase[r] = "waiting" /\ holder[s] = r /\ r \notin destroyed
             /\ phase' = [phase EXCEPT ![r] = "sent"]
             /\ socketOf' = [socketOf EXCEPT ![r] = s]
             /\ onTimeout' = onTimeout \cup {r}
             /\ UNCHANGED <<destroyed, listeners, outcome, op, aborted, st, holder, uncaught>>
      BY <1>3 DEF OnSocket, Heard
    <2>2. \A q \in Requests : q # r => SameRequest(q)
      BY <2>1 DEF SameRequest, TypeOK, RequestsOK
    <2>3. phase'[r] = "sent" /\ socketOf'[r] = s /\ r \in onTimeout'
      BY <2>1 DEF TypeOK, RequestsOK
    <2>4. Fits(r)'
      BY <1>0, <2>1, <2>3 DEF Fits, NotCreatedFits, WaitingFits, SentFits, UsesSocket, OverFits,
                              HeardFits, OpFits
    <2> QED
      BY <1>0, <1>a, <2>1, <2>2, <2>4, SocketsStay
  <1>4. CASE OnSocketTooLate(r)
    <2>1. PICK s \in Sockets :
             /\ phase[r] = "waiting" /\ holder[s] = r /\ r \in destroyed
             /\ phase' = [phase EXCEPT ![r] = "failed"]
             /\ ErrorEvent(r, "aborted")
             /\ IF st[s] = "busy" THEN Freed(s, armed) ELSE UNCHANGED <<st, holder>>
             /\ UNCHANGED <<socketOf, destroyed, op, aborted>>
      BY <1>4 DEF OnSocketTooLate
    <2>2. \A q \in Requests : q # r => SameRequest(q)
      BY <2>1 DEF SameRequest, TypeOK, RequestsOK, ErrorEvent, Settle, Unheard
    <2>3. /\ phase'[r] = "failed" /\ r \notin onTimeout'
          /\ outcome'[r] \in {outcome[r], "aborted"}
          /\ outcome'[r] # outcome[r] => outcome[r] = "pending"
          /\ uncaught' = (uncaught \/ listeners[r] = "none")
      BY <2>1 DEF TypeOK, RequestsOK, ErrorEvent, Settle, Unheard
    <2>4. ~uncaught'
      BY <1>0, <2>1, <2>3 DEF Fits, WaitingFits
    <2>5. ASSUME \A t \in Sockets : holder'[t] = r => st'[t] = "closing"
          PROVE  Fits(r)'
      BY <1>0, <2>1, <2>3, <2>5 DEF Fits, NotCreatedFits, WaitingFits, SentFits, UsesSocket,
                                    OverFits, HeardFits, OpFits
    <2>6. CASE st[s] = "busy" /\ Freed(s, armed)
      BY <1>a, <2>1, <2>2, <2>4, <2>5, <2>6, FreedSpares
    <2>7. CASE st[s] # "busy" /\ UNCHANGED <<st, holder>>
      <3>1. st[s] = "closing"
        BY <2>1, <2>7, ConfigAssumption DEF OutcomeInv, SocketFits, TypeOK, SocketsOK
      <3>2. \A t \in Sockets : holder'[t] = r => st'[t] = "closing"
        BY <2>1, <2>7, <3>1, ConfigAssumption DEF LeaseInv, HoldersOK
      <3> QED
        BY <1>a, <2>2, <2>4, <2>5, <2>7, <3>2, SocketsStay
    <2> QED
      BY <2>1, <2>6, <2>7
  <1>5. CASE Continue(r)
    <2>1. /\ op[r] = "running" /\ outcome[r] # "pending"
          /\ UNCHANGED <<phase, socketOf, holder, uncaught>>
      BY <1>5 DEF Continue
    <2>2. phase[r] \notin {"idle", "sleeping"}
      BY <1>0, <2>1 DEF Fits, NotCreatedFits
    <2>3. CASE /\ outcome[r] = "response" /\ op' = [op EXCEPT ![r] = AfterResponse(r)]
               /\ UNCHANGED <<aborted, destroyed, st, listeners, onTimeout, outcome>>
      <3>1. \A q \in Requests : q # r => SameRequest(q)
        BY <2>1, <2>3 DEF SameRequest, TypeOK, RequestsOK
      <3>2. op'[r] = IF KindOf[r] = "query" THEN "fulfilled" ELSE "draining"
        BY <2>3 DEF TypeOK, RequestsOK, AfterResponse
      <3>3. phase[r] \notin {"waiting", "sent"}
        BY <1>0, <2>3 DEF Fits, WaitingFits, SentFits
      <3>4. Fits(r)'
        BY <1>0, <2>1, <2>2, <2>3, <3>2, <3>3
           DEF Fits, NotCreatedFits, WaitingFits, SentFits, UsesSocket, OverFits, HeardFits, OpFits
      <3> QED
        BY <1>0, <1>a, <2>1, <2>3, <3>1, <3>4, SocketsStay
    <2>4. CASE op' = [op EXCEPT ![r] = "rejected"] /\ ControllerAbort(r)
      <3>1. (\A q \in Requests \ {r} : op'[q] = op[q]) /\ op'[r] = "rejected"
        BY <2>4 DEF TypeOK, RequestsOK
      <3> QED
        BY <1>0, <2>1, <2>2, <2>4, <3>1, AbortFits DEF OutcomeInv
    <2> QED
      BY <1>5, <2>3, <2>4 DEF Continue, Caught
  <1>6. CASE Drained(r)
    <2>1. /\ op[r] = "draining" /\ phase[r] \in {"ended", "failed"}
          /\ UNCHANGED <<phase, socketOf, holder, uncaught>>
      BY <1>6 DEF Drained
    <2>2. PICK how \in {"fulfilled", "rejected"} :
             /\ op' = [op EXCEPT ![r] = how]
             /\ \/ how = "rejected" /\ ControllerAbort(r)
                \/ UNCHANGED <<aborted, destroyed, st, listeners, armed, onTimeout, outcome>>
      BY <1>6 DEF Drained, Drain, Caught
    <2>5. (\A q \in Requests \ {r} : op'[q] = op[q]) /\ op'[r] = how
      BY <2>2 DEF TypeOK, RequestsOK
    <2>3. CASE how = "rejected" /\ ControllerAbort(r)
      BY <1>0, <2>1, <2>5, <2>3, AbortFits DEF OutcomeInv
    <2>4. CASE UNCHANGED <<aborted, destroyed, st, listeners, onTimeout, outcome>>
      <3>1. \A q \in Requests : q # r => SameRequest(q)
        BY <2>1, <2>5, <2>4 DEF SameRequest, TypeOK, RequestsOK
      <3>2. Fits(r)'
        BY <1>0, <2>1, <2>5, <2>4
           DEF Fits, NotCreatedFits, WaitingFits, SentFits, UsesSocket, OverFits, HeardFits,
               OpFits
      <3> QED
        BY <1>0, <1>a, <2>1, <2>4, <3>1, <3>2, SocketsStay
    <2> QED
      BY <2>2, <2>3, <2>4
  <1>7. CASE UserAbort(r)
    <2>1. UNCHANGED <<phase, socketOf, op, holder, uncaught>>
      BY <1>7 DEF UserAbort
    <2>2. CASE ControllerAbort(r)
      BY <1>0, <2>1, <2>2, AbortFits DEF OutcomeInv
    <2>3. CASE UNCHANGED <<aborted, destroyed, st, listeners, onTimeout, outcome>>
      <3>1. \A q \in Requests : SameRequest(q)
        BY <2>1, <2>3 DEF SameRequest
      <3> QED
        BY <1>0, <2>1, <2>3, <3>1, SocketsStay, Untouched DEF OutcomeInv
    <2> QED
      BY <1>7, <2>2, <2>3 DEF UserAbort
  <1>8. CASE ConsumerDestroy(r)
    <2>1. /\ phase[r] = "body" /\ st' = Destroy({socketOf[r]}) /\ destroyed' = destroyed \cup {r}
          /\ UNCHANGED <<phase, socketOf, listeners, outcome, op, aborted, holder, onTimeout,
                         uncaught>>
      BY <1>8 DEF ConsumerDestroy
    <2>2. \A q \in Requests : q # r => SameRequest(q)
      BY <2>1 DEF SameRequest
    <2>3. Fits(r)'
      BY <1>0, <2>1, DestroySpares
         DEF Fits, NotCreatedFits, WaitingFits, SentFits, UsesSocket, OverFits, HeardFits, OpFits
    <2> QED
      BY <1>0, <1>a, <2>1, <2>2, <2>3, DestroySpares
  <1>9. CASE Response(r)
    <2>1. /\ phase[r] = "sent" /\ InFlight(r)
          /\ UNCHANGED <<socketOf, destroyed, listeners, op, aborted, st, holder, onTimeout,
                         uncaught>>
      BY <1>9 DEF Response, sockVars
    <2>2. r \notin destroyed /\ r \in onTimeout /\ outcome[r] = "pending" /\ op[r] = "running"
      BY <1>0, <2>1 DEF Fits, UsesSocket, SentFits, InFlight
    <2>3. \A q \in Requests : q # r => SameRequest(q)
      BY <1>9, <2>1 DEF Response, Settle, SameRequest, TypeOK, RequestsOK
    <2>4. \/ phase'[r] = "body" /\ outcome'[r] \in {"response", "undecodable"}
          \/ phase'[r] = "errbody" /\ outcome'[r] = "pending"
      BY <1>9, <2>2 DEF Response, Settle, TypeOK, RequestsOK
    <2>5. Fits(r)'
      BY <1>0, <2>1, <2>2, <2>4
         DEF Fits, NotCreatedFits, WaitingFits, SentFits, UsesSocket, OverFits, HeardFits, OpFits
    <2> QED
      BY <1>0, <1>a, <2>1, <2>3, <2>5, SocketsStay
  <1>10. CASE BodyEnd(r)
    <2>1. /\ phase[r] \in {"body", "errbody"} /\ InFlight(r) /\ st[socketOf[r]] = "busy"
          /\ phase' = [phase EXCEPT ![r] = "ended"]
          /\ outcome' = IF phase[r] = "errbody" THEN Settle(r, "server") ELSE outcome
          /\ UNCHANGED <<socketOf, op, aborted, uncaught>>
      BY <1>10 DEF BodyEnd, InFlight
    <2>2. socketOf[r] \in Sockets /\ holder[socketOf[r]] = r /\ r \notin destroyed
      BY <1>0, <2>1 DEF Fits, UsesSocket
    <2>3. \A q \in Requests : q # r => SameRequest(q)
      BY <1>10, <2>1 DEF BodyEnd, Settle, Unheard, SameRequest, TypeOK, RequestsOK
    <2>4. /\ phase'[r] = "ended"
          /\ outcome'[r] = IF outcome[r] = "pending" /\ phase[r] = "errbody"
                           THEN "server" ELSE outcome[r]
      BY <2>1 DEF Settle, TypeOK, RequestsOK
    <2>5. CASE /\ destroyed' = destroyed \cup {r} /\ onTimeout' = onTimeout \ {r}
               /\ Freed(socketOf[r], armed \ {socketOf[r]})
      <3>1. /\ \A q \in Requests : q # r => SameLease(q)
            /\ \A t \in Sockets : SocketFits(t)'
            /\ \A t \in Sockets : holder'[t] = r => st'[t] = "closing"
        BY <2>1, <2>2, <2>5, FreedSpares
      <3>2. Fits(r)'
        BY <1>0, <2>1, <2>2, <2>4, <2>5, <3>1
           DEF Fits, NotCreatedFits, WaitingFits, SentFits, UsesSocket, OverFits, HeardFits, OpFits
      <3> QED
        BY <1>0, <1>a, <2>1, <2>3, <3>1, <3>2
    <2>6. CASE /\ st' = Destroy({socketOf[r]})
               /\ UNCHANGED <<destroyed, listeners, onTimeout, holder>>
      <3>1. st'[socketOf[r]] = "closing"
        BY <2>1, <2>2, <2>6 DEF Destroy
      <3>2. \A t \in Sockets : holder'[t] = r => st'[t] = "closing"
        BY <2>2, <2>6, <3>1, ConfigAssumption DEF LeaseInv, HoldersOK
      <3>3. Fits(r)'
        BY <1>0, <2>1, <2>2, <2>4, <2>6, <3>2
           DEF Fits, NotCreatedFits, WaitingFits, SentFits, UsesSocket, OverFits, HeardFits, OpFits
      <3> QED
        BY <1>0, <1>a, <2>1, <2>3, <2>6, <3>3, DestroySpares
    <2> QED
      BY <1>10, <2>5, <2>6 DEF BodyEnd, Unheard
  <1>11. CASE RequestTimeout(r) \/ SourceError(r)
    <2>1. PICK how \in {"timeout", "source"} :
             /\ outcome' = Settle(r, how)
             /\ listeners' = [listeners EXCEPT ![r] = "none"]
             /\ destroyed' = destroyed \cup {r}
             /\ onTimeout' = onTimeout \ {r}
             /\ st' = IF r \in destroyed THEN st ELSE Destroy({socketOf[r]})
             /\ UNCHANGED <<phase, socketOf, op, aborted, holder, uncaught>>
      <3>1. CASE RequestTimeout(r)
        BY <3>1 DEF RequestTimeout, Unheard
      <3>2. CASE SourceError(r)
        <4>1. r \notin destroyed
          BY <1>0, <3>2 DEF SourceError, InFlight, Fits, UsesSocket
        <4> QED
          BY <3>2, <4>1 DEF SourceError, Unheard
      <3> QED
        BY <1>11, <3>1, <3>2
    <2>2. /\ r \in onTimeout /\ holder[socketOf[r]] = r /\ socketOf[r] \in Sockets
          /\ st[socketOf[r]] = "busy"
      <3>1. CASE RequestTimeout(r)
        BY <1>0, <3>1 DEF RequestTimeout, Fits, HeardFits
      <3>2. CASE SourceError(r)
        BY <1>0, <3>2 DEF SourceError, InFlight, Fits, UsesSocket
      <3> QED
        BY <1>11, <3>1, <3>2
    <2>3. phase[r] \in {"sent", "body", "errbody"}
      BY <1>0, <2>2 DEF Fits, HeardFits, OverFits
    <2>4. \A q \in Requests : q # r => SameRequest(q)
      BY <2>1 DEF Settle, SameRequest, TypeOK, RequestsOK
    <2>5. /\ outcome'[r] = IF outcome[r] = "pending" THEN how ELSE outcome[r]
          /\ listeners'[r] = "none" /\ r \in destroyed' /\ r \notin onTimeout'
      BY <2>1 DEF Settle, TypeOK, RequestsOK
    <2>6. /\ \A q \in Requests : SameLease(q)
          /\ \A s \in Sockets : SocketFits(s)'
          /\ st'[socketOf[r]] = "busy" => r \in destroyed
      BY <2>1, <2>2, DestroySpares, SocketsStay
    <2>7. SentFits(r)'
      BY <1>0, <2>1, <2>2, <2>5 DEF Fits, SentFits, OpFits
    <2>8. UsesSocket(r)'
      BY <1>0, <2>1, <2>2, <2>3, <2>5, <2>6 DEF Fits, UsesSocket
    <2>9. NotCreatedFits(r)' /\ WaitingFits(r)' /\ OverFits(r)' /\ HeardFits(r)' /\ OpFits(r)'
      BY <1>0, <2>1, <2>3, <2>5
         DEF Fits, NotCreatedFits, WaitingFits, OverFits, HeardFits, OpFits
    <2> QED
      BY <1>0, <1>a, <2>1, <2>4, <2>6, <2>7, <2>8, <2>9 DEF Fits
  <1> QED
    BY <1>1, <1>2, <1>3, <1>4, <1>5, <1>6, <1>7, <1>8, <1>9, <1>10, <1>11 DEF RequestStep

\* The 'close' of a socket keeps the invariant: LoopIdle says that a request
\* whose error nobody would hear has been caught by its operation before.
LEMMA CloseFits ==
    ASSUME TypeOK, TypeOK', LeaseInv, OutcomeInv, NEW s \in Sockets, SocketClose(s)
    PROVE  OutcomeInv'
  <1>0. UNCHANGED <<socketOf, op, aborted>> /\ LoopIdle /\ st[s] = "closing"
    BY DEF SocketClose
  <1>1. /\ \A q \in Requests : q # holder[s] => SameLease(q)
        /\ \A t \in Sockets : SocketFits(t)'
        /\ \A t \in Sockets : holder[s] # None => holder'[t] # holder[s]
    BY CloseSpares
  <1>2. CASE UNCHANGED <<outcome, phase, destroyed, onTimeout, listeners, uncaught>>
             /\ holder[s] \notin InPhase({"sent", "errbody", "body", "ended"})
    <2>1. \A q \in Requests : SameRequest(q)
      BY <1>0, <1>2 DEF SameRequest
    <2>2. ASSUME NEW r \in Requests, r = holder[s] PROVE Fits(r)'
      <3>1. phase[r] \notin {"sent", "errbody", "body", "ended"} /\ Fits(r)
        BY <1>2, <2>2 DEF InPhase, OutcomeInv
      <3>2. \A t \in Sockets : holder'[t] # r
        BY <1>1, <2>2, ConfigAssumption
      <3>3. SameRequest(r)
        BY <2>1
      <3> QED
        BY <3>1, <3>2, <3>3
           DEF SameRequest, Fits, NotCreatedFits, WaitingFits, SentFits, UsesSocket, OverFits,
               HeardFits, OpFits
    <2>3. \A q \in Requests : Fits(q)'
      BY <1>1, <2>1, <2>2, Untouched DEF OutcomeInv
    <2> QED
      BY <1>1, <1>2, <2>3 DEF OutcomeInv
  <1>3. CASE holder[s] \in InPhase({"sent", "errbody", "body", "ended"})
    <2> PICK r \in Requests : r = holder[s] /\ phase[r] \in {"sent", "errbody", "body", "ended"}
      BY <1>3 DEF InPhase
    <2>0. Fits(r) /\ ~uncaught
      BY DEF OutcomeInv
    <2>1. \A t \in Sockets : holder'[t] # r
      BY <1>1, ConfigAssumption
    <2>2. /\ phase'[r] \in {"ended", "failed"}
          /\ phase[r] = "ended" <=> phase'[r] = "ended"
          /\ r \in destroyed' /\ r \notin onTimeout'
          /\ outcome'[r] \in {outcome[r], "network"}
          /\ outcome'[r] # outcome[r] => outcome[r] = "pending"
          /\ \A q \in Requests : q # r => SameRequest(q)
      <3>1. CASE phase[r] = "sent" /\ ErrorEvent(r, "network")
                 /\ phase' = [phase EXCEPT ![r] = "failed"] /\ destroyed' = destroyed \cup {r}
        BY <1>0, <3>1 DEF ErrorEvent, Settle, Unheard, SameRequest, TypeOK, RequestsOK
      <3>2. CASE /\ outcome' = IF phase[r] = "errbody" THEN Settle(r, "network") ELSE outcome
                 /\ phase' = [phase EXCEPT ![r] = IF @ = "ended" THEN @ ELSE "failed"]
                 /\ destroyed' = destroyed \cup {r}
                 /\ onTimeout' = Unheard(r)
                 /\ listeners' = [listeners EXCEPT ![r] = IF @ = "pool" THEN "none" ELSE @]
        BY <1>0, <3>2 DEF Settle, Unheard, SameRequest, TypeOK, RequestsOK
      <3> QED
        BY <3>1, <3>2 DEF SocketClose, InPhase
    <2>3. ~uncaught'
      <3>1. CASE ErrorEvent(r, "network") /\ phase[r] = "sent"
        <4>1. listeners[r] # "none"
          BY <1>0, <2>0, <3>1 DEF Fits, SentFits, LoopIdle, Resumable
        <4> QED
          BY <2>0, <3>1, <4>1 DEF ErrorEvent
      <3> QED
        BY <2>0, <3>1 DEF SocketClose, InPhase
    <2>4. Fits(r)'
      BY <1>0, <2>0, <2>1, <2>2
         DEF Fits, NotCreatedFits, WaitingFits, SentFits, UsesSocket, OverFits, HeardFits, OpFits
    <2> QED
      BY <1>1, <2>2, <2>3, <2>4, Untouched DEF OutcomeInv
  <1> QED
    BY <1>2, <1>3 DEF SocketClose, InPhase

\* Whatever else destroys sockets.
LEMMA OtherStepFits ==
    ASSUME TypeOK, OutcomeInv,
           UNCHANGED <<phase, socketOf, op, listeners, outcome, destroyed, onTimeout, aborted,
                       holder, uncaught>>,
           st' = st \/ \E S : st' = Destroy(S)
    PROVE  OutcomeInv'
  <1>1. \A r \in Requests : SameRequest(r)
    BY DEF SameRequest
  <1>2. (\A r \in Requests : SameLease(r)) /\ (\A s \in Sockets : SocketFits(s)')
    BY DestroySpares, SocketsStay
  <1> QED
    BY <1>1, <1>2, Untouched DEF OutcomeInv

\* What the steps of nobody in particular leave alone.
LEMMA QuietSteps ==
    ASSUME \/ \E s \in Sockets : \/ PeerReset(s) \/ ServerIdleClose(s) \/ NoticeClose(s)
                                 \/ \E c \in Clients : IdleTimeout(c, s)
           \/ \E o \in orphans : OrphanTimeout(o)
           \/ CloseClient \/ Tick \/ UNCHANGED vars
    PROVE  /\ UNCHANGED <<phase, socketOf, op, listeners, outcome, destroyed, onTimeout, aborted,
                          holder, queue, uncaught>>
           /\ st' = st \/ \E S : st' = Destroy(S)
  <1>1. ASSUME NEW s \in Sockets, PeerReset(s) \/ ServerIdleClose(s) \/ NoticeClose(s)
        PROVE  /\ UNCHANGED <<reqVars, onTimeout, holder, queue, uncaught>>
               /\ st' = st \/ \E S : st' = Destroy(S)
    BY <1>1 DEF PeerReset, ServerIdleClose, NoticeClose
  <1>2. ASSUME NEW s \in Sockets, NEW c \in Clients, IdleTimeout(c, s)
        PROVE  /\ UNCHANGED <<reqVars, onTimeout, holder, queue, uncaught>>
               /\ st' = st \/ \E S : st' = Destroy(S)
    BY <1>2 DEF IdleTimeout
  <1>3. ASSUME NEW o \in orphans, OrphanTimeout(o)
        PROVE  /\ UNCHANGED <<reqVars, onTimeout, holder, queue, uncaught>>
               /\ st' = st \/ \E S : st' = Destroy(S)
    BY <1>3 DEF OrphanTimeout
  <1>4. CloseClient \/ Tick \/ UNCHANGED vars
            => /\ UNCHANGED <<reqVars, onTimeout, holder, queue, uncaught>>
               /\ st' = st \/ \E S : st' = Destroy(S)
    BY DEF CloseClient, Tick, vars, sockVars
  <1>5. /\ UNCHANGED <<reqVars, onTimeout, holder, queue, uncaught>>
        /\ st' = st \/ \E S : st' = Destroy(S)
    BY <1>1, <1>2, <1>3, <1>4
  <1> QED
    BY <1>5 DEF reqVars

\* The invariant of all requests and sockets holds in every reachable state.
THEOREM OutcomeInvariant == Spec => []OutcomeInv
<1>1. Init => OutcomeInv
  <2> SUFFICES ASSUME Init PROVE OutcomeInv
    OBVIOUS
  <2>1. ASSUME NEW r \in Requests PROVE Fits(r)
    BY ConfigAssumption
       DEF Init, Fits, NotCreatedFits, WaitingFits, SentFits, UsesSocket, OverFits, HeardFits, OpFits
  <2> QED
    BY <2>1 DEF Init, OutcomeInv, SocketFits
<1>2. TypeOK /\ TypeOK' /\ LeaseInv /\ OutcomeInv /\ [Next]_vars => OutcomeInv'
  BY RequestStepFits, CloseFits, QuietSteps, OtherStepFits DEF Next, SocketStep
<1> QED
  BY <1>1, <1>2, TypeCorrect, LeaseInvariant, PTL DEF Spec

-----------------------------------------------------------------------------
(* What holds in every configuration, whatever the users, the server and the *)
(* network do                                                                *)

\* Whatever fails and in whatever order, no 'error' event of a request goes
\* unheard: an abort, a timeout or a failing source that removed the pool's
\* listener never leaves a later socket error to crash the process.
THEOREM NoErrorUnheard == Spec => []~uncaught
<1>1. OutcomeInv => ~uncaught
  BY DEF OutcomeInv
<1> QED
  BY <1>1, OutcomeInvariant, PTL

\* What was reported as done was received, or cut by the server.
DoneInv ==
    \A r \in Requests :
        op[r] = "fulfilled" /\ KindOf[r] # "query"
            => phase[r] = "ended" \/ socketOf[r] \in peerClosed

\* drainStreamInternal settles on what became of the response.
LEMMA DrainTold ==
    ASSUME TypeOK, OutcomeInv, DoneInv, NEW r \in Requests, Continue(r) \/ Drained(r)
    PROVE  DoneInv'
  <1>1. UNCHANGED <<phase, socketOf, peerClosed>>
    BY DEF Continue, Drained
  <1>2. \A q \in Requests : q # r => op'[q] = op[q]
    BY DEF Continue, Drained, TypeOK, RequestsOK
  <1>3. ASSUME op'[r] = "fulfilled", KindOf[r] # "query"
        PROVE  phase[r] = "ended" \/ socketOf[r] \in peerClosed
    <2>1. ~Continue(r)
      BY <1>3 DEF Continue, AfterResponse, TypeOK, RequestsOK
    <2>2. "fulfilled" \in Drain(r)
      BY <1>3, <2>1 DEF Drained, TypeOK, RequestsOK
    <2> QED
      BY <2>2 DEF Drain
  <1> QED
    BY <1>1, <1>2, <1>3 DEF DoneInv

\* A request that is over keeps its end, its socket and its outcome.
LEMMA DoneKept ==
    ASSUME OutcomeInv, DoneInv, op' = op \/ \E r \in Requests : Call(r),
           TypeOK, peerClosed \subseteq peerClosed',
           \A q \in Requests : phase[q] \in {"ended", "failed"} =>
              /\ socketOf'[q] = socketOf[q]
              /\ phase[q] = "ended" => phase'[q] = "ended"
    PROVE  DoneInv'
  <1>1. \A q \in Requests : op'[q] = "fulfilled" => op[q] = "fulfilled"
    BY DEF Call, TypeOK, RequestsOK
  <1>2. \A q \in Requests : op[q] = "fulfilled" /\ KindOf[q] # "query"
                                => phase[q] \in {"ended", "failed"}
    BY DEF OutcomeInv, Fits, OpFits
  <1> QED
    BY <1>1, <1>2 DEF DoneInv

LEMMA DoneStep == LeaseInv /\ OutcomeInv /\ DoneInv /\ [Next]_vars => DoneInv'
<1> SUFFICES ASSUME TypeOK, LeaseInv, OutcomeInv, DoneInv, [Next]_vars PROVE DoneInv'
  BY DEF LeaseInv
<1>1. ASSUME NEW r \in Requests, RequestStep(r) PROVE DoneInv'
  <2>1. CASE Continue(r) \/ Drained(r)
    BY <2>1, DrainTold
  <2>2. CASE \/ Call(r) \/ WakeUp(r) \/ OnSocket(r) \/ OnSocketTooLate(r)
             \/ Response(r) \/ BodyEnd(r)
    <3>1. (op' = op \/ Call(r)) /\ peerClosed' = peerClosed
      BY <2>2 DEF Call, WakeUp, OnSocket, OnSocketTooLate, Response, BodyEnd, sockVars
    <3>2. phase[r] \notin {"ended", "failed"}
      <4>1. CASE Call(r)
        BY <4>1 DEF Call, LeaseInv
      <4> QED
        BY <2>2, <4>1 DEF WakeUp, OnSocket, OnSocketTooLate, Response, BodyEnd
    <3>3. \A q \in Requests : q # r => phase'[q] = phase[q] /\ socketOf'[q] = socketOf[q]
      BY <2>2 DEF Call, WakeUp, OnSocket, OnSocketTooLate, Response, BodyEnd, TypeOK, RequestsOK
    <3> QED
      BY <3>1, <3>2, <3>3, DoneKept
  <2>3. CASE UserAbort(r) \/ ConsumerDestroy(r) \/ RequestTimeout(r) \/ SourceError(r)
    BY <2>3, DoneKept DEF UserAbort, ConsumerDestroy, RequestTimeout, SourceError
  <2> QED
    BY <1>1, <2>1, <2>2, <2>3 DEF RequestStep
<1>2. ASSUME NEW s \in Sockets, SocketClose(s) PROVE DoneInv'
  <2>1. UNCHANGED <<op, socketOf, peerClosed>>
    BY <1>2 DEF SocketClose
  <2>2. \A q \in Requests : phase[q] = "ended" => phase'[q] = "ended"
    BY <1>2 DEF SocketClose, InPhase, TypeOK, RequestsOK
  <2> QED
    BY <2>1, <2>2, DoneKept
<1>3. ASSUME \/ \E s \in Sockets : \/ PeerReset(s) \/ ServerIdleClose(s) \/ NoticeClose(s)
                                   \/ \E c \in Clients : IdleTimeout(c, s)
             \/ \E o \in orphans : OrphanTimeout(o)
             \/ CloseClient \/ Tick \/ UNCHANGED vars
      PROVE  DoneInv'
  <2>1. UNCHANGED <<op, phase, socketOf>>
    BY <1>3, QuietSteps
  <2>2. peerClosed \subseteq peerClosed'
    BY <1>3 DEF PeerReset, ServerIdleClose, NoticeClose, IdleTimeout, OrphanTimeout,
                CloseClient, Tick, vars, sockVars
  <2> QED
    BY <2>1, <2>2, DoneKept
<1> QED
  BY <1>1, <1>2, <1>3 DEF Next, SocketStep

\* Whatever is aborted, timed out or closed by the client meanwhile: a command
\* or an insert that is reported as done was answered, and its response was
\* received to the end or cut by the server.
THEOREM DoneReceived == Spec => []DoneMeansReceived
<1>1. Init => DoneInv
  BY DEF Init, DoneInv
<1>2. OutcomeInv /\ DoneInv => DoneMeansReceived
  BY DEF OutcomeInv, Fits, OpFits, DoneInv, DoneMeansReceived
<1> QED
  BY <1>1, <1>2, DoneStep, LeaseInvariant, OutcomeInvariant, PTL DEF Spec

\* Once the loop is idle an operation that was rejected leaves no socket in
\* use: the catch clause of every operation aborts what is still running.
THEOREM RejectedReleased == Spec => []RejectedHoldsNoSocket
<1>1. TypeOK /\ LeaseInv /\ OutcomeInv => RejectedHoldsNoSocket
  <2> SUFFICES ASSUME TypeOK, LeaseInv, OutcomeInv, LoopIdle, NEW s \in Sockets, st[s] = "busy"
               PROVE  holder[s] # None /\ op[holder[s]] # "rejected"
    BY DEF RejectedHoldsNoSocket
  <2>1. PICK r \in Requests : r = holder[s]
    BY DEF OutcomeInv, SocketFits, TypeOK, SocketsOK
  <2>2. Fits(r)
    BY DEF OutcomeInv
  <2>3. phase[r] \in {"sent", "body", "errbody"}
    <3>1. phase[r] \notin {"idle", "sleeping"}
      BY <2>1, ConfigAssumption DEF LeaseInv, HoldersOK
    <3>2. phase[r] # "waiting"
      BY <2>1 DEF LoopIdle, Assigned
    <3>3. phase[r] \notin {"ended", "failed"}
      BY <2>1, <2>2 DEF Fits, OverFits
    <3> QED
      BY <3>1, <3>2, <3>3 DEF TypeOK, RequestsOK, Phases
  <2>4. socketOf[r] = s
    BY <2>1, <2>2, <2>3, ConfigAssumption DEF Fits, UsesSocket, LeaseInv, HoldersOK
  <2>5. op[r] # "rejected"
    BY <2>2, <2>3, <2>4 DEF Fits, UsesSocket, OpFits
  <2> QED
    BY <2>1, <2>5, ConfigAssumption
<1> QED
  BY <1>1, TypeCorrect, LeaseInvariant, OutcomeInvariant, PTL

\* An aborted request that has no socket yet is never sent, and an operation
\* aborted before its response never succeeds.
THEOREM AbortsReject == Spec => AbortRejects
<1>1. TypeOK /\ OutcomeInv /\ [Next]_vars =>
         [\A r \in aborted :
             /\ phase[r] \in {"sleeping", "waiting"} => phase'[r] # "sent"
             /\ outcome[r] = "aborted" => op'[r] # "fulfilled"]_vars
  <2> SUFFICES ASSUME TypeOK, OutcomeInv, Next, NEW r \in aborted
               PROVE  /\ phase[r] \in {"sleeping", "waiting"} => phase'[r] # "sent"
                      /\ outcome[r] = "aborted" => op'[r] # "fulfilled"
    OBVIOUS
  <2>0. r \in Requests /\ Fits(r)
    BY DEF TypeOK, RequestsOK, OutcomeInv
  <2>1. op[r] \in {"draining", "fulfilled"} => outcome[r] # "aborted"
    BY <2>0 DEF Fits, OpFits
  <2>2. phase[r] = "waiting" => r \in destroyed
    BY <2>0 DEF Fits, OpFits
  <2>3. CASE UNCHANGED <<phase, op>>
    BY <2>1, <2>3
  <2>4. ASSUME NEW q \in Requests, RequestStep(q)
        PROVE  /\ phase[r] \in {"sleeping", "waiting"} => phase'[r] # "sent"
               /\ outcome[r] = "aborted" => op'[r] # "fulfilled"
    <3>1. CASE q # r
      <4>1. phase'[r] = phase[r] /\ op'[r] = op[r]
        BY <2>0, <2>4, <3>1
           DEF RequestStep, Call, WakeUp, OnSocket, OnSocketTooLate, Continue, Drained, UserAbort,
               ConsumerDestroy, Response, BodyEnd, RequestTimeout, SourceError, TypeOK, RequestsOK
      <4> QED
        BY <2>1, <4>1
    <3>2. CASE Call(r) \/ WakeUp(r) \/ OnSocket(r) \/ OnSocketTooLate(r)
      BY <2>0, <2>1, <2>2, <3>2
         DEF Call, WakeUp, OnSocket, OnSocketTooLate, TypeOK, RequestsOK
    <3>3. CASE Continue(r) \/ Drained(r)
      BY <2>0, <2>1, <3>3 DEF Continue, Drained, AfterResponse, TypeOK, RequestsOK
    <3>4. CASE \/ UserAbort(r) \/ ConsumerDestroy(r) \/ Response(r) \/ BodyEnd(r)
               \/ RequestTimeout(r) \/ SourceError(r)
      BY <2>0, <2>1, <3>4
         DEF UserAbort, ConsumerDestroy, Response, InFlight, BodyEnd, RequestTimeout, SourceError,
             TypeOK, RequestsOK
    <3> QED
      BY <2>4, <3>1, <3>2, <3>3, <3>4 DEF RequestStep
  <2>5. ASSUME NEW s \in Sockets, SocketClose(s)
        PROVE  /\ phase[r] \in {"sleeping", "waiting"} => phase'[r] # "sent"
               /\ outcome[r] = "aborted" => op'[r] # "fulfilled"
    <3>1. phase'[r] \in {phase[r], "failed"} /\ op' = op
      BY <2>0, <2>5 DEF SocketClose, InPhase, TypeOK, RequestsOK
    <3> QED
      BY <2>1, <3>1
  <2> QED
    BY <2>3, <2>4, <2>5, QuietSteps DEF Next, SocketStep
<1> QED
  BY <1>1, TypeCorrect, OutcomeInvariant, PTL DEF Spec, AbortRejects

\* The timeout of a socket is heard only by the request that has the socket,
\* and a live request on its socket hears it: a request never times out on
\* behalf of another.
TimeoutsAreOwned ==
    /\ \A r \in onTimeout : holder[socketOf[r]] = r
    /\ \A r \in Requests : InFlight(r) /\ r \notin destroyed => r \in onTimeout

\* Each socket's timeout is heard by the request that uses it and no other.
THEOREM TimeoutsOwned == Spec => []TimeoutsAreOwned
<1>1. TypeOK /\ OutcomeInv => TimeoutsAreOwned
  BY DEF OutcomeInv, Fits, HeardFits, UsesSocket, InFlight, TimeoutsAreOwned, TypeOK, SocketsOK
<1> QED
  BY <1>1, TypeCorrect, OutcomeInvariant, PTL

-----------------------------------------------------------------------------
(* Idle timers and sockets in use.  Two things can leave an idle timer       *)
(* running on a socket that a request uses: an abort between the creation of *)
(* the request and onSocketNT, which makes the agent free a socket that it   *)
(* has just handed out, and a second client on the same agent.  These are    *)
(* the only two.                                                             *)

OneClientPerAgent == \A c, d \in Clients : c = d

\* No request is destroyed while it waits for the agent to hand it a socket.
NoneAbortedWaiting == \A r \in destroyed : phase[r] # "waiting"

TimersInv ==
    /\ orphans = {}
    /\ ~Managed => \A c \in Clients : /\ known[c] = {}
                                      /\ \A s \in Sockets : handle[c][s] = 0
    /\ \A r \in Requests : InFlight(r) => \A c \in Clients : handle[c][socketOf[r]] = 0

\* The steps that start no timer and put no request on a socket.
LEMMA TimersKept ==
    ASSUME TypeOK, OutcomeInv, TimersInv, UNCHANGED orphans,
           \A c \in Clients : /\ known'[c] \subseteq known[c]
                              /\ \A s \in Sockets : handle'[c][s] \in {handle[c][s], 0},
           \A r \in Requests :
              phase'[r] \in {"sent", "body", "errbody"} =>
                 /\ phase[r] \in {"sent", "body", "errbody"}
                 /\ socketOf'[r] = socketOf[r]
                 /\ st'[socketOf[r]] = "busy" => st[socketOf[r]] = "busy"
    PROVE  TimersInv'
  <1>1. ASSUME NEW r \in Requests, InFlight(r)', NEW c \in Clients
        PROVE  handle'[c][socketOf'[r]] = 0
    <2>1. InFlight(r) /\ socketOf'[r] = socketOf[r]
      BY <1>1 DEF InFlight
    <2>2. handle[c][socketOf[r]] = 0
      BY <2>1 DEF TimersInv
    <2> QED
      BY <2>1, <2>2, BusyHasSocket
  <1>2. ~Managed => \A c \in Clients : /\ known'[c] = {}
                                       /\ \A s \in Sockets : handle'[c][s] = 0
    BY DEF TimersInv
  <1> QED
    BY <1>1, <1>2 DEF TimersInv

\* Of the requests on a socket, none is on a socket that another one has.
LEMMA OnOwnSocket ==
    ASSUME OutcomeInv, NEW r \in Requests, phase[r] \in {"sent", "body", "errbody"}
    PROVE  socketOf[r] \in Sockets /\ holder[socketOf[r]] = r
  BY DEF OutcomeInv, Fits, UsesSocket

LEMMA TimersStep ==
    ASSUME OneClientPerAgent, TypeOK, TypeOK', LeaseInv, OutcomeInv, NoneAbortedWaiting,
           TimersInv, [Next]_vars
    PROVE  TimersInv'
  <1>1. ASSUME NEW r \in Requests, WakeUp(r) PROVE TimersInv'
    <2>1. /\ UNCHANGED <<orphans, socketOf>>
          /\ \A c \in Clients : /\ known'[c] \subseteq known[c]
                                /\ \A s \in Sockets : handle'[c][s] \in {handle[c][s], 0}
          /\ \A q \in Requests : phase'[q] = phase[q] \/ phase'[q] = "waiting"
      BY <1>1, ConfigAssumption DEF WakeUp, TypeOK, PoolsOK, RequestsOK
    <2>2. \A s \in Sockets : holder[s] # None => (st'[s] = "busy" => st[s] = "busy")
      <3> DEFINE left == [s \in Sockets |-> IF s \in Expired(ClientOf[r])
                                            THEN "closing" ELSE st[s]]
      <3>1. \A s \in Sockets : left[s] = "busy" => st[s] = "busy"
        OBVIOUS
      <3>2. \A s \in Sockets : st[s] \in {"free", "unborn"} => holder[s] = None
        BY DEF OutcomeInv, SocketFits
      <3>3. CASE \E s \in Sockets : st[s] \in {"free", "unborn"} /\ GiveSocket(r, s, left)
        BY <3>1, <3>2, <3>3 DEF GiveSocket
      <3>4. CASE st' = left
        BY <3>1, <3>4
      <3> QED
        BY <1>1, <3>3, <3>4 DEF WakeUp, AddRequest, FreeSockets, NextUnborn
    <2>3. \A q \in Requests : phase[q] \in {"sent", "body", "errbody"}
             => (st'[socketOf[q]] = "busy" => st[socketOf[q]] = "busy")
      <3> TAKE q \in Requests
      <3> HAVE phase[q] \in {"sent", "body", "errbody"}
      <3>1. socketOf[q] \in Sockets /\ holder[socketOf[q]] = q /\ q # None
        BY OnOwnSocket, ConfigAssumption
      <3> QED
        BY <2>2, <3>1
    <2>4. \A q \in Requests : phase'[q] \in {"sent", "body", "errbody"}
             => phase[q] \in {"sent", "body", "errbody"}
      BY <2>1
    <2>5. \A c \in Clients : /\ known'[c] \subseteq known[c]
                             /\ \A t \in Sockets : handle'[c][t] \in {handle[c][t], 0}
      BY <2>1
    <2> QED
      BY <2>1, <2>3, <2>4, <2>5, TimersKept
  <1>2. ASSUME NEW r \in Requests, OnSocket(r) PROVE TimersInv'
    <2>1. PICK s \in Sockets :
             /\ phase[r] = "waiting" /\ holder[s] = r
             /\ phase' = [phase EXCEPT ![r] = "sent"]
             /\ socketOf' = [socketOf EXCEPT ![r] = s]
             /\ UNCHANGED <<st, orphans>>
             /\ IF Managed
                THEN handle' = IdleTimerCleared(ClientOf[r], s)
                ELSE UNCHANGED <<known, handle>>
      BY <1>2 DEF OnSocket
    <2>2. \A c \in Clients, t \in Sockets : handle'[c][t] \in {handle[c][t], 0}
      BY <2>1 DEF IdleTimerCleared, TypeOK, PoolsOK
    <2>3. \A c \in Clients : handle'[c][s] = 0
      <3>1. CASE Managed
        <4> TAKE c \in Clients
        <4>1. c = ClientOf[r]
          BY ConfigAssumption DEF OneClientPerAgent
        <4> QED
          BY <2>1, <3>1, <4>1 DEF IdleTimerCleared, TypeOK, PoolsOK
      <3>2. CASE ~Managed
        BY <2>1, <3>2 DEF TimersInv
      <3> QED
        BY <3>1, <3>2
    <2>4. ASSUME NEW q \in Requests, InFlight(q)', NEW c \in Clients
          PROVE  handle'[c][socketOf'[q]] = 0
      <3>1. CASE q = r
        BY <2>1, <2>3, <3>1 DEF TypeOK, RequestsOK
      <3>2. CASE q # r
        <4>1. InFlight(q) /\ socketOf'[q] = socketOf[q]
          BY <2>1, <2>4, <3>2 DEF InFlight, TypeOK, RequestsOK
        <4> QED
          BY <2>2, <4>1, BusyHasSocket DEF TimersInv
      <3> QED
        BY <3>1, <3>2
    <2>5. ~Managed => UNCHANGED <<known, handle>>
      BY <2>1
    <2> QED
      BY <2>1, <2>4, <2>5 DEF TimersInv, Managed
  <1>3. ASSUME NEW r \in Requests, OnSocketTooLate(r) PROVE TimersInv'
    BY <1>3 DEF OnSocketTooLate, NoneAbortedWaiting
  <1>4. ASSUME NEW r \in Requests, BodyEnd(r) PROVE TimersInv'
    <2>1. /\ phase[r] \in {"body", "errbody"} /\ InFlight(r)
          /\ phase' = [phase EXCEPT ![r] = "ended"]
          /\ UNCHANGED <<socketOf, known>>
      BY <1>4 DEF BodyEnd
    <2>2. socketOf[r] \in Sockets /\ holder[socketOf[r]] = r
      BY <2>1, OnOwnSocket
    <2>3. CASE Freed(socketOf[r], armed \ {socketOf[r]})
      <3>1. \A c \in Clients : handle[c][socketOf[r]] = 0
        BY <2>1 DEF TimersInv
      <3>2. orphans' = {}
        BY <2>3, <3>1 DEF Freed, TimersInv
      <3>3. /\ \A c \in Clients, t \in Sockets : t # socketOf[r] => handle'[c][t] = handle[c][t]
            /\ \A c \in Clients : known[c] = {} => handle'[c] = handle[c]
            /\ \A t \in Sockets : t # socketOf[r] => st'[t] = st[t]
        BY <2>3 DEF Freed, IdleTimerStarted, TypeOK, PoolsOK, SocketsOK
      <3>4. ASSUME NEW q \in Requests, InFlight(q)', NEW c \in Clients
            PROVE  handle'[c][socketOf'[q]] = 0
        <4>1. q # r /\ phase'[q] = phase[q] /\ phase[q] \in {"sent", "body", "errbody"}
          BY <2>1, <3>4 DEF InFlight, TypeOK, RequestsOK
        <4>2. socketOf[q] \in Sockets /\ socketOf[q] # socketOf[r]
          BY <2>2, <4>1, OnOwnSocket
        <4>3. InFlight(q)
          BY <2>1, <3>3, <3>4, <4>1, <4>2 DEF InFlight
        <4> QED
          BY <2>1, <3>3, <4>2, <4>3 DEF TimersInv
      <3> QED
        BY <2>1, <3>2, <3>3, <3>4 DEF TimersInv, Managed
    <2>4. CASE st' = Destroy({socketOf[r]}) /\ UNCHANGED <<handle, orphans>>
      <3>1. \A q \in Requests : phase'[q] = phase[q] \/ phase'[q] = "ended"
        BY <2>1 DEF TypeOK, RequestsOK
      <3>2. \A q \in Requests : phase[q] \in {"sent", "body", "errbody"}
               => (st'[socketOf[q]] = "busy" => st[socketOf[q]] = "busy")
        BY <2>4, OnOwnSocket DEF Destroy
      <3> QED
        BY <2>1, <2>4, <3>1, <3>2, TimersKept
    <2> QED
      BY <1>4, <2>3, <2>4 DEF BodyEnd
  <1>5. ASSUME NEW s \in Sockets, SocketClose(s) PROVE TimersInv'
    <2>1. /\ UNCHANGED <<socketOf, known, orphans>>
          /\ \A c \in Clients, t \in Sockets : handle'[c][t] \in {handle[c][t], 0}
          /\ \A q \in Requests : phase'[q] = phase[q] \/ phase'[q] = "failed"
      BY <1>5 DEF SocketClose, InPhase, TypeOK, PoolsOK, RequestsOK
    <2>2. \A t \in Sockets : holder[t] # None => (st'[t] = "busy" => st[t] = "busy")
      <3>1. CASE \E u \in Sockets : st[u] = "unborn"
                                      /\ st' = [[st EXCEPT ![s] = "dead"] EXCEPT ![u] = "busy"]
        BY <3>1 DEF OutcomeInv, SocketFits, TypeOK, SocketsOK
      <3>2. CASE st' = [st EXCEPT ![s] = "dead"]
        BY <3>2 DEF TypeOK, SocketsOK
      <3> QED
        BY <1>5, <3>1, <3>2 DEF SocketClose, NextUnborn
    <2>3. \A q \in Requests : phase[q] \in {"sent", "body", "errbody"}
             => (st'[socketOf[q]] = "busy" => st[socketOf[q]] = "busy")
      <3> TAKE q \in Requests
      <3> HAVE phase[q] \in {"sent", "body", "errbody"}
      <3>1. socketOf[q] \in Sockets /\ holder[socketOf[q]] = q /\ q # None
        BY OnOwnSocket, ConfigAssumption
      <3> QED
        BY <2>2, <3>1
    <2>4. \A q \in Requests : phase'[q] \in {"sent", "body", "errbody"}
             => phase[q] \in {"sent", "body", "errbody"}
      BY <2>1
    <2>5. \A c \in Clients : /\ known'[c] \subseteq known[c]
                             /\ \A t \in Sockets : handle'[c][t] \in {handle[c][t], 0}
      BY <2>1
    <2> QED
      BY <2>1, <2>3, <2>4, <2>5, TimersKept
  <1>6. ASSUME UNCHANGED <<socketOf, orphans>>,
               \A c \in Clients : /\ known'[c] \subseteq known[c]
                                  /\ \A s \in Sockets : handle'[c][s] \in {handle[c][s], 0},
               \A q \in Requests : phase'[q] \in {"sent", "body", "errbody"}
                                     => phase[q] \in {"sent", "body", "errbody"},
               st' = st \/ \E S : st' = Destroy(S)
        PROVE  TimersInv'
    <2>1. \A q \in Requests : phase[q] \in {"sent", "body", "errbody"}
             => (st'[socketOf[q]] = "busy" => st[socketOf[q]] = "busy")
      BY <1>6, OnOwnSocket DEF Destroy
    <2> QED
      BY <1>6, <2>1, TimersKept
  <1>7. ASSUME NEW r \in Requests,
               \/ Call(r) \/ Continue(r) \/ Drained(r) \/ UserAbort(r) \/ ConsumerDestroy(r)
               \/ Response(r) \/ RequestTimeout(r) \/ SourceError(r)
        PROVE  TimersInv'
    <2>1. UNCHANGED <<socketOf, orphans, known, handle>>
      BY <1>7 DEF Call, Continue, Drained, UserAbort, ConsumerDestroy, Response, RequestTimeout,
                  SourceError, poolVars
    <2>2. \A q \in Requests : phase'[q] \in {"sent", "body", "errbody"}
                                => phase[q] \in {"sent", "body", "errbody"}
      BY <1>7 DEF Call, Continue, Drained, UserAbort, ConsumerDestroy, Response, RequestTimeout,
                  SourceError, TypeOK, RequestsOK
    <2>3. st' = st \/ \E S : st' = Destroy(S)
      BY <1>7 DEF Call, Continue, Drained, UserAbort, ConsumerDestroy, Response, RequestTimeout,
                  SourceError, Caught, ControllerAbort, sockVars
    <2> QED
      BY <1>6, <2>1, <2>2, <2>3
  <1>8. CASE \/ \E s \in Sockets : \/ PeerReset(s) \/ ServerIdleClose(s) \/ NoticeClose(s)
                                   \/ \E c \in Clients : IdleTimeout(c, s)
             \/ \E o \in orphans : OrphanTimeout(o)
             \/ CloseClient \/ Tick \/ UNCHANGED vars
    <2>1. /\ UNCHANGED <<phase, socketOf>>
          /\ st' = st \/ \E S : st' = Destroy(S)
      BY <1>8, QuietSteps
    <2>2. CASE UNCHANGED poolVars
      BY <1>6, <2>1, <2>2 DEF poolVars
    <2>3. ASSUME NEW s \in Sockets, NEW c \in Clients, IdleTimeout(c, s) PROVE TimersInv'
      <3>1. UNCHANGED orphans
        BY <2>3 DEF IdleTimeout
      <3>2. \A d \in Clients : /\ known'[d] \subseteq known[d]
                               /\ \A t \in Sockets : handle'[d][t] \in {handle[d][t], 0}
        BY <2>3 DEF IdleTimeout, TypeOK, PoolsOK
      <3> QED
        BY <1>6, <2>1, <3>1, <3>2
    <2>4. orphans = {}
      BY DEF TimersInv
    <2> QED
      BY <1>8, <2>2, <2>3, <2>4 DEF PeerReset, ServerIdleClose, NoticeClose, CloseClient, Tick, vars
  <1> QED
    BY <1>1, <1>2, <1>3, <1>4, <1>5, <1>7, <1>8 DEF Next, RequestStep, SocketStep

\* onSocket clears the idle timer of every socket it hands out: with one
\* client per agent, as long as no request is aborted while it waits for its
\* socket, no timer that could destroy a socket runs while a request uses it.
THEOREM TimersSpareRequests ==
    ASSUME OneClientPerAgent
    PROVE  Spec /\ []NoneAbortedWaiting => []NoTimerOnBusySocket
<1>1. Init => TimersInv
  <2> SUFFICES ASSUME Init PROVE TimersInv
    OBVIOUS
  <2>1. orphans = {} /\ \A r \in Requests : ~InFlight(r)
    BY DEF Init, InFlight
  <2>2. \A c \in Clients : known[c] = {} /\ \A s \in Sockets : handle[c][s] = 0
    BY DEF Init
  <2> QED
    BY <2>1, <2>2 DEF TimersInv
<1>2. TypeOK /\ TypeOK' /\ LeaseInv /\ OutcomeInv /\ NoneAbortedWaiting /\ TimersInv
      /\ [Next]_vars => TimersInv'
  BY TimersStep
<1>3. TimersInv => NoTimerOnBusySocket
  BY DEF TimersInv, NoTimerOnBusySocket
<1> QED
  BY <1>1, <1>2, <1>3, TypeCorrect, LeaseInvariant, OutcomeInvariant, PTL DEF Spec

\* A request is destroyed while it waits only by an abort of its user.
THEOREM OnlyUsersAbortWaiting ==
    ASSUME Abortable = {}
    PROVE  Spec => []NoneAbortedWaiting
<1> DEFINE Unaborted == \A r \in Requests :
               phase[r] \in {"idle", "sleeping", "waiting"} => r \notin aborted \cup destroyed
<1>1. Init => Unaborted
  BY DEF Init
<1>2. TypeOK /\ LeaseInv /\ OutcomeInv /\ Unaborted /\ [Next]_vars => Unaborted'
  <2> SUFFICES ASSUME TypeOK, LeaseInv, OutcomeInv, Unaborted, [Next]_vars PROVE Unaborted'
    OBVIOUS
  <2>1. ASSUME NEW r \in Requests, RequestStep(r) PROVE Unaborted'
    <3>0. Fits(r)
      BY DEF OutcomeInv
    <3>1. CASE Call(r) \/ WakeUp(r)
      BY <3>1 DEF Call, WakeUp, BornDestroyed, LeaseInv, TypeOK, RequestsOK
    <3>2. CASE OnSocket(r) \/ OnSocketTooLate(r) \/ Response(r) \/ BodyEnd(r)
      BY <2>1, <3>2 DEF OnSocket, OnSocketTooLate, Response, BodyEnd, TypeOK, RequestsOK
    <3>3. CASE \/ Continue(r) \/ Drained(r) \/ ConsumerDestroy(r) \/ RequestTimeout(r)
               \/ SourceError(r)
      <4>1. /\ UNCHANGED phase
            /\ aborted' \subseteq aborted \cup {r}
            /\ destroyed' \subseteq destroyed \cup {r}
        BY <3>3 DEF Continue, Drained, ConsumerDestroy, RequestTimeout, SourceError, Caught,
                    ControllerAbort
      <4>2. phase[r] \notin {"idle", "sleeping", "waiting"} \/ UNCHANGED <<aborted, destroyed>>
        <5>1. CASE Continue(r)
          <6>1. phase[r] \notin {"idle", "sleeping"}
            BY <3>0, <5>1 DEF Continue, Fits, NotCreatedFits
          <6>2. phase[r] # "waiting"
            BY <3>0, <5>1 DEF Continue, Fits, WaitingFits, Unaborted
          <6> QED
            BY <6>1, <6>2
        <5>2. CASE Drained(r) \/ ConsumerDestroy(r) \/ SourceError(r)
          BY <5>2 DEF Drained, ConsumerDestroy, SourceError
        <5>3. CASE RequestTimeout(r)
          BY <3>0, <5>3 DEF RequestTimeout, Fits, HeardFits
        <5> QED
          BY <3>3, <5>1, <5>2, <5>3
      <4> QED
        BY <4>1, <4>2
    <3>4. ~UserAbort(r)
      BY DEF UserAbort
    <3> QED
      BY <2>1, <3>1, <3>2, <3>3, <3>4 DEF RequestStep
  <2>2. ASSUME NEW s \in Sockets, SocketClose(s) PROVE Unaborted'
    <3>1. aborted' = aborted /\ \A r \in Requests :
             phase'[r] \in {"idle", "sleeping", "waiting"}
                => phase[r] = phase'[r] /\ (r \in destroyed' => r \in destroyed)
      BY <2>2 DEF SocketClose, InPhase, TypeOK, RequestsOK
    <3> QED
      BY <3>1
  <2>3. CASE UNCHANGED <<phase, aborted, destroyed>>
    BY <2>3
  <2> QED
    BY <2>1, <2>2, <2>3, QuietSteps DEF Next, SocketStep
<1>3. TypeOK /\ Unaborted => NoneAbortedWaiting
  BY DEF NoneAbortedWaiting, TypeOK, RequestsOK
<1> QED
  BY <1>1, <1>2, <1>3, TypeCorrect, LeaseInvariant, OutcomeInvariant, PTL DEF Spec

-----------------------------------------------------------------------------
(* Whose doing a "socket hang up" is                                         *)

\* A step of one request changes nothing of another.
LEMMA StepsOfOneRequest ==
    ASSUME TypeOK, NEW r \in Requests, RequestStep(r)
    PROVE  /\ \A q \in Requests : q # r => SameRequest(q)
           /\ UNCHANGED peerClosed
  <1>1. CASE Call(r) \/ WakeUp(r) \/ OnSocket(r) \/ Response(r) \/ BodyEnd(r)
    BY <1>1 DEF Call, WakeUp, Attached, BornDestroyed, OnSocket, Heard, Response, BodyEnd, Settle,
                Unheard, SameRequest, TypeOK, RequestsOK, sockVars
  <1>2. CASE OnSocketTooLate(r)
    BY <1>2 DEF OnSocketTooLate, ErrorEvent, Settle, Unheard, SameRequest, TypeOK, RequestsOK
  <1>3. CASE Continue(r) \/ Drained(r) \/ UserAbort(r)
    <2>1. /\ UNCHANGED <<phase, socketOf, peerClosed>>
          /\ \A q \in Requests : q # r => op'[q] = op[q]
          /\ ControllerAbort(r) \/ UNCHANGED <<aborted, destroyed, listeners, onTimeout, outcome>>
      BY <1>3 DEF Continue, Drained, UserAbort, Caught, TypeOK, RequestsOK
    <2> QED
      BY <2>1 DEF ControllerAbort, Settle, Unheard, SameRequest, TypeOK, RequestsOK
  <1>4. CASE ConsumerDestroy(r) \/ RequestTimeout(r) \/ SourceError(r)
    BY <1>4 DEF ConsumerDestroy, RequestTimeout, SourceError, Settle, Unheard, SameRequest,
                TypeOK, RequestsOK
  <1> QED
    BY <1>1, <1>2, <1>3, <1>4 DEF RequestStep

\* A request destroys no socket but its own.
LEMMA OwnDestroyed ==
    ASSUME TypeOK, OutcomeInv, NEW r \in Requests, r \notin destroyed,
           st' = Destroy({socketOf[r]})
    PROVE  \A s \in Sockets : st'[s] = st[s] \/ (holder[s] = r /\ s = socketOf[r])
  <1>1. socketOf[r] \in Sockets => holder[socketOf[r]] = r
    BY ConfigAssumption DEF OutcomeInv, Fits, NotCreatedFits, WaitingFits, UsesSocket, OverFits,
                            TypeOK, RequestsOK, Phases
  <1> QED
    BY <1>1 DEF Destroy

\* What a request has been given or uses is not destroyed under it.
StaysUsable(q) ==
    \A s \in Sockets : holder'[s] = q /\ st'[s] # "busy" => holder[s] = q /\ st[s] # "busy"

\* A step of one request destroys no socket of another.
LEMMA StepsSpareOthers ==
    ASSUME TypeOK, LeaseInv, OutcomeInv, NEW r \in Requests, RequestStep(r)
    PROVE  \A q \in Requests : q # r \/ WakeUp(r) => StaysUsable(q)
  <1>0. Fits(r)
    BY DEF OutcomeInv
  <1>1. ASSUME UNCHANGED holder, \A s \in Sockets : st'[s] = st[s] \/ holder[s] = r
        PROVE  \A q \in Requests : q # r => StaysUsable(q)
    BY <1>1 DEF StaysUsable
  <1>2. ASSUME Call(r) \/ OnSocket(r) \/ Response(r)
        PROVE  \A q \in Requests : q # r => StaysUsable(q)
    BY <1>2 DEF Call, OnSocket, Response, StaysUsable, sockVars
  <1>3. CASE WakeUp(r)
    <2> DEFINE left == [s \in Sockets |-> IF s \in Expired(ClientOf[r]) THEN "closing" ELSE st[s]]
    <2>1. \A s \in Sockets : left[s] # "busy" => holder[s] = None \/ st[s] # "busy"
      BY DEF OutcomeInv, SocketFits, Expired, FreeSockets
    <2> HIDE DEF left
    <2>2. CASE \E s \in Sockets : GiveSocket(r, s, left)
      <3> PICK s \in Sockets : GiveSocket(r, s, left)
        BY <2>2
      <3>1. /\ st'[s] = "busy"
            /\ \A t \in Sockets : t # s => st'[t] = left[t] /\ holder'[t] = holder[t]
        BY DEF left, GiveSocket, TypeOK, SocketsOK
      <3> QED
        BY <2>1, <3>1, ConfigAssumption DEF StaysUsable
    <2>3. CASE st' = left /\ UNCHANGED holder
      BY <2>1, <2>3, ConfigAssumption DEF StaysUsable
    <2> QED
      BY <1>3, <2>2, <2>3 DEF left, WakeUp, AddRequest, FreeSockets
  <1>4. ASSUME NEW s \in Sockets, NEW running, holder[s] = r, st[s] = "busy", Freed(s, running)
        PROVE  \A q \in Requests : q # r => StaysUsable(q)
    <2>1. /\ \A t \in Sockets : t # s => holder'[t] = holder[t] /\ st'[t] = st[t]
          /\ holder'[s] \in {r, None} \/ st'[s] = "busy"
      BY <1>4 DEF Freed, TypeOK, SocketsOK
    <2> QED
      BY <2>1, ConfigAssumption DEF StaysUsable
  <1>5. ASSUME OnSocketTooLate(r)
        PROVE  \A q \in Requests : q # r => StaysUsable(q)
    <2>1. CASE UNCHANGED <<st, holder>>
      BY <1>1, <1>5, <2>1 DEF OnSocketTooLate
    <2> QED
      BY <1>4, <1>5, <2>1 DEF OnSocketTooLate
  <1>6. ASSUME BodyEnd(r)
        PROVE  \A q \in Requests : q # r => StaysUsable(q)
    <2>1. /\ phase[r] \in {"body", "errbody"}
          /\ st[socketOf[r]] = "busy" /\ socketOf[r] \in Sockets /\ holder[socketOf[r]] = r
      BY <1>0, <1>6 DEF BodyEnd, InFlight, Fits, UsesSocket
    <2>2. CASE st' = Destroy({socketOf[r]}) /\ UNCHANGED holder
      <3>1. \A s \in Sockets : st'[s] = st[s] \/ holder[s] = r
        BY <2>1, <2>2 DEF Destroy
      <3> QED
        BY <1>1, <2>1, <2>2, <3>1
    <2> QED
      BY <1>4, <1>6, <2>1, <2>2 DEF BodyEnd
  <1>7. ASSUME \/ Continue(r) \/ Drained(r) \/ UserAbort(r) \/ ConsumerDestroy(r)
               \/ RequestTimeout(r) \/ SourceError(r)
        PROVE  \A q \in Requests : q # r => StaysUsable(q)
    <2>1. UNCHANGED holder /\ (st' = st \/ (r \notin destroyed /\ st' = Destroy({socketOf[r]})))
      <3>1. CASE Continue(r) \/ Drained(r) \/ UserAbort(r)
        BY <3>1 DEF Continue, Drained, UserAbort, Caught, ControllerAbort
      <3>2. CASE ConsumerDestroy(r) \/ SourceError(r)
        BY <1>0, <3>2 DEF ConsumerDestroy, SourceError, InFlight, Fits, UsesSocket
      <3>3. CASE RequestTimeout(r)
        BY <3>3 DEF RequestTimeout
      <3> QED
        BY <1>7, <3>1, <3>2, <3>3
    <2>2. \A s \in Sockets : st'[s] = st[s] \/ holder[s] = r
      BY <2>1, OwnDestroyed
    <2> QED
      BY <1>1, <2>1, <2>2
  <1> QED
    BY <1>2, <1>3, <1>5, <1>6, <1>7 DEF RequestStep

\* A request that was told of a network error, or is about to be, has a
\* connection the peer has cut; one that waits for onSocketNT has a usable one.
CutFits(r) ==
    /\ outcome[r] = "network" => socketOf[r] \in peerClosed
    /\ phase[r] \in {"sent", "errbody"} /\ outcome[r] = "pending" /\ st[socketOf[r]] # "busy"
          => socketOf[r] \in peerClosed
    /\ phase[r] = "waiting" => \A s \in Sockets : holder[s] = r => st[s] = "busy"

CutInv == \A r \in Requests : CutFits(r)

LEMMA CutKept ==
    ASSUME NEW r \in Requests, CutFits(r), Fits(r)', SameRequest(r), StaysUsable(r),
           peerClosed \subseteq peerClosed'
    PROVE  CutFits(r)'
  BY DEF CutFits, Fits, UsesSocket, SameRequest, StaysUsable

\* The request that takes the step
LEMMA CutStepOfRequest ==
    ASSUME TypeOK, LeaseInv, OutcomeInv, NEW r \in Requests, CutFits(r), RequestStep(r)
    PROVE  CutFits(r)'
  <1>0. Fits(r) /\ UNCHANGED peerClosed
    BY StepsOfOneRequest DEF OutcomeInv
  <1>1. CASE Call(r)
    BY <1>0, <1>1 DEF Call, CutFits, TypeOK, RequestsOK, sockVars
  <1>2. CASE WakeUp(r)
    <2>1. /\ phase'[r] = "waiting" /\ phase[r] = "sleeping"
          /\ UNCHANGED <<outcome, socketOf>>
      BY <1>2 DEF WakeUp, TypeOK, RequestsOK
    <2>2. \A s \in Sockets : holder[s] # r
      BY <2>1, ConfigAssumption DEF LeaseInv, HoldersOK
    <2>3. StaysUsable(r)
      BY <1>2, StepsSpareOthers
    <2> QED
      BY <1>0, <2>1, <2>2, <2>3 DEF CutFits, StaysUsable
  <1>3. CASE OnSocket(r)
    <2>1. PICK s \in Sockets :
             /\ phase[r] = "waiting" /\ holder[s] = r
             /\ phase' = [phase EXCEPT ![r] = "sent"]
             /\ socketOf' = [socketOf EXCEPT ![r] = s]
             /\ UNCHANGED <<st, outcome>>
      BY <1>3 DEF OnSocket
    <2>2. phase'[r] = "sent" /\ socketOf'[r] = s /\ st'[s] = "busy"
      BY <2>1 DEF CutFits, TypeOK, RequestsOK
    <2>3. outcome'[r] # "network"
      BY <1>0, <2>1 DEF Fits, WaitingFits
    <2> QED
      BY <2>2, <2>3 DEF CutFits
  <1>4. CASE OnSocketTooLate(r)
    <2>1. /\ phase[r] = "waiting" /\ phase'[r] = "failed"
          /\ outcome'[r] \in {outcome[r], "aborted"}
      BY <1>4 DEF OnSocketTooLate, ErrorEvent, Settle, TypeOK, RequestsOK
    <2>2. outcome'[r] # "network"
      BY <1>0, <2>1 DEF Fits, WaitingFits
    <2> QED
      BY <2>1, <2>2 DEF CutFits
  <1>5. CASE Continue(r) \/ Drained(r) \/ UserAbort(r)
    <2>1. /\ UNCHANGED <<phase, socketOf, holder>>
          /\ ControllerAbort(r) \/ UNCHANGED <<aborted, destroyed, st, outcome>>
      BY <1>5 DEF Continue, Drained, UserAbort, Caught
    <2>2. CASE UNCHANGED <<st, outcome>>
      BY <1>0, <2>1, <2>2 DEF CutFits
    <2>3. CASE ControllerAbort(r) /\ r \notin aborted /\ phase[r] \notin {"idle", "sleeping"}
      <3>1. outcome'[r] # "pending" /\ (outcome'[r] = "network" => outcome[r] = "network")
        BY <2>3 DEF ControllerAbort, Settle, TypeOK, RequestsOK
      <3>2. CASE phase[r] # "waiting"
        BY <1>0, <2>1, <3>1, <3>2 DEF CutFits
      <3>3. CASE phase[r] = "waiting"
        <4>1. socketOf[r] \notin Sockets
          BY <1>0, <3>3, ConfigAssumption DEF Fits, WaitingFits
        <4>2. \A s \in Sockets : st'[s] = st[s]
          BY <2>3, <4>1 DEF ControllerAbort, Destroy
        <4> QED
          BY <1>0, <2>1, <3>1, <3>3, <4>2 DEF CutFits
      <3> QED
        BY <3>2, <3>3
    <2> QED
      BY <2>1, <2>2, <2>3 DEF ControllerAbort
  <1>6. CASE ConsumerDestroy(r)
    BY <1>0, <1>6 DEF ConsumerDestroy, CutFits
  <1>7. CASE Response(r)
    <2>1. /\ phase[r] = "sent" /\ st[socketOf[r]] = "busy" /\ phase'[r] \in {"body", "errbody"}
          /\ outcome'[r] \in {outcome[r], "response", "undecodable"}
          /\ UNCHANGED <<st, socketOf>>
      BY <1>7 DEF Response, InFlight, Settle, sockVars, TypeOK, RequestsOK
    <2> QED
      BY <1>0, <2>1 DEF CutFits
  <1>8. CASE BodyEnd(r)
    <2>1. /\ phase'[r] = "ended" /\ outcome'[r] \in {outcome[r], "server"} /\ UNCHANGED socketOf
      BY <1>8 DEF BodyEnd, Settle, TypeOK, RequestsOK
    <2> QED
      BY <1>0, <2>1 DEF CutFits
  <1>9. CASE RequestTimeout(r) \/ SourceError(r)
    <2>1. /\ UNCHANGED <<phase, socketOf>>
          /\ outcome'[r] # "pending" /\ (outcome'[r] = "network" => outcome[r] = "network")
      BY <1>9 DEF RequestTimeout, SourceError, Settle, TypeOK, RequestsOK
    <2>2. phase[r] # "waiting"
      BY <1>0, <1>9 DEF RequestTimeout, SourceError, Fits, HeardFits
    <2> QED
      BY <1>0, <2>1, <2>2 DEF CutFits
  <1> QED
    BY <1>1, <1>2, <1>3, <1>4, <1>5, <1>6, <1>7, <1>8, <1>9 DEF RequestStep

\* The steps that destroy a socket at which no request is
LEMMA CutQuiet ==
    ASSUME TypeOK, LeaseInv, OutcomeInv, OutcomeInv', CutInv, NEW S,
           UNCHANGED <<phase, socketOf, op, listeners, outcome, destroyed, onTimeout, aborted,
                       holder>>,
           peerClosed \subseteq peerClosed', st' = Destroy(S),
           LoopIdle, \A r \in Requests : InFlight(r) /\ socketOf[r] \in S
                                            => socketOf[r] \in peerClosed
    PROVE  CutInv'
  <1> SUFFICES ASSUME NEW r \in Requests PROVE CutFits(r)'
    BY DEF CutInv
  <1>1. CutFits(r)
    BY DEF CutInv
  <1>2. outcome'[r] = "network" => socketOf'[r] \in peerClosed'
    BY <1>1 DEF CutFits
  <1>3. phase'[r] = "waiting" => \A s \in Sockets : holder'[s] # r
    BY DEF LoopIdle, Assigned
  <1>4. ASSUME phase[r] \in {"sent", "errbody"}, outcome[r] = "pending",
               st'[socketOf[r]] # "busy"
        PROVE  socketOf[r] \in peerClosed
    <2>1. socketOf[r] \in Sockets /\ socketOf[r] # None
      BY <1>4, OnOwnSocket, ConfigAssumption
    <2>2. CASE st[socketOf[r]] = "busy"
      BY <1>4, <2>1, <2>2 DEF Destroy, InFlight
    <2>3. CASE st[socketOf[r]] # "busy"
      BY <1>1, <1>4, <2>3 DEF CutFits
    <2> QED
      BY <2>2, <2>3
  <1> QED
    BY <1>2, <1>3, <1>4 DEF CutFits

LEMMA CutStep ==
    ASSUME ~MayClose, TypeOK, TypeOK', LeaseInv, OutcomeInv, OutcomeInv',
           NoTimerOnBusySocket, CutInv, [Next]_vars
    PROVE  CutInv'
  <1>1. ASSUME NEW r \in Requests, RequestStep(r) PROVE CutInv'
    <2>1. CutFits(r)'
      BY <1>1, CutStepOfRequest DEF CutInv
    <2>2. ASSUME NEW q \in Requests, q # r PROVE CutFits(q)'
      BY <1>1, <2>2, StepsOfOneRequest, StepsSpareOthers, CutKept DEF CutInv, OutcomeInv
    <2> QED
      BY <2>1, <2>2 DEF CutInv
  <1>2. ASSUME NEW s \in Sockets, SocketClose(s) PROVE CutInv'
    <2>0. UNCHANGED <<socketOf, peerClosed>> /\ st[s] = "closing" /\ LoopIdle
      BY <1>2 DEF SocketClose
    <2> SUFFICES ASSUME NEW r \in Requests PROVE CutFits(r)'
      BY DEF CutInv
    <2>1. CutFits(r) /\ Fits(r) /\ Fits(r)'
      BY DEF CutInv, OutcomeInv
    <2>2. CASE r = holder[s] /\ phase[r] \in {"sent", "errbody", "body", "ended"}
      <3>1. /\ phase'[r] \in {"ended", "failed"}
            /\ outcome'[r] = outcome[r] \/ (phase[r] \in {"sent", "errbody"} /\ outcome[r] = "pending")
        BY <1>2, <2>2 DEF SocketClose, InPhase, ErrorEvent, Settle, TypeOK, RequestsOK
      <3>2. phase[r] \in {"sent", "errbody"} => socketOf[r] = s
        BY <2>2, OnOwnSocket, ConfigAssumption DEF LeaseInv, HoldersOK
      <3> QED
        BY <2>0, <2>1, <3>1, <3>2 DEF CutFits
    <2>3. CASE r # holder[s] \/ phase[r] \notin {"sent", "errbody", "body", "ended"}
      <3>1. phase'[r] = phase[r] /\ outcome'[r] = outcome[r]
        BY <1>2, <2>3 DEF SocketClose, InPhase, ErrorEvent, Settle, TypeOK, RequestsOK
      <3>2. ASSUME phase[r] = "waiting", NEW t \in Sockets, holder'[t] = r
            PROVE  st'[t] = "busy"
        <4>1. \A v \in Sockets : holder[v] # r
          BY <2>0, <3>2 DEF LoopIdle, Assigned
        <4>2. CASE \E u \in Sockets : /\ st' = [[st EXCEPT ![s] = "dead"] EXCEPT ![u] = "busy"]
                                      /\ holder' = [holder EXCEPT ![s] = None, ![u] = Head(queue)]
          BY <3>2, <4>1, <4>2, ConfigAssumption DEF TypeOK, SocketsOK
        <4>3. CASE holder' = [holder EXCEPT ![s] = None]
          BY <3>2, <4>1, <4>3, ConfigAssumption DEF TypeOK, SocketsOK
        <4> QED
          BY <1>2, <4>2, <4>3 DEF SocketClose
      <3>3. ASSUME phase[r] \in {"sent", "errbody"}, st'[socketOf[r]] # "busy"
            PROVE  st[socketOf[r]] # "busy"
        <4>1. socketOf[r] \in Sockets /\ holder[socketOf[r]] = r
          BY <3>3, OnOwnSocket
        <4>2. socketOf[r] # s
          BY <2>3, <3>3, <4>1
        <4>3. CASE \E u \in Sockets : st' = [[st EXCEPT ![s] = "dead"] EXCEPT ![u] = "busy"]
          BY <3>3, <4>1, <4>2, <4>3 DEF TypeOK, SocketsOK
        <4>4. CASE st' = [st EXCEPT ![s] = "dead"]
          BY <3>3, <4>1, <4>2, <4>4 DEF TypeOK, SocketsOK
        <4> QED
          BY <1>2, <4>3, <4>4 DEF SocketClose
      <3> QED
        BY <2>0, <2>1, <3>1, <3>2, <3>3 DEF CutFits
    <2> QED
      BY <2>2, <2>3
  <1>3. ASSUME NEW s \in Sockets, NEW c \in Clients, IdleTimeout(c, s) PROVE CutInv'
    <2>1. \A r \in Requests : InFlight(r) => socketOf[r] # s
      BY <1>3 DEF IdleTimeout, NoTimerOnBusySocket
    <2>2. /\ UNCHANGED <<reqVars, onTimeout, holder, peerClosed>>
          /\ st' = Destroy({s}) /\ LoopIdle
      BY <1>3 DEF IdleTimeout
    <2> QED
      BY <2>1, <2>2, CutQuiet DEF reqVars
  <1>4. ASSUME NEW o \in orphans, OrphanTimeout(o) PROVE CutInv'
    <2>1. \A r \in Requests : InFlight(r) => socketOf[r] # o[2]
      BY <1>4 DEF NoTimerOnBusySocket
    <2>2. /\ UNCHANGED <<reqVars, onTimeout, holder, peerClosed>>
          /\ st' = Destroy({o[2]}) /\ LoopIdle
      BY <1>4 DEF OrphanTimeout
    <2> QED
      BY <2>1, <2>2, CutQuiet DEF reqVars
  <1>5. ASSUME NEW s \in Sockets, NoticeClose(s) PROVE CutInv'
    BY <1>5, QuietSteps, CutQuiet DEF NoticeClose
  <1>6. CASE (\E s \in Sockets : PeerReset(s) \/ ServerIdleClose(s)) \/ Tick \/ UNCHANGED vars
    <2>1. UNCHANGED <<reqVars, st, holder>> /\ peerClosed \subseteq peerClosed'
      BY <1>6 DEF PeerReset, ServerIdleClose, Tick, vars, sockVars
    <2>2. \A r \in Requests : SameRequest(r) /\ StaysUsable(r)
      BY <1>6, <2>1, QuietSteps DEF SameRequest, StaysUsable
    <2> QED
      BY <2>1, <2>2, CutKept DEF CutInv, OutcomeInv
  <1>7. ~CloseClient
    BY DEF CloseClient
  <1> QED
    BY <1>1, <1>2, <1>3, <1>4, <1>5, <1>6, <1>7 DEF Next, SocketStep

\* Unless client.close() is called, as long as no idle timer runs on a socket
\* in use, a request is told "socket hang up" only when the peer has cut the
\* connection; and no error goes unheard.
THEOREM ErrorsAreTrue ==
    ASSUME ~MayClose
    PROVE  Spec /\ []NoTimerOnBusySocket => []ErrorsHeardAndTrue
<1>1. Init => CutInv
  BY ConfigAssumption DEF Init, CutInv, CutFits
<1>2. TypeOK /\ TypeOK' /\ LeaseInv /\ OutcomeInv /\ OutcomeInv' /\ NoTimerOnBusySocket /\ CutInv
      /\ [Next]_vars => CutInv'
  BY CutStep
<1>3. OutcomeInv /\ CutInv => ErrorsHeardAndTrue
  BY DEF OutcomeInv, CutInv, CutFits, ErrorsHeardAndTrue
<1> QED
  BY <1>1, <1>2, <1>3, TypeCorrect, LeaseInvariant, OutcomeInvariant, PTL DEF Spec

-----------------------------------------------------------------------------
(* The pool keeps the promise of ConnectionLease                             *)

\* What a step may do to a socket.
Kept(s) == st'[s] = st[s] /\ holder'[s] = holder[s]
GivenToNew(s) == st'[s] = "busy" /\ holder'[s] \in Requests \ servedRequests
Given(s) == st[s] \in {"unborn", "free"} /\ GivenToNew(s)
Left(s) ==
    /\ st[s] = "busy"
    /\ phase'[holder[s]] \in {"ended", "failed"}
    /\ \/ st'[s] = "free" /\ holder'[s] = None
       \/ st'[s] = "closing" /\ holder'[s] = holder[s]
       \/ GivenToNew(s)
Destroyed(s) ==
    /\ st[s] = "busy" /\ st'[s] = "closing" /\ holder'[s] = holder[s]
    /\ holder[s] \in finishedRequests' \/ s \in peerClosed
ClosedIdle(s) == st[s] = "free" /\ st'[s] = "closing" /\ holder'[s] = holder[s]
Dead(s) ==
    /\ st[s] = "closing" /\ st'[s] = "dead" /\ holder'[s] = None
    /\ holder[s] \in Requests => phase'[holder[s]] \notin {"idle", "sleeping", "waiting"}

Moves(s) == Kept(s) \/ Given(s) \/ Left(s) \/ Destroyed(s) \/ ClosedIdle(s) \/ Dead(s)

\* The lease of a socket, case by case
LEMMA LeaseValue ==
    ASSUME TypeOK, NEW s \in Sockets
    PROVE  /\ st[s] = "unborn" => leaseOf[s] = "Unused"
           /\ st[s] = "busy" => leaseOf[s] = holder[s]
           /\ st[s] = "free" => leaseOf[s] = "Idle"
           /\ st[s] \in {"closing", "dead"} => leaseOf[s] = "Gone"
  BY DEF leaseOf

LEMMA LeaseValueNext ==
    ASSUME TypeOK', NEW s \in Sockets
    PROVE  /\ st'[s] = "unborn" => leaseOf'[s] = "Unused"
           /\ st'[s] = "busy" => leaseOf'[s] = holder'[s]
           /\ st'[s] = "free" => leaseOf'[s] = "Idle"
           /\ st'[s] \in {"closing", "dead"} => leaseOf'[s] = "Gone"
  BY DEF leaseOf

\* What a step does to a socket is a change of its lease that the contract
\* allows, or none.
LEMMA MoveChanges ==
    ASSUME TypeOK, TypeOK', OutcomeInv, NEW s \in Sockets, Moves(s), leaseOf'[s] # leaseOf[s]
    PROVE  Lease!Change(s)
  <1> USE LeaseValue, LeaseValueNext
  <1>1. ~Kept(s)
    BY DEF Kept, leaseOf
  <1>2. CASE Given(s)
    BY <1>2 DEF Given, GivenToNew, Lease!Change, Lease!Begins
  <1>3. CASE Left(s) \/ Destroyed(s)
    <2>1. leaseOf[s] = holder[s] /\ holder[s] \in Requests
      BY <1>3 DEF Left, Destroyed, OutcomeInv, SocketFits, TypeOK, SocketsOK
    <2>2. Left(s) => holder[s] \in finishedRequests'
      BY <2>1 DEF Left, finishedRequests, InPhase
    <2> QED
      BY <1>3, <2>1, <2>2 DEF Left, Destroyed, GivenToNew, Lease!Change, Lease!Begins, Lease!Ends
  <1>4. CASE ClosedIdle(s)
    BY <1>4 DEF ClosedIdle, Lease!Change
  <1>5. CASE Dead(s)
    BY <1>5 DEF Dead
  <1> QED
    BY <1>1, <1>2, <1>3, <1>4, <1>5 DEF Moves

\* The head of the queue has never been given a socket.
LEMMA HeadIsNew ==
    ASSUME TypeOK, LeaseInv, queue # <<>>
    PROVE  Head(queue) \in Requests \ servedRequests
  <1>1. /\ Head(queue) \in Requests /\ phase[Head(queue)] = "waiting"
        /\ \A s \in Sockets : holder[s] # Head(queue)
    BY QueueType, HeadTailProperties DEF LeaseInv, QueueOK, TypeOK, SocketsOK
  <1> QED
    BY <1>1 DEF servedRequests

\* What the socket that leaves a finished request goes through
LEMMA FreedMoves ==
    ASSUME TypeOK, LeaseInv, NEW s \in Sockets, st[s] = "busy",
           phase'[holder[s]] \in {"ended", "failed"}, NEW running, Freed(s, running)
    PROVE  \A t \in Sockets : Moves(t)
  <1>1. \A t \in Sockets : t # s => Kept(t)
    BY DEF Freed, Kept, TypeOK, SocketsOK
  <1>2. Left(s)
    <2>1. CASE queue # <<>> /\ holder' = [holder EXCEPT ![s] = Head(queue)] /\ st' = st
      BY <2>1, HeadIsNew DEF Left, GivenToNew, TypeOK, SocketsOK
    <2>2. CASE st' = [st EXCEPT ![s] = "free"] /\ holder' = [holder EXCEPT ![s] = None]
      BY <2>2 DEF Left, TypeOK, SocketsOK
    <2>3. CASE st' = [st EXCEPT ![s] = "closing"] /\ UNCHANGED holder
      BY <2>3 DEF Left, TypeOK, SocketsOK
    <2> QED
      BY <2>1, <2>2, <2>3 DEF Freed
  <1> QED
    BY <1>1, <1>2 DEF Moves

\* Every step of a request moves sockets as the contract allows.
LEMMA RequestMoves ==
    ASSUME TypeOK, TypeOK', LeaseInv, OutcomeInv, NEW r \in Requests, RequestStep(r)
    PROVE  \A s \in Sockets : Moves(s)
  <1>0. Fits(r)
    BY DEF OutcomeInv
  <1>1. CASE Call(r) \/ OnSocket(r) \/ Response(r)
    BY <1>1 DEF Call, OnSocket, Response, Moves, Kept, sockVars
  <1>2. CASE WakeUp(r)
    <2> DEFINE left == [s \in Sockets |-> IF s \in Expired(ClientOf[r]) THEN "closing" ELSE st[s]]
    <2>1. \A s \in Sockets : left[s] = st[s] \/ (st[s] = "free" /\ left[s] = "closing")
      BY DEF Expired, FreeSockets
    <2>2. r \notin servedRequests
      BY <1>2, ConfigAssumption DEF WakeUp, LeaseInv, HoldersOK, servedRequests
    <2> HIDE DEF left
    <2>3. CASE \E s \in Sockets : st[s] \in {"free", "unborn"} /\ GiveSocket(r, s, left)
      <3> PICK s \in Sockets : st[s] \in {"free", "unborn"} /\ GiveSocket(r, s, left)
        BY <2>3
      <3>1. /\ st'[s] = "busy" /\ holder'[s] = r
            /\ \A t \in Sockets : t # s => st'[t] = left[t] /\ holder'[t] = holder[t]
        BY DEF left, GiveSocket, TypeOK, SocketsOK
      <3>2. Given(s)
        BY <2>2, <3>1 DEF Given, GivenToNew
      <3> QED
        BY <2>1, <3>1, <3>2 DEF Moves, Kept, ClosedIdle
    <2>4. CASE st' = left /\ UNCHANGED holder
      BY <2>1, <2>4 DEF Moves, Kept, ClosedIdle
    <2> QED
      BY <1>2, <2>3, <2>4 DEF left, WakeUp, AddRequest, FreeSockets, NextUnborn
  <1>3. CASE OnSocketTooLate(r)
    <2> PICK s \in Sockets :
            /\ holder[s] = r /\ phase' = [phase EXCEPT ![r] = "failed"]
            /\ IF st[s] = "busy" THEN Freed(s, armed) ELSE UNCHANGED <<st, holder>>
      BY <1>3 DEF OnSocketTooLate
    <2>1. phase'[r] = "failed"
      BY DEF TypeOK, RequestsOK
    <2>2. CASE st[s] = "busy"
      BY <2>1, <2>2, FreedMoves
    <2>3. CASE st[s] # "busy"
      BY <2>3 DEF Moves, Kept
    <2> QED
      BY <2>2, <2>3
  <1>4. CASE BodyEnd(r)
    <2>1. /\ st[socketOf[r]] = "busy" /\ socketOf[r] \in Sockets /\ holder[socketOf[r]] = r
      BY <1>0, <1>4 DEF BodyEnd, InFlight, Fits, UsesSocket
    <2>2. phase'[r] = "ended"
      BY <1>4 DEF BodyEnd, TypeOK, RequestsOK
    <2>3. CASE Freed(socketOf[r], armed \ {socketOf[r]})
      BY <2>1, <2>2, <2>3, FreedMoves
    <2>4. CASE st' = Destroy({socketOf[r]}) /\ UNCHANGED holder
      BY <2>1, <2>2, <2>4 DEF Destroy, Moves, Kept, Left
    <2> QED
      BY <1>4, <2>3, <2>4 DEF BodyEnd
  <1>5. CASE \/ Continue(r) \/ Drained(r) \/ UserAbort(r) \/ ConsumerDestroy(r)
             \/ RequestTimeout(r) \/ SourceError(r)
    <2>1. /\ UNCHANGED holder
          /\ \/ st' = st
             \/ /\ r \notin destroyed /\ r \in destroyed'
                /\ st' = Destroy({socketOf[r]})
      <3>1. CASE Continue(r) \/ Drained(r) \/ UserAbort(r)
        BY <3>1 DEF Continue, Drained, UserAbort, Caught, ControllerAbort
      <3>2. CASE ConsumerDestroy(r) \/ SourceError(r)
        BY <1>0, <3>2 DEF ConsumerDestroy, SourceError, InFlight, Fits, UsesSocket
      <3>3. CASE RequestTimeout(r)
        BY <3>3 DEF RequestTimeout
      <3> QED
        BY <1>5, <3>1, <3>2, <3>3
    <2>2. CASE st' = st
      BY <2>1, <2>2 DEF Moves, Kept
    <2>3. CASE r \notin destroyed /\ r \in destroyed' /\ st' = Destroy({socketOf[r]})
      <3>1. \A s \in Sockets : st'[s] = st[s] \/ (holder[s] = r /\ s = socketOf[r])
        BY <2>3, OwnDestroyed
      <3>2. \A s \in Sockets : st'[s] = st[s] \/ (st[s] \in {"busy", "free"} /\ st'[s] = "closing")
        BY <2>3 DEF Destroy
      <3>3. \A s \in Sockets : holder[s] = r => st[s] # "free"
        BY ConfigAssumption DEF OutcomeInv, SocketFits
      <3> QED
        BY <2>1, <2>3, <3>1, <3>2, <3>3 DEF Moves, Kept, Destroyed, finishedRequests
    <2> QED
      BY <2>1, <2>2, <2>3
  <1> QED
    BY <1>1, <1>2, <1>3, <1>4, <1>5 DEF RequestStep

\* A socket in use, between two macrotasks, is used by a request.
LEMMA BusyIsUsed ==
    ASSUME TypeOK, LeaseInv, OutcomeInv, LoopIdle, NEW s \in Sockets, st[s] = "busy"
    PROVE  holder[s] \in Requests /\ InFlight(holder[s]) /\ socketOf[holder[s]] = s
  <1>1. PICK r \in Requests : r = holder[s]
    BY DEF OutcomeInv, SocketFits, TypeOK, SocketsOK
  <1>2. phase[r] \notin {"idle", "sleeping"}
    BY <1>1, ConfigAssumption DEF LeaseInv, HoldersOK
  <1>3. phase[r] # "waiting"
    BY <1>1 DEF LoopIdle, Assigned
  <1>4. phase[r] \notin {"ended", "failed"}
    BY <1>1 DEF OutcomeInv, Fits, OverFits
  <1>5. phase[r] \in {"sent", "body", "errbody"}
    BY <1>2, <1>3, <1>4 DEF TypeOK, RequestsOK, Phases
  <1>6. socketOf[r] = s
    BY <1>1, <1>5, OnOwnSocket, ConfigAssumption DEF LeaseInv, HoldersOK
  <1> QED
    BY <1>1, <1>5, <1>6, ConfigAssumption DEF InFlight

\* Every step moves sockets as the contract allows, unless client.close() or
\* an idle timer takes one from a request.
LEMMA StepMoves ==
    ASSUME ~MayClose, TypeOK, TypeOK', LeaseInv, OutcomeInv, NoTimerOnBusySocket, [Next]_vars
    PROVE  \A s \in Sockets : Moves(s)
  <1>1. ASSUME NEW S, st' = Destroy(S), UNCHANGED holder,
               \A s \in Sockets : s \in S /\ st[s] = "busy" => s \in peerClosed
        PROVE  \A s \in Sockets : Moves(s)
    BY <1>1 DEF Destroy, Moves, Kept, Destroyed, ClosedIdle
  <1>2. ASSUME NEW s \in Sockets, SocketClose(s) PROVE \A t \in Sockets : Moves(t)
    <2>1. st[s] = "closing" /\ LoopIdle
      BY <1>2 DEF SocketClose
    <2>2. ASSUME NEW r \in Requests, holder[s] = r
          PROVE  phase'[r] \notin {"idle", "sleeping", "waiting"}
      <3>1. phase[r] \notin {"idle", "sleeping", "waiting"}
        BY <2>1, <2>2, ConfigAssumption DEF LeaseInv, HoldersOK, LoopIdle, Assigned
      <3> QED
        BY <1>2, <3>1 DEF SocketClose, InPhase, TypeOK, RequestsOK
    <2>3. CASE queue = <<>>
      BY <1>2, <2>1, <2>2, <2>3 DEF SocketClose, Moves, Kept, Dead, TypeOK, SocketsOK
    <2>4. CASE queue # <<>>
      <3> PICK u \in Sockets :
             /\ st[u] = "unborn"
             /\ st' = [[st EXCEPT ![s] = "dead"] EXCEPT ![u] = "busy"]
             /\ holder' = [holder EXCEPT ![s] = None, ![u] = Head(queue)]
        BY <1>2, <2>4 DEF SocketClose, NextUnborn
      <3>1. /\ st'[u] = "busy" /\ holder'[u] = Head(queue) /\ u # s
            /\ st'[s] = "dead" /\ holder'[s] = None
            /\ \A t \in Sockets : t # s /\ t # u => st'[t] = st[t] /\ holder'[t] = holder[t]
        BY <2>1 DEF TypeOK, SocketsOK
      <3>2. Given(u)
        BY <2>4, <3>1, HeadIsNew DEF Given, GivenToNew
      <3>3. Dead(s)
        BY <2>1, <2>2, <3>1 DEF Dead
      <3> QED
        BY <3>1, <3>2, <3>3 DEF Moves, Kept
    <2> QED
      BY <2>3, <2>4
  <1>3. ASSUME NEW s \in Sockets, NEW c \in Clients, IdleTimeout(c, s)
        PROVE  \A t \in Sockets : Moves(t)
    <2>1. st[s] # "busy"
      BY <1>3, BusyIsUsed DEF IdleTimeout, NoTimerOnBusySocket
    <2> QED
      BY <1>1, <1>3, <2>1 DEF IdleTimeout
  <1>4. ASSUME NEW o \in orphans, OrphanTimeout(o) PROVE \A t \in Sockets : Moves(t)
    <2>1. o[2] \in Sockets
      BY DEF TypeOK, PoolsOK
    <2>2. st[o[2]] # "busy"
      BY <1>4, <2>1, BusyIsUsed DEF OrphanTimeout, NoTimerOnBusySocket
    <2> QED
      BY <1>1, <1>4, <2>2 DEF OrphanTimeout
  <1>5. ASSUME NEW s \in Sockets, NoticeClose(s) PROVE \A t \in Sockets : Moves(t)
    BY <1>1, <1>5 DEF NoticeClose
  <1>6. CASE (\E s \in Sockets : PeerReset(s) \/ ServerIdleClose(s)) \/ Tick \/ UNCHANGED vars
    <2>1. UNCHANGED <<st, holder>>
      BY <1>6 DEF PeerReset, ServerIdleClose, Tick, vars, sockVars
    <2> QED
      BY <2>1 DEF Moves, Kept
  <1>7. ~CloseClient
    BY DEF CloseClient
  <1> QED
    BY <1>2, <1>3, <1>4, <1>5, <1>6, <1>7, RequestMoves DEF Next, SocketStep

\* A request only gets further, from the moment it has a socket; what is over
\* and what is cut stays so.
LEMMA RequestsProgress ==
    ASSUME TypeOK, LeaseInv, OutcomeInv, [Next]_vars
    PROVE  /\ finishedRequests \subseteq finishedRequests'
           /\ peerClosed \subseteq peerClosed'
           /\ \A r \in Requests :
                 phase[r] \notin {"idle", "sleeping", "waiting"}
                    => phase'[r] \notin {"idle", "sleeping", "waiting"}
           /\ \A r \in Requests :
                 phase[r] \in {"idle", "sleeping", "waiting"}
                    => \/ phase'[r] \in {"idle", "sleeping", "waiting"}
                       \/ \E s \in Sockets : holder[s] = r
  <1> DEFINE Progress ==
               /\ destroyed \subseteq destroyed'
               /\ \A r \in Requests :
                    /\ phase[r] \in {"ended", "failed"} => phase'[r] = phase[r]
                    /\ phase[r] \notin {"idle", "sleeping", "waiting"}
                         => phase'[r] \notin {"idle", "sleeping", "waiting"}
                    /\ \/ phase[r] \notin {"idle", "sleeping", "waiting"}
                       \/ phase'[r] \in {"idle", "sleeping", "waiting"}
                       \/ \E s \in Sockets : holder[s] = r
  <1>1. ASSUME NEW r \in Requests, RequestStep(r) PROVE Progress /\ UNCHANGED peerClosed
    <2>0. UNCHANGED peerClosed
      BY <1>1, StepsOfOneRequest
    <2>1. CASE Call(r) \/ WakeUp(r) \/ Response(r) \/ BodyEnd(r)
      BY <2>0, <2>1 DEF Call, WakeUp, Response, BodyEnd, LeaseInv, TypeOK, RequestsOK
    <2>2. CASE OnSocket(r) \/ OnSocketTooLate(r)
      BY <2>0, <2>2 DEF OnSocket, OnSocketTooLate, TypeOK, RequestsOK
    <2>3. CASE \/ Continue(r) \/ Drained(r) \/ UserAbort(r) \/ ConsumerDestroy(r)
               \/ RequestTimeout(r) \/ SourceError(r)
      <3>1. UNCHANGED phase /\ destroyed \subseteq destroyed'
        BY <2>3 DEF Continue, Drained, UserAbort, ConsumerDestroy, RequestTimeout, SourceError,
                    Caught, ControllerAbort
      <3> QED
        BY <2>0, <3>1
    <2> QED
      BY <1>1, <2>1, <2>2, <2>3 DEF RequestStep
  <1>2. ASSUME NEW s \in Sockets, SocketClose(s) PROVE Progress /\ UNCHANGED peerClosed
    <2>1. destroyed \subseteq destroyed' /\ UNCHANGED peerClosed
      BY <1>2 DEF SocketClose
    <2>2. \A r \in Requests :
             \/ phase'[r] = phase[r]
             \/ phase[r] \in {"sent", "errbody", "body"} /\ phase'[r] = "failed"
      <3>1. CASE phase' = [phase EXCEPT ![holder[s]] = "failed"] /\ holder[s] \in InPhase({"sent"})
        BY <3>1 DEF InPhase, TypeOK, RequestsOK
      <3>2. CASE /\ phase' = [phase EXCEPT ![holder[s]] = IF @ = "ended" THEN @ ELSE "failed"]
                 /\ holder[s] \in InPhase({"errbody", "body", "ended"})
        BY <3>2 DEF InPhase, TypeOK, RequestsOK
      <3> QED
        BY <1>2, <3>1, <3>2 DEF SocketClose
    <2> QED
      BY <2>1, <2>2
  <1>3. ASSUME UNCHANGED <<phase, destroyed>> PROVE Progress
    BY <1>3
  <1>4. Progress /\ peerClosed \subseteq peerClosed'
    <2>1. CASE \/ \E s \in Sockets : \/ PeerReset(s) \/ ServerIdleClose(s) \/ NoticeClose(s)
                                     \/ \E c \in Clients : IdleTimeout(c, s)
               \/ \E o \in orphans : OrphanTimeout(o)
               \/ CloseClient \/ Tick \/ UNCHANGED vars
      <3>1. Progress
        BY <1>3, <2>1, QuietSteps
      <3>2. peerClosed \subseteq peerClosed'
        BY <2>1 DEF PeerReset, ServerIdleClose, NoticeClose, IdleTimeout, OrphanTimeout,
                    CloseClient, Tick, vars, sockVars
      <3> QED
        BY <3>1, <3>2
    <2> QED
      BY <1>1, <1>2, <2>1 DEF Next, SocketStep
  <1>5. finishedRequests \subseteq finishedRequests'
    BY <1>4 DEF finishedRequests, InPhase
  <1> QED
    BY <1>4, <1>5

\* The pool implements ConnectionLease: a request is sent at most once, no two
\* share a connection, and no connection is taken from a request that is not
\* over, unless the peer cut it.  client.close() and an idle timer on a socket
\* in use are the only things that break it.
THEOREM PoolKeepsLeases ==
    ASSUME ~MayClose
    PROVE  Spec /\ []NoTimerOnBusySocket => KeepsLeases
<1>1. Init => Lease!LeaseInit
  <2> SUFFICES ASSUME Init PROVE Lease!LeaseInit
    OBVIOUS
  <2>1. leaseOf = [s \in Sockets |-> "Unused"]
    BY DEF Init, leaseOf
  <2>2. servedRequests = {} /\ finishedRequests = {} /\ peerClosed = {}
    BY ConfigAssumption DEF Init, servedRequests, finishedRequests, InPhase
  <2> QED
    BY <2>1, <2>2 DEF Lease!LeaseInit
<1>2. TypeOK /\ TypeOK' /\ LeaseInv /\ LeaseInv' /\ OutcomeInv /\ OutcomeInv'
      /\ NoTimerOnBusySocket /\ [Next]_vars => [Lease!LeaseNext]_(Lease!leaseVars)
  <2> SUFFICES ASSUME TypeOK, TypeOK', LeaseInv, LeaseInv', OutcomeInv, OutcomeInv',
                      NoTimerOnBusySocket, [Next]_vars
               PROVE  Lease!LeaseNext
    OBVIOUS
  <2>1. \A s \in Sockets : Moves(s)
    BY StepMoves
  <2>2. \A s \in Sockets : leaseOf'[s] # leaseOf[s] => Lease!Change(s)
    BY <2>1, MoveChanges
  <2>3. \A s \in Sockets : leaseOf'[s] \in Requests => st'[s] = "busy" /\ leaseOf'[s] = holder'[s]
    <3> TAKE s \in Sockets
    <3>1. st'[s] \in {"unborn", "busy", "free", "closing", "dead"}
      BY DEF TypeOK, SocketsOK
    <3> QED
      BY <3>1, LeaseValueNext, LeaseAssumption
  <2>4. \A s, t \in Sockets : leaseOf'[s] = leaseOf'[t] /\ leaseOf'[s] \in Requests => s = t
    <3>1. \A s, t \in Sockets : holder'[s] = holder'[t] /\ holder'[s] # None => s = t
      BY DEF LeaseInv, HoldersOK
    <3> TAKE s, t \in Sockets
    <3> HAVE leaseOf'[s] = leaseOf'[t] /\ leaseOf'[s] \in Requests
    <3>2. holder'[s] = holder'[t] /\ holder'[s] # None
      BY <2>3, ConfigAssumption
    <3> QED
      BY <3>1, <3>2
  <2>5. servedRequests' = servedRequests \cup (Requests \cap {leaseOf'[s] : s \in Sockets})
    <3>1. ASSUME NEW r \in servedRequests PROVE r \in servedRequests'
      <4>1. CASE phase[r] \notin {"idle", "sleeping", "waiting"}
        BY <4>1, RequestsProgress DEF servedRequests
      <4>2. CASE \E s \in Sockets : holder[s] = r
        <5> PICK s \in Sockets : holder[s] = r
          BY <4>2
        <5>1. r \in Requests /\ r # None
          BY ConfigAssumption DEF servedRequests
        <5>2. Given(s) => FALSE
          BY <5>1 DEF Given, OutcomeInv, SocketFits
        <5>3. holder'[s] = r \/ phase'[r] \notin {"idle", "sleeping", "waiting"}
          BY <2>1, <5>1, <5>2 DEF Moves, Kept, Left, Destroyed, ClosedIdle, Dead
        <5> QED
          BY <5>1, <5>3 DEF servedRequests
      <4> QED
        BY <4>1, <4>2 DEF servedRequests
    <3>2. ASSUME NEW s \in Sockets, leaseOf'[s] \in Requests PROVE leaseOf'[s] \in servedRequests'
      BY <2>3, <3>2 DEF servedRequests
    <3>3. ASSUME NEW r \in servedRequests', r \notin servedRequests
          PROVE  \E s \in Sockets : r = leaseOf'[s]
      <4>1. r \in Requests /\ r # None
        BY ConfigAssumption DEF servedRequests
      <4>2. PICK s \in Sockets : holder'[s] = r
        BY <3>3, <4>1, RequestsProgress DEF servedRequests
      <4>3. holder[s] # r
        BY <3>3, <4>1 DEF servedRequests
      <4>4. st'[s] = "busy"
        BY <2>1, <4>1, <4>2, <4>3
           DEF Moves, Kept, Given, Left, GivenToNew, Destroyed, ClosedIdle, Dead
      <4> QED
        BY <4>2, <4>4, LeaseValueNext
    <3> QED
      BY <3>1, <3>2, <3>3 DEF servedRequests
  <2> QED
    BY <2>2, <2>4, <2>5, RequestsProgress DEF Lease!LeaseNext
<1> QED
  BY <1>1, <1>2, TypeCorrect, LeaseInvariant, OutcomeInvariant, PTL
     DEF Spec, KeepsLeases, Lease!LeaseSpec

-----------------------------------------------------------------------------
(* The request timeout.  removeRequestListeners resets the timeout of        *)
(* request.socket, which is the timeout of the next request if the agent has *)
(* passed the socket on.  It does so when a request is rejected or aborted   *)
(* after its response was received: for an error response, and for an abort  *)
(* between the end of the response and the operation's continuation.         *)

\* A request in flight has its timeout running; an operation that still runs
\* has not received its response, and a request that failed no live socket.
ArmedFits(r) ==
    /\ InFlight(r) /\ r \notin destroyed => socketOf[r] \in armed
    /\ phase[r] # "errbody"
    /\ phase[r] = "ended" => op[r] # "running"
    /\ phase[r] = "failed" /\ socketOf[r] \in Sockets => st[socketOf[r]] = "dead"

ArmedInv == \A r \in Requests : ArmedFits(r)

\* A step of a request stops no timeout but its own.
LEMMA DisarmsOwn ==
    ASSUME Abortable = {}, TypeOK, LeaseInv, OutcomeInv, NEW r \in Requests, ArmedFits(r),
           RequestStep(r)
    PROVE  \A s \in armed : s \in armed' \/ holder[s] = r \/ st[s] # "busy"
  <1>0. Fits(r)
    BY DEF OutcomeInv
  <1>1. CASE Call(r) \/ OnSocket(r) \/ ConsumerDestroy(r) \/ Response(r)
    BY <1>1 DEF Call, OnSocket, ConsumerDestroy, Response, sockVars
  <1>2. CASE WakeUp(r)
    BY <1>2 DEF WakeUp, AddRequest, GiveSocket
  <1>3. CASE OnSocketTooLate(r)
    BY <1>3 DEF OnSocketTooLate, Freed
  <1>4. CASE BodyEnd(r)
    BY <1>0, <1>4 DEF BodyEnd, Freed, Fits, UsesSocket
  <1>5. CASE RequestTimeout(r) \/ SourceError(r)
    BY <1>0, <1>5 DEF RequestTimeout, SourceError, Fits, HeardFits, UsesSocket
  <1>6. CASE Continue(r) \/ Drained(r)
    <2>1. CASE UNCHANGED armed
      BY <2>1
    <2>2. CASE ControllerAbort(r) /\ armed' = armed \ {socketOf[r]}
      <3>1. phase[r] # "ended" \/ Drained(r)
        BY <1>6 DEF Continue, ArmedFits
      <3>2. CASE phase[r] = "failed"
        BY <2>2, <3>2 DEF ArmedFits, TypeOK, SocketsOK
      <3>3. CASE phase[r] # "failed"
        <4>1. CASE Continue(r)
          <5>1. phase[r] \in {"waiting", "sent", "body"}
            BY <1>0, <3>1, <3>3, <4>1
               DEF Continue, Drained, Fits, NotCreatedFits, ArmedFits, TypeOK, RequestsOK, Phases
          <5> QED
            BY <1>0, <2>2, <5>1, ConfigAssumption
               DEF Fits, WaitingFits, UsesSocket, TypeOK, SocketsOK
        <4>2. CASE Drained(r)
          <5>1. phase[r] = "ended" /\ op[r] = "draining"
            BY <3>3, <4>2 DEF Drained
          <5>2. armed' = armed
            BY <4>2, <5>1 DEF Drained, Drain
          <5> QED
            BY <5>2
        <4> QED
          BY <1>6, <4>1, <4>2
      <3> QED
        BY <3>2, <3>3
    <2> QED
      BY <1>6, <2>1, <2>2 DEF Continue, Drained, Caught, ControllerAbort
  <1>7. ~UserAbort(r)
    BY DEF UserAbort
  <1> QED
    BY <1>1, <1>2, <1>3, <1>4, <1>5, <1>6, <1>7 DEF RequestStep

\* The request that takes the step
LEMMA ArmedStepOfRequest ==
    ASSUME Abortable = {}, "error" \notin Replies, TypeOK, TypeOK', LeaseInv, OutcomeInv,
           NEW r \in Requests, ArmedFits(r), RequestStep(r)
    PROVE  ArmedFits(r)'
  <1>0. Fits(r)
    BY DEF OutcomeInv
  <1>1. CASE Call(r) \/ WakeUp(r)
    BY <1>1 DEF Call, WakeUp, ArmedFits, InFlight, TypeOK, RequestsOK
  <1>2. CASE OnSocket(r)
    BY <1>2 DEF OnSocket, ArmedFits, InFlight, TypeOK, RequestsOK
  <1>3. CASE OnSocketTooLate(r)
    <2>1. phase[r] = "waiting" /\ phase'[r] = "failed" /\ socketOf' = socketOf
      BY <1>3 DEF OnSocketTooLate, TypeOK, RequestsOK
    <2> QED
      BY <1>0, <2>1, ConfigAssumption DEF Fits, WaitingFits, ArmedFits, InFlight
  <1>4. CASE Continue(r) \/ Drained(r)
    <2>1. op'[r] # "running" /\ UNCHANGED <<phase, socketOf>>
      BY <1>4 DEF Continue, Drained, AfterResponse, Drain, TypeOK, RequestsOK
    <2>2. \/ UNCHANGED <<destroyed, st, armed>>
          \/ r \in destroyed' /\ (st' = st \/ st' = Destroy({socketOf[r]}))
      BY <1>4 DEF Continue, Drained, Caught, ControllerAbort
    <2>3. \A s \in Sockets : st[s] = "dead" => st'[s] = "dead"
      BY <2>2 DEF Destroy
    <2> QED
      BY <2>1, <2>2, <2>3 DEF ArmedFits, InFlight
  <1>5. CASE ConsumerDestroy(r)
    BY <1>5 DEF ConsumerDestroy, ArmedFits, InFlight
  <1>6. CASE Response(r)
    BY <1>6 DEF Response, ArmedFits, InFlight, sockVars, TypeOK, RequestsOK
  <1>7. CASE BodyEnd(r)
    <2>1. /\ phase'[r] = "ended" /\ op' = op /\ LoopIdle
          /\ phase[r] = "body"
      BY <1>7 DEF BodyEnd, ArmedFits, TypeOK, RequestsOK
    <2>2. op[r] # "running"
      BY <1>0, <2>1 DEF Fits, OpFits, LoopIdle, Resumable
    <2> QED
      BY <2>1, <2>2 DEF ArmedFits, InFlight
  <1>8. CASE RequestTimeout(r) \/ SourceError(r)
    <2>1. UNCHANGED <<phase, op>> /\ r \in destroyed' /\ phase[r] # "failed"
      BY <1>0, <1>8 DEF RequestTimeout, SourceError, Fits, HeardFits
    <2> QED
      BY <2>1 DEF ArmedFits
  <1>9. ~UserAbort(r)
    BY DEF UserAbort
  <1> QED
    BY <1>1, <1>2, <1>3, <1>4, <1>5, <1>6, <1>7, <1>8, <1>9 DEF RequestStep

\* The requests that a step is not about
LEMMA ArmedKept ==
    ASSUME NEW r \in Requests, ArmedFits(r), SameRequest(r),
           phase[r] \in {"sent", "body", "errbody"} =>
              /\ st'[socketOf[r]] = "busy" => st[socketOf[r]] = "busy"
              /\ st'[socketOf[r]] = "busy" /\ socketOf[r] \in armed => socketOf[r] \in armed',
           \A s \in Sockets : st[s] = "dead" => st'[s] = "dead"
    PROVE  ArmedFits(r)'
  BY DEF ArmedFits, SameRequest, InFlight

LEMMA ArmedStep ==
    ASSUME Abortable = {}, "error" \notin Replies, TypeOK, TypeOK', LeaseInv, OutcomeInv,
           OutcomeInv', ArmedInv, [Next]_vars
    PROVE  ArmedInv'
  <1> SUFFICES ASSUME NEW q \in Requests PROVE ArmedFits(q)'
    BY DEF ArmedInv
  <1>0. ArmedFits(q)
    BY DEF ArmedInv
  <1>1. ASSUME NEW r \in Requests, RequestStep(r) PROVE ArmedFits(q)'
    <2>1. CASE q = r
      BY <1>0, <1>1, <2>1, ArmedStepOfRequest
    <2>2. CASE q # r
      <3>1. SameRequest(q)
        BY <1>1, <2>2, StepsOfOneRequest
      <3>2. \A s \in Sockets : Moves(s)
        BY <1>1, RequestMoves
      <3>3. \A s \in Sockets : st[s] = "dead" => st'[s] = "dead"
        BY <3>2 DEF Moves, Kept, Given, Left, Destroyed, ClosedIdle, Dead
      <3>4. ASSUME phase[q] \in {"sent", "body", "errbody"}, st'[socketOf[q]] = "busy"
            PROVE  /\ st[socketOf[q]] = "busy"
                   /\ socketOf[q] \in armed => socketOf[q] \in armed'
        <4>1. socketOf[q] \in Sockets /\ holder[socketOf[q]] = q /\ q # None
          BY <3>4, OnOwnSocket, ConfigAssumption
        <4>2. ~Given(socketOf[q])
          BY <4>1 DEF Given, OutcomeInv, SocketFits
        <4>3. st[socketOf[q]] = "busy"
          BY <3>2, <3>4, <4>1, <4>2 DEF Moves, Kept, Left, Destroyed, ClosedIdle, Dead
        <4>4. ArmedFits(r)
          BY DEF ArmedInv
        <4> QED
          BY <1>1, <2>2, <4>1, <4>3, <4>4, DisarmsOwn
      <3> QED
        BY <1>0, <3>1, <3>3, <3>4, ArmedKept
    <2> QED
      BY <2>1, <2>2
  <1>2. ASSUME NEW s \in Sockets, SocketClose(s) PROVE ArmedFits(q)'
    <2>1. /\ UNCHANGED <<socketOf, op>> /\ st[s] = "closing"
          /\ armed \ {s} \subseteq armed'
          /\ destroyed \subseteq destroyed'
      BY <1>2 DEF SocketClose
    <2>2. st'[s] = "dead" /\ \A t \in Sockets : t # s => st'[t] = st[t] \/ st[t] = "unborn"
      <3>1. CASE st' = [st EXCEPT ![s] = "dead"]
        BY <3>1 DEF TypeOK, SocketsOK
      <3>2. CASE \E u \in Sockets : /\ st[u] = "unborn"
                                    /\ st' = [[st EXCEPT ![s] = "dead"] EXCEPT ![u] = "busy"]
        BY <2>1, <3>2 DEF TypeOK, SocketsOK
      <3> QED
        BY <1>2, <3>1, <3>2 DEF SocketClose, NextUnborn
    <2>3. CASE q = holder[s] /\ phase[q] \in {"sent", "errbody", "body", "ended"}
      <3>1. \/ phase'[q] = "failed" /\ phase[q] \in {"sent", "errbody", "body"}
            \/ phase'[q] = "ended" /\ phase[q] = "ended"
        BY <1>2, <2>3 DEF SocketClose, InPhase, TypeOK, RequestsOK
      <3>2. phase[q] # "ended" => socketOf[q] = s
        BY <2>3, OnOwnSocket, ConfigAssumption DEF LeaseInv, HoldersOK
      <3> QED
        BY <1>0, <2>1, <2>2, <3>1, <3>2 DEF ArmedFits, InFlight
    <2>4. CASE q # holder[s] \/ phase[q] \notin {"sent", "errbody", "body", "ended"}
      <3>1. SameRequest(q)
        BY <1>2, <2>4 DEF SocketClose, InPhase, ErrorEvent, Settle, Unheard, SameRequest,
                          TypeOK, RequestsOK
      <3>2. ASSUME phase[q] \in {"sent", "body", "errbody"}, st'[socketOf[q]] = "busy"
            PROVE  /\ st[socketOf[q]] = "busy"
                   /\ socketOf[q] \in armed => socketOf[q] \in armed'
        <4>1. socketOf[q] \in Sockets /\ holder[socketOf[q]] = q /\ q # None
          BY <3>2, OnOwnSocket, ConfigAssumption
        <4>2. st[socketOf[q]] # "unborn"
          BY <4>1 DEF OutcomeInv, SocketFits
        <4> QED
          BY <2>1, <2>2, <2>4, <3>2, <4>1, <4>2
      <3>3. \A t \in Sockets : st[t] = "dead" => st'[t] = "dead"
        BY <2>1, <2>2
      <3> QED
        BY <1>0, <3>1, <3>2, <3>3, ArmedKept
    <2> QED
      BY <2>3, <2>4
  <1>3. CASE \/ \E s \in Sockets : \/ PeerReset(s) \/ ServerIdleClose(s) \/ NoticeClose(s)
                                   \/ \E c \in Clients : IdleTimeout(c, s)
             \/ \E o \in orphans : OrphanTimeout(o)
             \/ CloseClient \/ Tick \/ UNCHANGED vars
    <2>1. SameRequest(q) /\ (st' = st \/ \E S : st' = Destroy(S))
      BY <1>3, QuietSteps DEF SameRequest
    <2>2. UNCHANGED armed
      BY <1>3 DEF PeerReset, ServerIdleClose, NoticeClose, IdleTimeout, OrphanTimeout, CloseClient,
                  Tick, vars, sockVars
    <2>3. \A s \in Sockets : /\ st'[s] = "busy" => st[s] = "busy"
                             /\ st[s] = "dead" => st'[s] = "dead"
      BY <2>1 DEF Destroy
    <2>4. phase[q] \in {"sent", "body", "errbody"} => socketOf[q] \in Sockets
      BY OnOwnSocket
    <2> QED
      BY <1>0, <2>1, <2>2, <2>3, <2>4, ArmedKept
  <1> QED
    BY <1>1, <1>2, <1>3 DEF Next, SocketStep

\* Where users abort nothing and the server answers no request with an error,
\* a live request on its socket has its request timeout running on it, and
\* hears it, alone: the two cases left out are the only ones in which a
\* request disarms the socket of another.
THEOREM TimeoutsHeard ==
    ASSUME Abortable = {}, "error" \notin Replies
    PROVE  Spec => []TimeoutHeardByOwner
<1>1. Init => ArmedInv
  BY DEF Init, ArmedInv, ArmedFits, InFlight
<1>2. TypeOK /\ TypeOK' /\ LeaseInv /\ OutcomeInv /\ OutcomeInv' /\ ArmedInv
      /\ [Next]_vars => ArmedInv'
  BY ArmedStep
<1>3. TimeoutsAreOwned /\ ArmedInv => TimeoutHeardByOwner
  BY DEF TimeoutsAreOwned, ArmedInv, ArmedFits, TimeoutHeardByOwner
<1> QED
  BY <1>1, <1>2, <1>3, TypeCorrect, LeaseInvariant, OutcomeInvariant, TimeoutsOwned, PTL DEF Spec

-----------------------------------------------------------------------------
(* Without user aborts                                                       *)

\* The conditions above are met by the configuration alone: one client per
\* agent, no abort_signal and no client.close() while operations run.  Then
\* no idle timer runs on a socket in use, every network error is the peer's
\* doing, and the pool implements ConnectionLease.
THEOREM UndisturbedPool ==
    ASSUME OneClientPerAgent, Abortable = {}, ~MayClose
    PROVE  Spec => []NoTimerOnBusySocket /\ []ErrorsHeardAndTrue /\ KeepsLeases
<1> QED
  BY OnlyUsersAbortWaiting, TimersSpareRequests, ErrorsAreTrue, PoolKeepsLeases, PTL
=============================================================================
