------------------------- MODULE WebConnectionProofs -------------------------
(***************************************************************************)
(* Proofs about WebConnection: its type invariant, and, for any number of  *)
(* operations and signals, the invariant WebInv that ties the timer, the   *)
(* fetch, the response and the operation together.                         *)
(***************************************************************************)
EXTENDS WebConnection, TLAPS

\* Every variable keeps its type, in every state of the web connection.
THEOREM WebTypeCorrect == Spec => []TypeOK
<1>1. Init => TypeOK
  BY DEF Init, TypeOK, Kinds
<1>2. TypeOK /\ [Next]_vars => TypeOK'
  <2> SUFFICES ASSUME TypeOK, [Next]_vars PROVE TypeOK'
    OBVIOUS
  <2> USE DEF TypeOK
  <2>1. ASSUME NEW r \in Requests, Call(r) PROVE TypeOK'
    BY <2>1 DEF Call, TimerSet
  <2>2. ASSUME NEW r \in Requests, Headers(r) PROVE TypeOK'
    BY <2>2 DEF Headers
  <2>3. ASSUME NEW r \in Requests, BodyEnd(r) \/ ConsumerCancel(r) PROVE TypeOK'
    BY <2>3 DEF BodyEnd, ConsumerCancel
  <2>4. ASSUME NEW r \in Requests, NetworkError(r) PROVE TypeOK'
    BY <2>4 DEF NetworkError, Abort
  <2>5. ASSUME NEW r \in Requests, Timeout(r) PROVE TypeOK'
    BY <2>5 DEF Timeout, Abort
  <2>6. ASSUME NEW r \in Requests, Continue(r) PROVE TypeOK'
    <3>1. armed' \subseteq Requests
      BY <2>6 DEF Continue, TimerCleared
    <3>2. UNCHANGED <<kind, fetched, isTimedOut, isAborted, onabort, fired, asked>>
      BY <2>6 DEF Continue
    <3>3. CASE Use(r)
      BY <3>1, <3>2, <3>3 DEF Use, Rejected
    <3>4. CASE fetched[r] = "error"
      BY <2>6, <3>1, <3>2, <3>4 DEF Continue
    <3>5. CASE fetched[r] = "failed"
      BY <2>6, <3>1, <3>2, <3>5 DEF Continue, Rejected, Cause
    <3> QED
      BY <2>6, <3>3, <3>4, <3>5 DEF Continue
  <2>7. ASSUME NEW r \in Requests, ErrorText(r) PROVE TypeOK'
    BY <2>7 DEF ErrorText, Rejected, Cause
  <2>8. ASSUME NEW r \in Requests, Drained(r) PROVE TypeOK'
    BY <2>8 DEF Drained, Rejected
  <2>9. ASSUME NEW s \in Signals, UserAbort(s) PROVE TypeOK'
    BY <2>9 DEF UserAbort, Handler, Abort
  <2>10. CASE UNCHANGED vars
    BY <2>10 DEF vars
  <2> QED
    BY <2>1, <2>2, <2>3, <2>4, <2>5, <2>6, <2>7, <2>8, <2>9, <2>10
       DEF Next, RequestStep
<1> QED
  BY <1>1, <1>2, PTL DEF Spec

-----------------------------------------------------------------------------
(* The inductive invariant *)

\* How far a request is, told by its fetch and its response.
Progress(r) ==
    /\ op[r] = "idle" <=> fetched[r] = "none"
    /\ fetched[r] = "pending" => op[r] = "running"
    /\ fetched[r] \in {"ok", "error"} <=> body[r] # "none"
    /\ op[r] = "errtext" => fetched[r] = "error"
    /\ op[r] = "draining" => fetched[r] = "ok" /\ kind[r] = "insert"
    /\ op[r] = "fulfilled" => fetched[r] = "ok"
    /\ op[r] = "fulfilled" /\ kind[r] = "insert" => body[r] = "ended"
    /\ op[r] = "rejected" => body[r] # "open"

\* The timer runs only while fetch is awaited.
TimerInv(r) ==
    /\ r \in armed => op[r] = "running"
    /\ r \in isTimedOut => fetched[r] = "failed"

\* A handler aborts the request of its signal.
HandlerInv(r) ==
    /\ \A s \in Signals : onabort[s] = r => Watches(r, s)
    /\ r \in isAborted => SignalOf[r] \in fired
    /\ r \in asked => op[r] # "idle"

CauseInv(r) ==
    /\ cause[r] # "none" => op[r] = "rejected"
    /\ cause[r] = "aborted" => r \in isAborted
    /\ cause[r] = "timeout" => r \in isTimedOut
    /\ fetched[r] = "failed" /\ op[r] = "rejected" /\ r \in isTimedOut
           => cause[r] \in {"timeout", "aborted"}

WebInv ==
    \A r \in Requests : Progress(r) /\ TimerInv(r) /\ HandlerInv(r) /\ CauseInv(r)

\* WebInv holds in every state: the arguments of all the properties below.
THEOREM WebInvariant == Spec => []WebInv
<1> USE DEF WebInv, Progress, TimerInv, HandlerInv, CauseInv
<1>1. Init => WebInv
  <2> SUFFICES ASSUME Init, NEW r \in Requests
               PROVE  Progress(r) /\ TimerInv(r) /\ HandlerInv(r) /\ CauseInv(r)
    OBVIOUS
  <2>1. Progress(r) /\ TimerInv(r) /\ CauseInv(r)
    BY DEF Init
  <2>2. \A s \in Signals : onabort[s] # r
    BY WebAssumption DEF Init
  <2> QED
    BY <2>1, <2>2 DEF Init
<1>2. TypeOK /\ WebInv /\ [Next]_vars => WebInv'
  <2> SUFFICES ASSUME TypeOK, WebInv, [Next]_vars PROVE WebInv'
    OBVIOUS
  <2> USE WebAssumption DEF TypeOK, Watches
  <2>1. ASSUME NEW r \in Requests, Call(r) PROVE WebInv'
    BY <2>1 DEF Call, TimerSet
  <2>2. ASSUME NEW r \in Requests, Headers(r) PROVE WebInv'
    BY <2>2 DEF Headers
  <2>3. ASSUME NEW r \in Requests, BodyEnd(r) \/ ConsumerCancel(r) PROVE WebInv'
    BY <2>3 DEF BodyEnd, ConsumerCancel
  <2>4. ASSUME NEW r \in Requests, NetworkError(r) PROVE WebInv'
    BY <2>4 DEF NetworkError, Abort
  <2>5. ASSUME NEW r \in Requests, Timeout(r) PROVE WebInv'
    BY <2>5 DEF Timeout, Abort, LoopIdle, Resumable
  <2>6. ASSUME NEW r \in Requests, Continue(r) PROVE WebInv'
    <3>1. /\ op[r] = "running" /\ fetched[r] # "pending"
          /\ armed' = armed \ {r}
          /\ UNCHANGED <<kind, fetched, isTimedOut, isAborted, onabort, fired, asked>>
      BY <2>6 DEF Continue, TimerCleared
    <3>2. CASE fetched[r] = "ok" /\ Use(r)
      BY <3>1, <3>2 DEF Use, Rejected
    <3>3. CASE fetched[r] = "error"
      BY <2>6, <3>1, <3>3 DEF Continue
    <3>4. CASE fetched[r] = "failed"
      BY <2>6, <3>1, <3>4 DEF Continue, Rejected, Cause
    <3> QED
      BY <2>6, <3>2, <3>3, <3>4 DEF Continue
  <2>7. ASSUME NEW r \in Requests, ErrorText(r) PROVE WebInv'
    BY <2>7 DEF ErrorText, Rejected, Cause
  <2>8. ASSUME NEW r \in Requests, Drained(r) PROVE WebInv'
    BY <2>8 DEF Drained, Rejected
  <2>9. ASSUME NEW s \in Signals, UserAbort(s) PROVE WebInv'
    BY <2>9 DEF UserAbort, Handler, Abort, InProgress
  <2>10. CASE UNCHANGED vars
    BY <2>10 DEF vars
  <2> QED
    BY <2>1, <2>2, <2>3, <2>4, <2>5, <2>6, <2>7, <2>8, <2>9, <2>10
       DEF Next, RequestStep
<1> QED
  BY <1>1, <1>2, WebTypeCorrect, PTL DEF Spec

\* A response that has begun is never broken by the request timeout.
THEOREM TimersSpareResponses == Spec => []TimeoutSparesResponses
<1>1. TypeOK /\ WebInv => TimeoutSparesResponses
  BY DEF TypeOK, WebInv, Progress, TimerInv, TimeoutSparesResponses
<1> QED
  BY <1>1, WebInvariant, WebTypeCorrect, PTL

\* An insert is reported as done only with its whole response.
THEOREM InsertsReceived == Spec => []InsertedMeansReceived
<1>1. WebInv => InsertedMeansReceived
  BY DEF WebInv, Progress, InsertedMeansReceived
<1> QED
  BY <1>1, WebInvariant, PTL

\* No operation leaves a timer behind, no rejected one an open response.
THEOREM SettledLeftNothing == Spec => []SettledLeavesNothing
<1>1. WebInv => SettledLeavesNothing
  BY DEF WebInv, Progress, TimerInv, SettledLeavesNothing
<1> QED
  BY <1>1, WebInvariant, PTL

-----------------------------------------------------------------------------
(* Signals that operations do not share *)

Unshared == \A q, r \in Requests : SignalOf[q] = SignalOf[r] => q = r

\* With signals of its own, a started operation still owns its handler, and
\* whoever was asked to stop was aborted.
OwnInv ==
    \A r \in Requests :
        /\ \A s \in Signals : Watches(r, s) /\ op[r] # "idle" => onabort[s] = r
        /\ r \in asked => /\ r \in isAborted
                          /\ fetched[r] # "pending" /\ body[r] # "open"
        /\ cause[r] = "timeout" => r \notin asked /\ fetched[r] = "failed"

\* OwnInv holds in every state when no two operations share a signal.
THEOREM OwnInvariant ==
  ASSUME Unshared
  PROVE  Spec => []OwnInv
<1> USE DEF OwnInv
<1>1. Init => OwnInv
  BY WebAssumption DEF Init
<1>2. TypeOK /\ WebInv /\ OwnInv /\ [Next]_vars => OwnInv'
  <2> SUFFICES ASSUME TypeOK, WebInv, OwnInv, [Next]_vars PROVE OwnInv'
    OBVIOUS
  <2> USE WebAssumption DEF TypeOK, Watches, WebInv, Progress, TimerInv, CauseInv,
          HandlerInv
  <2>1. ASSUME NEW r \in Requests, Call(r) PROVE OwnInv'
    BY <2>1, Unshared DEF Call, Unshared
  <2>2. ASSUME NEW r \in Requests, Headers(r) PROVE OwnInv'
    BY <2>2 DEF Headers
  <2>3. ASSUME NEW r \in Requests, BodyEnd(r) \/ ConsumerCancel(r) PROVE OwnInv'
    BY <2>3 DEF BodyEnd, ConsumerCancel
  <2>4. ASSUME NEW r \in Requests, NetworkError(r) PROVE OwnInv'
    BY <2>4 DEF NetworkError, Abort
  <2>5. ASSUME NEW r \in Requests, Timeout(r) PROVE OwnInv'
    BY <2>5 DEF Timeout, Abort
  <2>6. ASSUME NEW r \in Requests, Continue(r) PROVE OwnInv'
    <3>1. /\ op[r] = "running" /\ fetched[r] # "pending"
          /\ UNCHANGED <<kind, fetched, isTimedOut, isAborted, onabort, fired, asked>>
      BY <2>6 DEF Continue
    <3>2. CASE fetched[r] = "ok" /\ Use(r)
      BY <3>1, <3>2 DEF Use, Rejected
    <3>3. CASE fetched[r] = "error"
      BY <2>6, <3>1, <3>3 DEF Continue
    <3>4. CASE fetched[r] = "failed"
      BY <2>6, <3>1, <3>4 DEF Continue, Rejected, Cause
    <3> QED
      BY <2>6, <3>2, <3>3, <3>4 DEF Continue
  <2>7. ASSUME NEW r \in Requests, ErrorText(r) PROVE OwnInv'
    BY <2>7 DEF ErrorText, Rejected, Cause
  <2>8. ASSUME NEW r \in Requests, Drained(r) PROVE OwnInv'
    BY <2>8 DEF Drained, Rejected
  <2>9. ASSUME NEW s \in Signals, UserAbort(s) PROVE OwnInv'
    BY <2>9, Unshared DEF UserAbort, Handler, Abort, InProgress, Unshared
  <2>10. CASE UNCHANGED vars
    BY <2>10 DEF vars
  <2> QED
    BY <2>1, <2>2, <2>3, <2>4, <2>5, <2>6, <2>7, <2>8, <2>9, <2>10
       DEF Next, RequestStep
<1> QED
  BY <1>1, <1>2, WebTypeCorrect, WebInvariant, PTL DEF Spec

\* A signal given to one operation only cancels it, in whatever phase it is:
\* sharing the signal is all that can go wrong.
THEOREM OwnSignalsReach ==
  ASSUME Unshared
  PROVE  Spec => []AbortReaches
<1>1. OwnInv /\ TypeOK => AbortReaches
  BY DEF OwnInv, AbortReaches, TypeOK
<1> QED
  BY <1>1, OwnInvariant, WebTypeCorrect, PTL

\* The reported cause of a rejection is what happened.
THEOREM CausesAreTrue ==
  ASSUME Unshared
  PROVE  Spec => []CauseIsTrue
<1>1. OwnInv /\ WebInv => CauseIsTrue
  BY DEF OwnInv, WebInv, HandlerInv, CauseInv, CauseIsTrue
<1> QED
  BY <1>1, OwnInvariant, WebInvariant, PTL

=============================================================================
