-------------------------- MODULE ClientFacadeProofs --------------------------
(***************************************************************************)
(* Proofs about ResultSet and ClientFacade: the types, the reader, the     *)
(* span and the stream of a result set; these hold of the one that query() *)
(* hands out; every operation tells its span what it tells its caller, and *)
(* the spans keep the protocol of the tracer, for any number of            *)
(* operations, calls and rows and on both platforms.                       *)
(***************************************************************************)
EXTENDS ClientFacade, TLAPS

-----------------------------------------------------------------------------
(* A result set                                                            *)


\* The rows of the body are still to come, or in the pipe, or read.
Counted ==
    /\ CountsOK
    /\ enqueued + left <= Total
    /\ read <= enqueued

\* No step puts more rows into the pipe than the body has, or takes out more
\* than were put in.
LEMMA CountedStep ==
  ASSUME TypeOK, Counted, [Next]_vars
  PROVE  Counted'
<1> USE ResultSetAssumption DEF TypeOK, Counted, CountsOK, bodyVars, pipeVars
<1>1. ASSUME NEW c \in Calls, CallText(c) PROVE Counted'
  BY <1>1 DEF CallText, Refused, ReadAsText, Consume, Piped, FinishSpan, spanVars
<1>2. ASSUME NEW c \in Calls, CallJson(c) PROVE Counted'
  BY <1>2 DEF CallJson, Refused, ReadAsText, Consume, Piped, FinishSpan, spanVars
<1>3. ASSUME NEW c \in Calls, CallStream(c) PROVE Counted'
  BY <1>3 DEF CallStream, Refused, ReadAsText, Consume, Piped, FinishSpan, spanVars
<1>4. ASSUME NEW c \in Calls, CloseNode(c) PROVE Counted'
  BY <1>4 DEF CloseNode, Refused, ReadAsText, Consume, Piped, FinishSpan, spanVars
<1>5. ASSUME NEW c \in Calls, CloseWeb(c) PROVE Counted'
  BY <1>5 DEF CloseWeb, Refused, ReadAsText, Consume, Piped, FinishSpan, spanVars
<1>6. ASSUME NEW c \in Calls, BodyRead(c) PROVE Counted'
  BY <1>6 DEF BodyRead, FinishSpan, spanVars
<1>7. ASSUME NEW c \in Calls, BodyLost(c) PROVE Counted'
  BY <1>7 DEF BodyLost, FinishSpan, spanVars
<1>8. ASSUME NEW c \in Calls, TooLong(c) PROVE Counted'
  BY <1>8 DEF TooLong, FinishSpan, spanVars
<1>9. ASSUME Arrive PROVE Counted'
  BY <1>9 DEF Arrive, FinishSpan, spanVars
<1>10. ASSUME SourceEnd PROVE Counted'
  BY <1>10 DEF SourceEnd, FinishSpan, spanVars
<1>11. ASSUME SourceError PROVE Counted'
  BY <1>11 DEF SourceError, FinishSpan, spanVars
<1>12. ASSUME PipeFlush PROVE Counted'
  BY <1>12 DEF PipeFlush, FinishSpan, spanVars
<1>13. ASSUME TakeRow PROVE Counted'
  BY <1>13 DEF TakeRow, FinishSpan, spanVars
<1>14. ASSUME PipeDone PROVE Counted'
  BY <1>14 DEF PipeDone, FinishSpan, spanVars
<1>15. ASSUME PipeFail PROVE Counted'
  BY <1>15 DEF PipeFail, SourceFails, FinishSpan, spanVars
<1>19. ASSUME PipeBreak PROVE Counted'
  BY <1>19 DEF PipeBreak, SourceFails, FinishSpan, spanVars
<1>20. ASSUME PipelineCb PROVE Counted'
  BY <1>20 DEF PipelineCb, FinishSpan, spanVars
<1>16. ASSUME ConsumerLeaves PROVE Counted'
  BY <1>16 DEF ConsumerLeaves, FinishSpan, spanVars
<1>17. ASSUME BadRow PROVE Counted'
  BY <1>17 DEF BadRow, FinishSpan, spanVars
<1>18. ASSUME UNCHANGED vars PROVE Counted'
  BY <1>18 DEF vars, spanVars
<1> QED
  BY <1>1, <1>2, <1>3, <1>4, <1>5, <1>6, <1>7, <1>8, <1>9, <1>10, <1>11, <1>12, <1>13, <1>14, <1>15, <1>16, <1>17, <1>18, <1>19, <1>20 DEF Next, CallStep

\* Types and counts together are inductive.
THEOREM CountsInvariant == Spec => [](TypeOK /\ Counted)
<1>1. Init => TypeOK /\ Counted
  <2> SUFFICES ASSUME Init PROVE TypeOK /\ Counted
    OBVIOUS
  <2>1. Counted
    BY ResultSetAssumption DEF Init, Counted, CountsOK
  <2> QED
    BY <2>1 DEF Init, Counted, TypeOK
<1>2. TypeOK /\ Counted /\ [Next]_vars => (TypeOK /\ Counted)'
  <2> SUFFICES ASSUME TypeOK, Counted, [Next]_vars PROVE (TypeOK /\ Counted)'
    OBVIOUS
  <2>a. Counted'
    BY CountedStep
  <2>b. CountsOK'
    BY <2>a DEF Counted
  <2> USE <2>b DEF TypeOK, Becomes, bodyVars, pipeVars, rigid
  <2>1. ASSUME NEW c \in Calls, CallText(c) PROVE TypeOK'
    BY <2>1 DEF CallText, FinishSpan, spanVars, Called, Refused, ReadAsText, Consume
  <2>2. ASSUME NEW c \in Calls, CallJson(c) PROVE TypeOK'
    <3>1. kind' \in [Calls -> {"none", "text", "json", "stream", "close"}]
      BY <2>2 DEF CallJson, Called
    <3>2. UNCHANGED <<rigid, bodyVars>> /\ consumed' \in BOOLEAN
      BY <2>2 DEF CallJson, Refused, Consume
    <3>3. CASE Refused(c)
      BY <3>1, <3>2, <3>3 DEF Refused, spanVars
    <3>4. CASE ReadAsText(c)
      BY <3>1, <3>2, <3>4 DEF ReadAsText, FinishSpan, spanVars
    <3>5. CASE Piped(c)
      BY <3>1, <3>2, <3>5 DEF Piped, spanVars
    <3> QED
      BY <2>2, <3>3, <3>4, <3>5 DEF CallJson
  <2>3. ASSUME NEW c \in Calls, CallStream(c) PROVE TypeOK'
    BY <2>3 DEF CallStream, FinishSpan, spanVars, Called, Refused, Consume, Piped
  <2>4. ASSUME NEW c \in Calls, CloseNode(c) PROVE TypeOK'
    BY <2>4 DEF CloseNode, FinishSpan, spanVars, Called
  <2>5. ASSUME NEW c \in Calls, CloseWeb(c) PROVE TypeOK'
    BY <2>5 DEF CloseWeb, FinishSpan, spanVars, Called, Refused, Consume
  <2>6. ASSUME NEW c \in Calls, BodyRead(c) PROVE TypeOK'
    BY <2>6 DEF BodyRead, FinishSpan, spanVars
  <2>7. ASSUME NEW c \in Calls, BodyLost(c) PROVE TypeOK'
    BY <2>7 DEF BodyLost, FinishSpan, spanVars
  <2>8. ASSUME NEW c \in Calls, TooLong(c) PROVE TypeOK'
    BY <2>8 DEF TooLong, FinishSpan, spanVars
  <2>9. ASSUME Arrive PROVE TypeOK'
    BY <2>9 DEF Arrive, FinishSpan, spanVars, Reading, calls
  <2>10. ASSUME SourceEnd PROVE TypeOK'
    BY <2>10 DEF SourceEnd, FinishSpan, spanVars, Reading, calls
  <2>11. ASSUME SourceError PROVE TypeOK'
    BY <2>11 DEF SourceError, FinishSpan, spanVars, Reading, calls
  <2>12. ASSUME PipeFlush PROVE TypeOK'
    BY <2>12 DEF PipeFlush, FinishSpan, spanVars, Reading, calls
  <2>13. ASSUME TakeRow PROVE TypeOK'
    BY <2>13 DEF TakeRow, FinishSpan, spanVars, Reading, calls
  <2>14. ASSUME PipeDone PROVE TypeOK'
    BY <2>14 DEF PipeDone, FinishSpan, spanVars, Reading, calls
  <2>15. ASSUME PipeFail PROVE TypeOK'
    BY <2>15 DEF PipeFail, SourceFails, FinishSpan, spanVars, Reading, calls
  <2>19. ASSUME PipeBreak PROVE TypeOK'
    BY <2>19 DEF PipeBreak, SourceFails, FinishSpan, spanVars, Reading, calls
  <2>20. ASSUME PipelineCb PROVE TypeOK'
    BY <2>20 DEF PipelineCb, FinishSpan, spanVars, Reading, calls
  <2>16. ASSUME ConsumerLeaves PROVE TypeOK'
    BY <2>16 DEF ConsumerLeaves, FinishSpan, spanVars, Reading, calls, LeftAs
  <2>17. ASSUME BadRow PROVE TypeOK'
    BY <2>17 DEF BadRow, FinishSpan, spanVars, Reading, calls, LeftAs
  <2>18. ASSUME UNCHANGED vars PROVE TypeOK'
    BY <2>18 DEF vars, calls, spanVars
  <2> QED
    BY <2>a, <2>1, <2>2, <2>3, <2>4, <2>5, <2>6, <2>7, <2>8, <2>9, <2>10, <2>11, <2>12, <2>13, <2>14, <2>15, <2>16, <2>17, <2>18, <2>19, <2>20 DEF Next, CallStep
<1> QED
  BY <1>1, <1>2, PTL DEF Spec

\* Every variable keeps its type, in every state of a result set.
THEOREM ResultSetTypeCorrect == Spec => []TypeOK
BY CountsInvariant, PTL

-----------------------------------------------------------------------------
(* The inductive invariant *)

\* Who reads the response, and what it was marked with.
ReaderInv ==
    /\ \A c \in Calls : status[c] = "reading" => reader = c
    /\ reader # None => /\ kind[reader] \in {"text", "json", "stream"}
                        /\ status[reader] # "idle"
                        /\ consumed \/ (Web /\ format = "document")
    /\ Node /\ consumed => reader # None
    /\ pipe # "none" => reader # None /\ format # "document"

\* What has come of the response, and what the calls that are done saw of it.
SourceInv ==
    /\ reader = None => left = Total
    /\ pipe = "none" => enqueued = 0
    /\ pipe # "none" => enqueued + left = Total
    /\ source = "ended" => left = 0
    /\ pipe \in {"flushed", "finished"} => source = "ended"
    /\ pipe = "broken" => source # "open"
    /\ pipe \in {"finished", "failed", "left"} => ~Reading
    /\ \A c \in Calls :
          status[c] = "fulfilled" /\ kind[c] \in {"text", "json"} =>
             /\ reader # None
             /\ source = "ended" /\ (pipe # "none" => read = Total)

\* When the span has ended, and when the callback of a pipe that ends it is due.
SpanInv ==
    /\ ends = IF span = "open" THEN 0 ELSE 1
    /\ Reading \/ reader = None \/ span # "open" \/ pipelineCb \in {"ok", "error"}
    /\ Web /\ pipe = "flushed" => span # "open"
    /\ pipelineCb = "called" => span # "open"
    /\ IF Node /\ pipe \notin {"none", "flowing"} THEN pipelineCb # "none"
                                                 ELSE pipelineCb = "none"
    /\ pipe = "broken" => Node
    /\ Node /\ reader # None /\ ~Reading => source # "open"

RSInv == ReaderInv /\ SourceInv /\ SpanInv

\* No step confuses readers.
LEMMA ReaderInvStep ==
  ASSUME TypeOK, Counted, RSInv, [Next]_vars
  PROVE  ReaderInv'
<1> USE ResultSetAssumption DEF TypeOK, Counted, CountsOK, RSInv, ReaderInv, SourceInv,
        SpanInv, Reading, Node, Web, Becomes, bodyVars, pipeVars, rigid
<1>1. ASSUME NEW c \in Calls, CallText(c) PROVE ReaderInv'
  BY <1>1 DEF CallText, FinishSpan, spanVars, Called, Refused, ReadAsText, Consume, Locked
<1>2. ASSUME NEW c \in Calls, CallJson(c) PROVE ReaderInv'
  BY <1>2 DEF CallJson, FinishSpan, spanVars, Called, Refused, ReadAsText, Consume, Piped, Locked
<1>3. ASSUME NEW c \in Calls, CallStream(c) PROVE ReaderInv'
  BY <1>3 DEF CallStream, FinishSpan, spanVars, Called, Refused, Consume, Piped, ValidatesFirst
<1>4. ASSUME NEW c \in Calls, CloseNode(c) PROVE ReaderInv'
  BY <1>4 DEF CloseNode, FinishSpan, spanVars, Called
<1>5. ASSUME NEW c \in Calls, CloseWeb(c) PROVE ReaderInv'
  BY <1>5 DEF CloseWeb, FinishSpan, spanVars, Called, Refused, Consume
<1>6. ASSUME NEW c \in Calls, BodyRead(c) PROVE ReaderInv'
  BY <1>6 DEF BodyRead, FinishSpan, spanVars
<1>7. ASSUME NEW c \in Calls, BodyLost(c) PROVE ReaderInv'
  BY <1>7 DEF BodyLost, FinishSpan, spanVars
<1>8. ASSUME NEW c \in Calls, TooLong(c) PROVE ReaderInv'
  BY <1>8 DEF TooLong, FinishSpan, spanVars
<1>9. ASSUME Arrive PROVE ReaderInv'
  BY <1>9 DEF Arrive, FinishSpan, spanVars, calls
<1>10. ASSUME SourceEnd PROVE ReaderInv'
  BY <1>10 DEF SourceEnd, FinishSpan, spanVars, calls
<1>11. ASSUME SourceError PROVE ReaderInv'
  BY <1>11 DEF SourceError, FinishSpan, spanVars, calls
<1>12. ASSUME PipeFlush PROVE ReaderInv'
  BY <1>12 DEF PipeFlush, FinishSpan, spanVars, calls
<1>13. ASSUME TakeRow PROVE ReaderInv'
  BY <1>13 DEF TakeRow, FinishSpan, spanVars, calls
<1>14. ASSUME PipeDone PROVE ReaderInv'
  BY <1>14 DEF PipeDone, FinishSpan, spanVars, calls
<1>15. ASSUME PipeFail PROVE ReaderInv'
  BY <1>15 DEF PipeFail, SourceFails, FinishSpan, spanVars, calls
<1>19. ASSUME PipeBreak PROVE ReaderInv'
  BY <1>19 DEF PipeBreak, SourceFails, FinishSpan, spanVars, calls
<1>20. ASSUME PipelineCb PROVE ReaderInv'
  BY <1>20 DEF PipelineCb, FinishSpan, spanVars, calls
<1>16. ASSUME ConsumerLeaves PROVE ReaderInv'
  BY <1>16 DEF ConsumerLeaves, FinishSpan, spanVars, calls, LeftAs
<1>17. ASSUME BadRow PROVE ReaderInv'
  BY <1>17 DEF BadRow, FinishSpan, spanVars, calls, LeftAs
<1>18. ASSUME UNCHANGED vars PROVE ReaderInv'
  BY <1>18 DEF vars, calls, spanVars
<1> QED
  BY <1>1, <1>2, <1>3, <1>4, <1>5, <1>6, <1>7, <1>8, <1>9, <1>10, <1>11, <1>12, <1>13, <1>14, <1>15, <1>16, <1>17, <1>18, <1>19, <1>20 DEF Next, CallStep

\* No step loses count of the response.
LEMMA SourceInvStep ==
  ASSUME TypeOK, Counted, RSInv, [Next]_vars
  PROVE  SourceInv'
<1> USE ResultSetAssumption DEF TypeOK, Counted, CountsOK, RSInv, ReaderInv, SourceInv,
        SpanInv, Reading, Node, Web, Becomes, bodyVars, pipeVars, rigid
<1>1. ASSUME NEW c \in Calls, CallText(c) PROVE SourceInv'
  BY <1>1 DEF CallText, FinishSpan, spanVars, Called, Refused, ReadAsText, Consume, Locked
<1>2. ASSUME NEW c \in Calls, CallJson(c) PROVE SourceInv'
  BY <1>2 DEF CallJson, FinishSpan, spanVars, Called, Refused, ReadAsText, Consume, Piped, Locked
<1>3. ASSUME NEW c \in Calls, CallStream(c) PROVE SourceInv'
  BY <1>3 DEF CallStream, FinishSpan, spanVars, Called, Refused, Consume, Piped, ValidatesFirst
<1>4. ASSUME NEW c \in Calls, CloseNode(c) PROVE SourceInv'
  BY <1>4 DEF CloseNode, FinishSpan, spanVars, Called
<1>5. ASSUME NEW c \in Calls, CloseWeb(c) PROVE SourceInv'
  BY <1>5 DEF CloseWeb, FinishSpan, spanVars, Called, Refused, Consume
<1>6. ASSUME NEW c \in Calls, BodyRead(c) PROVE SourceInv'
  BY <1>6 DEF BodyRead, FinishSpan, spanVars
<1>7. ASSUME NEW c \in Calls, BodyLost(c) PROVE SourceInv'
  BY <1>7 DEF BodyLost, FinishSpan, spanVars
<1>8. ASSUME NEW c \in Calls, TooLong(c) PROVE SourceInv'
  BY <1>8 DEF TooLong, FinishSpan, spanVars
<1>9. ASSUME Arrive PROVE SourceInv'
  BY <1>9 DEF Arrive, FinishSpan, spanVars, calls
<1>10. ASSUME SourceEnd PROVE SourceInv'
  BY <1>10 DEF SourceEnd, FinishSpan, spanVars, calls
<1>11. ASSUME SourceError PROVE SourceInv'
  BY <1>11 DEF SourceError, FinishSpan, spanVars, calls
<1>12. ASSUME PipeFlush PROVE SourceInv'
  BY <1>12 DEF PipeFlush, FinishSpan, spanVars, calls
<1>13. ASSUME TakeRow PROVE SourceInv'
  BY <1>13 DEF TakeRow, FinishSpan, spanVars, calls
<1>14. ASSUME PipeDone PROVE SourceInv'
  BY <1>14 DEF PipeDone, FinishSpan, spanVars, calls
<1>15. ASSUME PipeFail PROVE SourceInv'
  BY <1>15 DEF PipeFail, SourceFails, FinishSpan, spanVars, calls
<1>19. ASSUME PipeBreak PROVE SourceInv'
  BY <1>19 DEF PipeBreak, SourceFails, FinishSpan, spanVars, calls
<1>20. ASSUME PipelineCb PROVE SourceInv'
  BY <1>20 DEF PipelineCb, FinishSpan, spanVars, calls
<1>16. ASSUME ConsumerLeaves PROVE SourceInv'
  BY <1>16 DEF ConsumerLeaves, FinishSpan, spanVars, calls, LeftAs
<1>17. ASSUME BadRow PROVE SourceInv'
  BY <1>17 DEF BadRow, FinishSpan, spanVars, calls, LeftAs
<1>18. ASSUME UNCHANGED vars PROVE SourceInv'
  BY <1>18 DEF vars, calls, spanVars
<1> QED
  BY <1>1, <1>2, <1>3, <1>4, <1>5, <1>6, <1>7, <1>8, <1>9, <1>10, <1>11, <1>12, <1>13, <1>14, <1>15, <1>16, <1>17, <1>18, <1>19, <1>20 DEF Next, CallStep

\* No step leaves the span open, or ends it twice.
LEMMA SpanInvStep ==
  ASSUME TypeOK, Counted, RSInv, [Next]_vars
  PROVE  SpanInv'
<1> USE ResultSetAssumption DEF TypeOK, Counted, CountsOK, RSInv, ReaderInv, SourceInv,
        SpanInv, Reading, Node, Web, Becomes, bodyVars, pipeVars, rigid
<1>1. ASSUME NEW c \in Calls, CallText(c) PROVE SpanInv'
  BY <1>1 DEF CallText, FinishSpan, spanVars, Called, Refused, ReadAsText, Consume, Locked
<1>2. ASSUME NEW c \in Calls, CallJson(c) PROVE SpanInv'
  BY <1>2 DEF CallJson, FinishSpan, spanVars, Called, Refused, ReadAsText, Consume, Piped, Locked
<1>3. ASSUME NEW c \in Calls, CallStream(c) PROVE SpanInv'
  BY <1>3 DEF CallStream, FinishSpan, spanVars, Called, Refused, Consume, Piped, ValidatesFirst
<1>4. ASSUME NEW c \in Calls, CloseNode(c) PROVE SpanInv'
  BY <1>4 DEF CloseNode, FinishSpan, spanVars, Called
<1>5. ASSUME NEW c \in Calls, CloseWeb(c) PROVE SpanInv'
  BY <1>5 DEF CloseWeb, FinishSpan, spanVars, Called, Refused, Consume
<1>6. ASSUME NEW c \in Calls, BodyRead(c) PROVE SpanInv'
  BY <1>6 DEF BodyRead, FinishSpan, spanVars
<1>7. ASSUME NEW c \in Calls, BodyLost(c) PROVE SpanInv'
  BY <1>7 DEF BodyLost, FinishSpan, spanVars
<1>8. ASSUME NEW c \in Calls, TooLong(c) PROVE SpanInv'
  BY <1>8 DEF TooLong, FinishSpan, spanVars
<1>9. ASSUME Arrive PROVE SpanInv'
  BY <1>9 DEF Arrive, FinishSpan, spanVars, calls
<1>10. ASSUME SourceEnd PROVE SpanInv'
  BY <1>10 DEF SourceEnd, FinishSpan, spanVars, calls
<1>11. ASSUME SourceError PROVE SpanInv'
  BY <1>11 DEF SourceError, FinishSpan, spanVars, calls
<1>12. ASSUME PipeFlush PROVE SpanInv'
  BY <1>12 DEF PipeFlush, FinishSpan, spanVars, calls
<1>13. ASSUME TakeRow PROVE SpanInv'
  BY <1>13 DEF TakeRow, FinishSpan, spanVars, calls
<1>14. ASSUME PipeDone PROVE SpanInv'
  BY <1>14 DEF PipeDone, FinishSpan, spanVars, calls
<1>15. ASSUME PipeFail PROVE SpanInv'
  BY <1>15 DEF PipeFail, SourceFails, FinishSpan, spanVars, calls
<1>19. ASSUME PipeBreak PROVE SpanInv'
  BY <1>19 DEF PipeBreak, SourceFails, FinishSpan, spanVars, calls
<1>20. ASSUME PipelineCb PROVE SpanInv'
  BY <1>20 DEF PipelineCb, FinishSpan, spanVars, calls
<1>16. ASSUME ConsumerLeaves PROVE SpanInv'
  BY <1>16 DEF ConsumerLeaves, FinishSpan, spanVars, calls, LeftAs
<1>17. ASSUME BadRow PROVE SpanInv'
  BY <1>17 DEF BadRow, FinishSpan, spanVars, calls, LeftAs
<1>18. ASSUME UNCHANGED vars PROVE SpanInv'
  BY <1>18 DEF vars, calls, spanVars
<1> QED
  BY <1>1, <1>2, <1>3, <1>4, <1>5, <1>6, <1>7, <1>8, <1>9, <1>10, <1>11, <1>12, <1>13, <1>14, <1>15, <1>16, <1>17, <1>18, <1>19, <1>20 DEF Next, CallStep

\* RSInv holds in every state of a result set.
THEOREM ResultSetInvariant == Spec => []RSInv
<1>1. Init => RSInv
  <2> SUFFICES ASSUME Init PROVE RSInv
    OBVIOUS
  <2>1. ReaderInv
    BY DEF Init, ReaderInv
  <2>2. SourceInv
    BY ResultSetAssumption DEF Init, SourceInv, Reading
  <2>3. SpanInv
    BY DEF Init, SpanInv, Reading
  <2> QED
    BY <2>1, <2>2, <2>3 DEF RSInv
<1>2. TypeOK /\ Counted /\ RSInv /\ [Next]_vars => RSInv'
  BY ReaderInvStep, SourceInvStep, SpanInvStep DEF RSInv
<1> QED
  BY <1>1, <1>2, CountsInvariant, PTL DEF Spec

\* Two calls never read one response.
THEOREM ReadersExclusive == Spec => []OneReader
<1>1. RSInv => OneReader
  BY DEF RSInv, ReaderInv, OneReader
<1> QED
  BY <1>1, ResultSetInvariant, PTL

\* text() and json() resolve only with the whole response.
THEOREM FulfilledComplete == Spec => []FulfilledIsComplete
<1>1. RSInv => FulfilledIsComplete
  BY DEF RSInv, SourceInv, FulfilledIsComplete
<1> QED
  BY <1>1, ResultSetInvariant, PTL

\* Once the reading call has settled the span has ended, or the callback of
\* the pipeline is to end it, and it never ends twice.
THEOREM SpansEnd == Spec => []ReadingEndsSpan
<1>1. RSInv => ReadingEndsSpan
  BY DEF RSInv, SpanInv, ReadingEndsSpan
<1> QED
  BY <1>1, ResultSetInvariant, PTL

\* In Node.js no sequence of calls loses a response.
THEOREM ResponsesNotLost == Spec => []NotLost
<1>1. RSInv => NotLost
  BY DEF RSInv, ReaderInv, SpanInv, NotLost
<1> QED
  BY <1>1, ResultSetInvariant, PTL

-----------------------------------------------------------------------------
(* What the span says *)

\* Until the user closes the result set: an unread response is there and its
\* span open, and so is the span while a Node.js call reads it; a span that
\* has succeeded with rows was ended by a pipe whose source had ended, with
\* all of them; the callback of a Node.js pipeline has been told, or will be,
\* how the pipe ended; and a settled Node.js call settled as its pipe ended,
\* or as the span says when it had none.
Settled(how) == reader # None /\ status[reader] = how

OutcomeInv ==
    ~ClosedByUser =>
        /\ reader = None => span = "open" /\ source # "destroyed"
        /\ Node /\ Reading /\ pipe \in {"none", "flowing"} =>
              span = "open" /\ source # "destroyed"
        /\ pipe = "flowing" => span # "ok"
        /\ pipelineCb \in {"ok", "error"} => span = "open"
        /\ span = "ok" /\ pipe \in {"flushed", "finished"} => spanRows = Total
        /\ Node /\ pipe \in {"flushed", "finished"} =>
              pipelineCb = "ok" \/ (pipelineCb = "called" /\ span = "ok")
        /\ Node /\ pipe \in {"broken", "failed"} =>
              pipelineCb = "error" \/ (pipelineCb = "called" /\ span = "error")
        /\ Node /\ Settled("fulfilled") =>
              pipe = "finished" \/ (pipe = "none" /\ span = "ok")
        /\ Node /\ Settled("rejected") =>
              pipe \in {"failed", "left"} \/ (pipe = "none" /\ span = "error")

\* Nobody reopens a result set.
LEMMA ClosedStays ==
  ASSUME TypeOK, ReaderInv, [Next]_vars, ClosedByUser
  PROVE  ClosedByUser'
<1>1. PICK d \in Calls : kind[d] = "close" /\ status[d] = "fulfilled"
  BY DEF ClosedByUser
<1> SUFFICES kind'[d] = "close" /\ status'[d] = "fulfilled"
  BY DEF ClosedByUser
<1> USE <1>1 DEF TypeOK
<1>2. ASSUME NEW c \in Calls, status[c] = "idle" \/ reader = c,
             \E how : Becomes(c, how), kind' = kind \/ \E what : Called(c, what)
      PROVE  kind'[d] = "close" /\ status'[d] = "fulfilled"
  <2>1. c # d
    BY <1>2, ResultSetAssumption DEF ReaderInv
  <2> QED BY <1>2, <2>1 DEF Becomes, Called
<1> DEFINE Same == kind'[d] = "close" /\ status'[d] = "fulfilled"
<1>3. ASSUME NEW c \in Calls, CallStep(c) PROVE Same
  <2>1. status[c] = "idle" \/ reader = c
    BY <1>3 DEF CallStep, CallText, CallJson, CallStream, CloseNode, CloseWeb, Called,
                BodyRead, BodyLost, TooLong
  <2>2. \E how : Becomes(c, how)
    BY <1>3 DEF CallStep, CallText, CallJson, CallStream, CloseNode, CloseWeb,
                Refused, ReadAsText, Piped, BodyRead, BodyLost, TooLong
  <2>3. kind' = kind \/ \E what : Called(c, what)
    BY <1>3 DEF CallStep, CallText, CallJson, CallStream, CloseNode, CloseWeb,
                BodyRead, BodyLost, TooLong
  <2> QED BY <1>2, <2>1, <2>2, <2>3
<1>4. ASSUME PipeDone \/ PipeFail \/ ConsumerLeaves \/ BadRow PROVE Same
  <2>1. reader \in Calls /\ kind' = kind /\ \E how : Becomes(reader, how)
    BY <1>4 DEF PipeDone, PipeFail, ConsumerLeaves, BadRow, Reading
  <2> QED BY <1>2, <2>1
<1>5. ASSUME \/ Arrive \/ SourceEnd \/ SourceError \/ PipeFlush \/ TakeRow
             \/ PipeBreak \/ PipelineCb \/ UNCHANGED vars
      PROVE Same
  BY <1>5 DEF Arrive, SourceEnd, SourceError, PipeFlush, TakeRow, PipeBreak, PipelineCb,
     vars, calls
<1> QED BY <1>3, <1>4, <1>5 DEF Next

\* No step makes a span tell something else than what became of the response.
LEMMA OutcomeStep ==
  ASSUME TypeOK, Counted, RSInv, OutcomeInv, [Next]_vars
  PROVE  OutcomeInv'
<1> SUFFICES ASSUME ~ClosedByUser' PROVE OutcomeInv'
  BY DEF OutcomeInv
<1>0. ~ClosedByUser
  BY ClosedStays DEF RSInv
<1> USE <1>0, ResultSetAssumption DEF TypeOK, Counted, CountsOK, RSInv, ReaderInv, SourceInv,
        SpanInv, OutcomeInv, Settled, Reading, Node, Web, Becomes, bodyVars, pipeVars, rigid
<1>1. ASSUME NEW c \in Calls, CallText(c) PROVE OutcomeInv'
  BY <1>1 DEF CallText, FinishSpan, spanVars, Called, Refused, ReadAsText, Consume, Locked
<1>2. ASSUME NEW c \in Calls, CallJson(c) PROVE OutcomeInv'
  BY <1>2 DEF CallJson, FinishSpan, spanVars, Called, Refused, ReadAsText, Consume, Piped, Locked
<1>3. ASSUME NEW c \in Calls, CallStream(c) PROVE OutcomeInv'
  BY <1>3 DEF CallStream, FinishSpan, spanVars, Called, Refused, Consume, Piped, ValidatesFirst
<1>4. ASSUME NEW c \in Calls, CloseNode(c) PROVE OutcomeInv'
  <2>1. ClosedByUser'
    BY <1>4 DEF CloseNode, Called, ClosedByUser
  <2> QED BY <2>1
<1>5. ASSUME NEW c \in Calls, CloseWeb(c) PROVE OutcomeInv'
  BY <1>5 DEF CloseWeb, FinishSpan, spanVars, Called, Refused, Consume, ClosedByUser
<1>6. ASSUME NEW c \in Calls, BodyRead(c) PROVE OutcomeInv'
  BY <1>6 DEF BodyRead, FinishSpan, spanVars
<1>7. ASSUME NEW c \in Calls, BodyLost(c) PROVE OutcomeInv'
  BY <1>7 DEF BodyLost, FinishSpan, spanVars
<1>8. ASSUME NEW c \in Calls, TooLong(c) PROVE OutcomeInv'
  BY <1>8 DEF TooLong, FinishSpan, spanVars
<1>9. ASSUME Arrive PROVE OutcomeInv'
  BY <1>9 DEF Arrive, FinishSpan, spanVars, calls
<1>10. ASSUME SourceEnd PROVE OutcomeInv'
  BY <1>10 DEF SourceEnd, FinishSpan, spanVars, calls
<1>11. ASSUME SourceError PROVE OutcomeInv'
  BY <1>11 DEF SourceError, FinishSpan, spanVars, calls
<1>12. ASSUME PipeFlush PROVE OutcomeInv'
  BY <1>12 DEF PipeFlush, FinishSpan, spanVars, calls
<1>13. ASSUME TakeRow PROVE OutcomeInv'
  BY <1>13 DEF TakeRow, FinishSpan, spanVars, calls
<1>14. ASSUME PipeDone PROVE OutcomeInv'
  BY <1>14 DEF PipeDone, FinishSpan, spanVars, calls
<1>15. ASSUME PipeFail PROVE OutcomeInv'
  BY <1>15 DEF PipeFail, SourceFails, FinishSpan, spanVars, calls
<1>19. ASSUME PipeBreak PROVE OutcomeInv'
  BY <1>19 DEF PipeBreak, SourceFails, FinishSpan, spanVars, calls
<1>20. ASSUME PipelineCb PROVE OutcomeInv'
  BY <1>20 DEF PipelineCb, FinishSpan, spanVars, calls
<1>16. ASSUME ConsumerLeaves PROVE OutcomeInv'
  BY <1>16 DEF ConsumerLeaves, FinishSpan, spanVars, calls, LeftAs
<1>17. ASSUME BadRow PROVE OutcomeInv'
  BY <1>17 DEF BadRow, FinishSpan, spanVars, calls, LeftAs
<1>18. ASSUME UNCHANGED vars PROVE OutcomeInv'
  BY <1>18 DEF vars, calls, spanVars
<1> QED
  BY <1>1, <1>2, <1>3, <1>4, <1>5, <1>6, <1>7, <1>8, <1>9, <1>10, <1>11, <1>12, <1>13, <1>14, <1>15, <1>16, <1>17, <1>18, <1>19, <1>20 DEF Next, CallStep

\* OutcomeInv holds in every state of a result set.
THEOREM OutcomeInvariant == Spec => []OutcomeInv
<1>1. Init => OutcomeInv
  BY DEF Init, OutcomeInv, Reading, Settled
<1>2. TypeOK /\ Counted /\ RSInv /\ OutcomeInv /\ [Next]_vars => OutcomeInv'
  BY OutcomeStep
<1> QED BY <1>1, <1>2, CountsInvariant, ResultSetInvariant, PTL DEF Spec

\* Unless the user closed the result set, its span carries the number of all
\* rows of a response that was read to its end, and in Node.js, once ended, it
\* has no error where the reading call succeeded and one where the call lost
\* the response, whichever of the call and the callback came first.
THEOREM SpansTellOutcome == Spec => []SpanTellsOutcome
<1>1. OutcomeInv => SpanTellsOutcome
  BY DEF OutcomeInv, Settled, SpanTellsOutcome
<1> QED BY <1>1, OutcomeInvariant, PTL


-----------------------------------------------------------------------------
(* The ResultSet of the client                                             *)

\* Nothing but its own steps changes a ResultSet.
THEOREM ClientKeepsResultSet == ClientSpec => Spec
<1>1. ClientInit => Init
  BY DEF ClientInit
<1>2. [ClientNext]_clientVars => [Next]_vars
  <2> SUFFICES ASSUME [ClientNext]_clientVars PROVE [Next]_vars
    OBVIOUS
  <2>1. CASE ResultSetStep
    BY <2>1 DEF ResultSetStep
  <2>2. ASSUME NEW o \in Operations, OperationStep(o) PROVE UNCHANGED vars
    BY <2>2 DEF OperationStep, Call, InsertNothing, InsertUnencodable, Begins, Answer,
       QueryAnswer, PingAnswer, Fail
  <2>3. CASE UNCHANGED clientVars
    BY <2>3 DEF clientVars
  <2> QED
    BY <2>1, <2>2, <2>3 DEF ClientNext
<1> QED
  BY <1>1, <1>2, PTL DEF ClientSpec, Spec

\* A fulfilled text() or json() of a query holds the whole response.
THEOREM QueryFulfilledComplete == ClientSpec => []FulfilledIsComplete
BY ClientKeepsResultSet, FulfilledComplete, PTL

\* The span of the response of a query ends when the reading of it does, or in
\* the callback that is then due.
THEOREM QuerySpanEnds == ClientSpec => []ReadingEndsSpan
BY ClientKeepsResultSet, SpansEnd, PTL

\* The response of a query can be read until it is read.
THEOREM QueryNotLost == ClientSpec => []NotLost
BY ClientKeepsResultSet, ResponsesNotLost, PTL

\* The span of the response of a query says what became of it.
THEOREM QuerySpanTellsOutcome == ClientSpec => []SpanTellsOutcome
BY ClientKeepsResultSet, SpansTellOutcome, PTL

-----------------------------------------------------------------------------
(* The operations                                                          *)

\* Everything that an operation has done says how far it is.
OperationInv ==
    /\ outcome \in [Operations -> {"idle", "pending", "fulfilled", "rejected"}]
    /\ opSpan \in [Operations -> {"none", "open", "unset", "error"}]
    /\ opEnds \in [Operations -> Nat]
    /\ method \in [Operations -> {"none", "query", "command", "exec", "insert", "ping"}]
    /\ attributes = [o \in Operations |-> attributes[o]]
    /\ \A o \in Operations :
          /\ outcome[o] = "idle" =>
                opSpan[o] = "none" /\ o \notin asked /\ DOMAIN attributes[o] = {}
          /\ o \in asked => opSpan[o] # "none"
          /\ opSpan[o] = "none" => o \notin asked
          /\ opEnds[o] = IF opSpan[o] \in {"unset", "error"} THEN 1 ELSE 0
          /\ method[o] = "query" => o = TheQuery
          /\ outcome[o] = "pending" => o \in asked
    /\ handed => outcome[TheQuery] = "fulfilled"
    /\ OperationTold

\* The text of the query comes from the client or not at all.
LEMMA BaseFacts ==
  ASSUME NEW what, NEW user, NEW named,
         "query_text" \in DOMAIN BaseAttributes(what, user, named)
  PROVE  LogsQueryText /\ BaseAttributes(what, user, named)["query_text"] = "client"
BY DEF BaseAttributes, Over, All

\* What a response sets is the server's; what it does not set, stays.
LEMMA ResponseFacts ==
  ASSUME NEW f
  PROVE  LET g == Over(f, All({"query_id", "status_code"}, "server"))
         IN  /\ g["query_id"] = "server"
             /\ "query_text" \in DOMAIN g =>
                   "query_text" \in DOMAIN f /\ g["query_text"] = f["query_text"]
BY DEF Over, All

LEMMA OperationStepKeeps ==
  ASSUME OperationInv, NEW o \in Operations, OperationStep(o)
  PROVE  OperationInv'
<1> USE ClientAssumption DEF OperationInv, OperationTold, Settles, SpanEnds, Methods
<1>1. ASSUME NEW what \in {"query", "command", "exec", "insert", "ping"}, Call(o, what)
      PROVE  OperationInv'
  <2>1. PICK user \in UserAttributes, named \in BOOLEAN :
          attributes' = [attributes EXCEPT ![o] = BaseAttributes(what, user, named)]
    BY <1>1 DEF Call, SpanStarts
  <2>2. PICK A : A = BaseAttributes(what, user, named)
    OBVIOUS
  <2>3. "query_text" \in DOMAIN A => LogsQueryText /\ A["query_text"] = "client"
    BY <2>2, BaseFacts
  <2>4. /\ outcome[o] = "idle" /\ outcome' = [outcome EXCEPT ![o] = "pending"]
        /\ opSpan' = [opSpan EXCEPT ![o] = "open"] /\ asked' = asked \cup {o}
        /\ method' = [method EXCEPT ![o] = what] /\ what \in Methods(o)
        /\ opEnds' = opEnds /\ handed' = handed
        /\ attributes' = [attributes EXCEPT ![o] = A]
    BY <1>1, <2>1, <2>2 DEF Call, SpanStarts, Begins
  <2> QED
    BY <2>3, <2>4
<1>2. CASE InsertNothing(o)
  BY <1>2 DEF InsertNothing, Begins
<1>3. CASE InsertUnencodable(o)
  <2>1. PICK user \in UserAttributes, named \in BOOLEAN :
          attributes' = [attributes EXCEPT ![o] = BaseAttributes("insert", user, named)]
    BY <1>3 DEF InsertUnencodable
  <2>2. PICK A : A = BaseAttributes("insert", user, named)
    OBVIOUS
  <2>3. "query_text" \in DOMAIN A => LogsQueryText /\ A["query_text"] = "client"
    BY <2>2, BaseFacts
  <2>4. /\ outcome[o] = "idle" /\ outcome' = [outcome EXCEPT ![o] = "rejected"]
        /\ opSpan' = [opSpan EXCEPT ![o] = "error"] /\ asked' = asked
        /\ method' = [method EXCEPT ![o] = "insert"] /\ "insert" \in Methods(o)
        /\ opEnds' = [opEnds EXCEPT ![o] = @ + 1] /\ handed' = handed
        /\ attributes' = [attributes EXCEPT ![o] = A]
    BY <1>3, <2>1, <2>2 DEF InsertUnencodable, Begins
  <2> QED
    BY <2>3, <2>4
<1>4. CASE Answer(o) \/ QueryAnswer(o)
  <2>1. PICK A : A = Over(attributes[o], All({"query_id", "status_code"}, "server"))
    OBVIOUS
  <2>2. /\ A["query_id"] = "server"
        /\ "query_text" \in DOMAIN A =>
              "query_text" \in DOMAIN attributes[o]
              /\ A["query_text"] = attributes[o]["query_text"]
    BY <2>1, ResponseFacts
  <2>3. attributes' = [attributes EXCEPT ![o] = A]
    BY <1>4, <2>1 DEF Answer, QueryAnswer, ResponseAttributes
  <2>4. /\ outcome[o] = "pending" /\ outcome' = [outcome EXCEPT ![o] = "fulfilled"]
        /\ opSpan' = [opSpan EXCEPT ![o] = "unset"] /\ asked' = asked
        /\ method' = method /\ opEnds' = [opEnds EXCEPT ![o] = @ + 1]
        /\ handed' = handed \/ method[o] = "query"
    BY <1>4 DEF Answer, QueryAnswer
  <2> QED
    BY <2>2, <2>3, <2>4
<1>5. CASE PingAnswer(o)
  BY <1>5 DEF PingAnswer
<1>6. CASE Fail(o)
  BY <1>6 DEF Fail
<1> QED
  BY <1>1, <1>2, <1>3, <1>4, <1>5, <1>6 DEF OperationStep

THEOREM OperationInvariant == ClientSpec => []OperationInv
<1>1. ClientInit => OperationInv
  BY ClientAssumption DEF ClientInit, OperationInv, OperationTold
<1>2. OperationInv /\ [ClientNext]_clientVars => OperationInv'
  <2>1. ASSUME OperationInv, ResultSetStep \/ UNCHANGED clientVars PROVE OperationInv'
    BY <2>1 DEF OperationInv, OperationTold, ResultSetStep, clientVars, operationVars
  <2> QED
    BY <2>1, OperationStepKeeps DEF ClientNext
<1> QED
  BY <1>1, <1>2, PTL DEF ClientSpec

\* The span of an operation says what its caller was told.
THEOREM SpanSaysOutcome == ClientSpec => []OperationTold
BY OperationInvariant, PTL DEF OperationInv

-----------------------------------------------------------------------------
(* The protocol of the tracer                                              *)

\* A step leaves the span of the response alone, or ends it.
SpanMoves ==
    \/ UNCHANGED <<span, ends>>
    \/ span = "open" /\ span' \in {"ok", "error"} /\ ends' = ends + 1

LEMMA SpanStep ==
  ASSUME [Next]_vars
  PROVE  SpanMoves
<1> USE DEF SpanMoves, FinishSpan, spanVars
<1>1. ASSUME NEW c \in Calls, CallText(c) PROVE SpanMoves
  BY <1>1 DEF CallText, Refused, ReadAsText, Consume
<1>2. ASSUME NEW c \in Calls, CallJson(c) PROVE SpanMoves
  BY <1>2 DEF CallJson, Refused, ReadAsText, Consume, Piped
<1>3. ASSUME NEW c \in Calls, CallStream(c) PROVE SpanMoves
  BY <1>3 DEF CallStream, Refused, Consume, Piped
<1>4. ASSUME NEW c \in Calls, CloseNode(c) PROVE SpanMoves
  BY <1>4 DEF CloseNode
<1>5. ASSUME NEW c \in Calls, CloseWeb(c) PROVE SpanMoves
  BY <1>5 DEF CloseWeb, Refused, Consume
<1>6. ASSUME NEW c \in Calls, BodyRead(c) PROVE SpanMoves
  BY <1>6 DEF BodyRead
<1>7. ASSUME NEW c \in Calls, BodyLost(c) PROVE SpanMoves
  BY <1>7 DEF BodyLost
<1>8. ASSUME NEW c \in Calls, TooLong(c) PROVE SpanMoves
  BY <1>8 DEF TooLong
<1>9. CASE Arrive
  BY <1>9 DEF Arrive
<1>10. CASE SourceEnd
  BY <1>10 DEF SourceEnd
<1>11. CASE SourceError
  BY <1>11 DEF SourceError
<1>12. CASE PipeFlush
  BY <1>12 DEF PipeFlush
<1>13. CASE TakeRow
  BY <1>13 DEF TakeRow
<1>14. CASE PipeDone
  BY <1>14 DEF PipeDone
<1>15. CASE PipeFail
  BY <1>15 DEF PipeFail, SourceFails
<1>19. CASE PipeBreak
  BY <1>19 DEF PipeBreak, SourceFails
<1>20. CASE PipelineCb
  BY <1>20 DEF PipelineCb
<1>16. CASE ConsumerLeaves
  BY <1>16 DEF ConsumerLeaves, LeftAs
<1>17. CASE BadRow
  BY <1>17 DEF BadRow, LeftAs
<1>18. CASE UNCHANGED vars
  BY <1>18 DEF vars
<1> QED
  BY <1>1, <1>2, <1>3, <1>4, <1>5, <1>6, <1>7, <1>8,
     <1>9, <1>10, <1>11, <1>12, <1>13, <1>14, <1>15, <1>16, <1>17, <1>18, <1>19, <1>20 DEF Next, CallStep

\* Nothing happens to a response that nobody has.
Untouched == ~handed => span = "open" /\ ends = 0

\* The spans as the tracer sees them, when none has ended twice.
Seen ==
    /\ [o \in Operations |-> OperationSpan(o)] = opSpan
    /\ [o \in Operations |-> StreamSpan(o)] =
           [o \in Operations |-> IF o = TheQuery /\ handed THEN span ELSE "none"]

LEMMA SpansSeen ==
  ASSUME OperationInv, ends <= 1, ends \in Nat
  PROVE  Seen
<1>1. ASSUME NEW o \in Operations PROVE OperationSpan(o) = opSpan[o]
  <2>1. PICK n \in Nat : n = opEnds[o] /\ n <= 1
    BY DEF OperationInv
  <2>2. ~(n > 1)
    BY <2>1
  <2> QED
    BY <2>1, <2>2 DEF OperationSpan
<1>2. ASSUME NEW o \in Operations
      PROVE  StreamSpan(o) = IF o = TheQuery /\ handed THEN span ELSE "none"
  <2>1. ~(ends > 1)
    OBVIOUS
  <2>2. CASE o # TheQuery \/ ~handed
    BY <2>1, <2>2 DEF StreamSpan
  <2>3. CASE ~(o # TheQuery \/ ~handed)
    BY <2>1, <2>3 DEF StreamSpan
  <2> QED
    BY <2>2, <2>3
<1>3. opSpan = [o \in Operations |-> opSpan[o]]
  BY DEF OperationInv
<1> QED
  BY <1>1, <1>2, <1>3 DEF Seen

LEMMA ProtocolStep ==
  ASSUME OperationInv, Seen, Seen', Untouched, [ClientNext]_clientVars
  PROVE  [Protocol!Next]_<<[o \in Operations |-> OperationSpan(o)],
                           [o \in Operations |-> StreamSpan(o)]>>
<1> DEFINE op == [o \in Operations |-> OperationSpan(o)]
           st == [o \in Operations |-> StreamSpan(o)]
           response == [o \in Operations |->
                           IF o = TheQuery /\ handed THEN span ELSE "none"]
<1>1. op = opSpan /\ op' = opSpan' /\ st = response /\ st' = response'
  BY DEF Seen
<1>2. opSpan \in [Operations -> {"none", "open", "unset", "error"}] /\ TheQuery \in Operations
  BY ClientAssumption DEF OperationInv
<1>3. ASSUME NEW o \in Operations, OperationStep(o)
      PROVE  Protocol!Next \/ UNCHANGED <<op, st>>
  <2>1. ASSUME opSpan[o] = "none", opSpan' = [opSpan EXCEPT ![o] = "open"],
               UNCHANGED <<handed, span>>
        PROVE  Protocol!Starts(o)
    BY <1>1, <2>1 DEF Protocol!Starts
  <2>2. ASSUME NEW what, Call(o, what) PROVE Protocol!Starts(o)
    BY <2>1, <2>2 DEF Call, Begins, SpanStarts, vars, spanVars, OperationInv
  <2>3. CASE InsertNothing(o)
    BY <1>1, <2>3 DEF InsertNothing, Begins, vars, spanVars
  <2>4. ASSUME InsertUnencodable(o) PROVE Protocol!StartsAndFails(o)
    BY <1>1, <2>4 DEF InsertUnencodable, Begins, SpanEnds, vars, spanVars, OperationInv,
       Protocol!StartsAndFails
  <2>5. ASSUME Answer(o) \/ PingAnswer(o) \/ Fail(o) PROVE Protocol!Ends(o)
    <3>1. opSpan[o] = "open"
      BY <2>5 DEF Answer, PingAnswer, Fail, OperationInv, OperationTold
    <3>2. \E how \in {"unset", "error"} : opSpan' = [opSpan EXCEPT ![o] = how]
      BY <2>5 DEF Answer, PingAnswer, Fail, SpanEnds
    <3>3. handed' = handed /\ span' = span
      BY <2>5 DEF Answer, PingAnswer, Fail, vars, spanVars
    <3> QED
      BY <1>1, <3>1, <3>2, <3>3 DEF Protocol!Ends
  <2>6. ASSUME QueryAnswer(o) PROVE Protocol!Answered(o)
    <3>1. o = TheQuery /\ ~handed /\ handed' /\ span' = span /\ span = "open"
      BY <2>6 DEF QueryAnswer, OperationInv, Untouched, vars, spanVars
    <3>2. opSpan[o] = "open" /\ opSpan' = [opSpan EXCEPT ![o] = "unset"]
      BY <2>6 DEF QueryAnswer, SpanEnds, OperationInv, OperationTold
    <3>3. response' = [response EXCEPT ![o] = "open"]
      BY <3>1
    <3> QED
      BY <1>1, <3>2, <3>3 DEF Protocol!Answered
  <2> QED
    BY <1>3, <2>2, <2>3, <2>4, <2>5, <2>6 DEF OperationStep, Protocol!Next
<1>4. CASE ResultSetStep
  <2>1. handed /\ handed' = handed /\ opSpan' = opSpan /\ SpanMoves
    BY <1>4, SpanStep DEF ResultSetStep, operationVars
  <2>2. ASSUME span = "open", span' \in {"ok", "error"} PROVE Protocol!StreamEnds(TheQuery)
    BY <1>1, <1>2, <2>1, <2>2 DEF Protocol!StreamEnds
  <2> QED
    BY <1>1, <1>2, <2>1, <2>2 DEF SpanMoves, Protocol!Next
<1>5. CASE UNCHANGED clientVars
  BY <1>1, <1>5 DEF clientVars, operationVars, vars, spanVars
<1> QED
  BY <1>3, <1>4, <1>5 DEF ClientNext

\* Every span of the client is started once and ended once: the client keeps
\* the protocol of the tracer.
THEOREM TracerProtocol == ClientSpec => SpansKept
<1>1. ClientInit => Protocol!Init
  BY DEF ClientInit, Init, Protocol!Init, OperationSpan, StreamSpan
<1>2. ClientSpec => []Untouched
  <2>1. ClientInit => Untouched
    BY DEF ClientInit, Init, Untouched
  <2>2. Untouched /\ [ClientNext]_clientVars => Untouched'
    BY DEF Untouched, ClientNext, OperationStep, Call, InsertNothing, InsertUnencodable,
       Begins, Answer, QueryAnswer, PingAnswer, Fail, ResultSetStep, clientVars, vars,
       spanVars
  <2> QED
    BY <2>1, <2>2, PTL DEF ClientSpec
<1>3. ClientSpec => []Seen
  <2>1. OperationInv /\ ReadingEndsSpan /\ TypeOK => Seen
    BY SpansSeen DEF ReadingEndsSpan, TypeOK, CountsOK
  <2> QED
    BY <2>1, OperationInvariant, QuerySpanEnds, ClientKeepsResultSet, ResultSetTypeCorrect, PTL
<1> QED
  BY <1>1, <1>2, <1>3, OperationInvariant, ProtocolStep, PTL
     DEF ClientSpec, SpansKept, Protocol!Spec
=============================================================================
