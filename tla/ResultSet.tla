------------------------------ MODULE ResultSet ------------------------------
(***************************************************************************)
(* The life of a ResultSet: what text(), json(), stream() and close(),     *)
(* called in any order and at any time, do to the response stream and to   *)
(* the clickhouse.query.stream span, in the Node.js and in the web client. *)
(*                                                                         *)
(* Rows are counted, not looked at: RowStream models how they are made.    *)
(* The streams of Node.js and of the browser are external; they differ in  *)
(* that a web stream with a reader is locked for ever, that Node.js        *)
(* destroys a stream whose iteration is left, and that the hooks of a web  *)
(* pipe run before its reader hears of its end, while the callback of a    *)
(* Node.js pipeline and the reader hear of it each on their own.  Either   *)
(* pipe is flushed when its source ends, before its last rows are read.    *)
(***************************************************************************)
EXTENDS Naturals

CONSTANTS
    Platforms,      \* the clients to model: "node", "web"
    Formats,        \* "rows" (JSONEachRow...), "document" (JSON...), "raw" (CSV...)
    Calls,          \* the calls users make
    Total,          \* rows in the body
    None            \* no call

ASSUME ResultSetAssumption ==
    /\ Platforms \subseteq {"node", "web"}
    /\ Formats \subseteq {"rows", "document", "raw"}
    /\ Total \in Nat
    /\ None \notin Calls

VARIABLES
    platform, format,
    left,           \* rows of the body that have not arrived
    source,         \* the response stream: open, ended, errored, destroyed
    consumed,       \* _consumed, isAlreadyConsumed
    reader,         \* the call that reads the source, or once did
    kind, status,   \* of each call
    pipe,           \* of stream(): none, flowing; flushed, finished when its
                    \* rows are read too; broken (Node.js), failed when its
                    \* reader knows; left by its reader
    pipelineCb,     \* callback of the Node.js pipeline: none before it is due,
                    \* then ok or error, what it is to be told, then called
    enqueued, read, \* rows put into the pipe, and taken out of it
    span,           \* open, ok, or error once ended
    spanRows,       \* db.response.returned_rows of the ended span
    ends            \* how often the span was ended

rigid == <<platform, format>>
calls == <<kind, status>>
pipeVars == <<pipe, pipelineCb>>
spanVars == <<span, spanRows, ends>>
vars == <<rigid, left, source, consumed, reader, calls, pipeVars, enqueued,
          read, spanVars>>

CountsOK ==
    /\ left \in 0..Total
    /\ enqueued \in 0..Total
    /\ read \in 0..Total
    /\ spanRows \in 0..Total
    /\ ends \in Nat

TypeOK ==
    /\ CountsOK
    /\ platform \in Platforms
    /\ format \in Formats
    /\ source \in {"open", "ended", "errored", "destroyed"}
    /\ consumed \in BOOLEAN
    /\ reader \in Calls \cup {None}
    /\ kind \in [Calls -> {"none", "text", "json", "stream", "close"}]
    /\ status \in [Calls -> {"idle", "reading", "fulfilled", "rejected"}]
    /\ pipe \in {"none", "flowing", "flushed", "finished", "broken", "failed", "left"}
    /\ pipelineCb \in {"none", "ok", "error", "called"}
    /\ span \in {"open", "ok", "error"}

Init ==
    /\ platform \in Platforms
    /\ format \in Formats
    /\ left = Total
    /\ source = "open"
    /\ consumed = FALSE
    /\ reader = None
    /\ kind = [c \in Calls |-> "none"]
    /\ status = [c \in Calls |-> "idle"]
    /\ pipe = "none"
    /\ pipelineCb = "none"
    /\ enqueued = 0
    /\ read = 0
    /\ span = "open"
    /\ spanRows = 0
    /\ ends = 0

Node == platform = "node"
Web == platform = "web"

-----------------------------------------------------------------------------
(* Pieces of the methods *)

Called(c, what) ==
    /\ status[c] = "idle"
    /\ kind' = [kind EXCEPT ![c] = what]

Becomes(c, how) == status' = [status EXCEPT ![c] = how]

\* Only the first call wins.
FinishSpan(how, rows) ==
    \/ /\ span = "open"
       /\ span' = how
       /\ spanRows' = rows
       /\ ends' = ends + 1
    \/ span # "open" /\ UNCHANGED spanVars

\* The call throws, or its promise rejects, and nothing else happens.
Refused(c) ==
    /\ Becomes(c, "rejected")
    /\ UNCHANGED <<consumed, reader, pipeVars, spanVars>>

\* A web stream that has a reader, or is piped, cannot get another one.
Locked == Web /\ reader # None

\* getAsText(stream): the web client's getReader throws when it is locked.
ReadAsText(c) ==
    \/ /\ Locked
       /\ Becomes(c, "rejected")
       /\ FinishSpan("error", enqueued)
       /\ UNCHANGED <<reader, pipeVars>>
    \/ /\ ~Locked
       /\ reader' = c
       /\ Becomes(c, "reading")
       /\ UNCHANGED <<pipeVars, spanVars>>

\* consume(), markAsConsumed()
Consume == ~consumed /\ consumed' = TRUE

Piped(c) ==
    /\ reader' = c
    /\ pipe' = "flowing"
    /\ Becomes(c, "reading")
    /\ UNCHANGED <<pipelineCb, spanVars>>

-----------------------------------------------------------------------------
(* The methods *)

bodyVars == <<left, source, enqueued, read>>

CallText(c) ==
    /\ Called(c, "text")
    /\ \/ consumed /\ Refused(c)
       \/ Consume /\ ReadAsText(c)
    /\ UNCHANGED <<rigid, bodyVars>>

\* For documents the web client does not mark the result set as consumed.
CallJson(c) ==
    /\ Called(c, "json")
    /\ \/ format = "raw" /\ Refused(c)
       \/ format # "raw" /\ consumed /\ (Node \/ format = "rows") /\ Refused(c)
       \/ format = "rows" /\ Consume /\ Piped(c)
       \/ format = "document" /\ Node /\ Consume /\ ReadAsText(c)
       \/ format = "document" /\ Web /\ ReadAsText(c) /\ UNCHANGED consumed
    /\ UNCHANGED <<rigid, bodyVars>>

\* Node.js validates the format first, the web client consumes first.
ValidatesFirst_Never == FALSE
ValidatesFirst == Node

CallStream(c) ==
    /\ Called(c, "stream")
    /\ \/ consumed /\ Refused(c)
       \/ ~consumed /\ format = "document" /\ ValidatesFirst /\ Refused(c)
       \/ /\ format = "document" /\ ~ValidatesFirst
          /\ Consume
          /\ Becomes(c, "rejected")
          /\ UNCHANGED <<reader, pipeVars, spanVars>>
       \/ format # "document" /\ Consume /\ Piped(c)
    /\ UNCHANGED <<rigid, bodyVars>>

\* Node.js: destroys the stream, whoever reads it.
CloseNode(c) ==
    /\ Node
    /\ Called(c, "close")
    /\ Becomes(c, "fulfilled")
    /\ source' = IF source = "open" THEN "destroyed" ELSE source
    /\ FinishSpan("ok", enqueued)
    /\ UNCHANGED <<rigid, left, consumed, reader, pipeVars, enqueued, read>>

\* Web: refused once consumed; cancel() rejects on a locked or failed stream.
CloseWeb(c) ==
    /\ Web
    /\ Called(c, "close")
    /\ \/ consumed /\ Refused(c) /\ UNCHANGED source
       \/ /\ Consume
          /\ reader # None \/ source = "errored"
          /\ Becomes(c, "rejected")
          /\ UNCHANGED <<source, reader, pipeVars, spanVars>>
       \/ /\ Consume
          /\ reader = None /\ source = "open"
          /\ source' = "destroyed"
          /\ Becomes(c, "fulfilled")
          /\ FinishSpan("ok", enqueued)
          /\ UNCHANGED <<reader, pipeVars>>
    /\ UNCHANGED <<rigid, left, enqueued, read>>

-----------------------------------------------------------------------------
(* The response stream *)

\* A reader gets the next chunk: one row.
Arrive ==
    /\ source = "open" /\ reader # None /\ status[reader] = "reading"
    /\ left > 0
    /\ left' = left - 1
    /\ enqueued' = IF pipe = "flowing" THEN enqueued + 1 ELSE enqueued
    /\ UNCHANGED <<rigid, source, consumed, reader, calls, pipeVars, read, spanVars>>

SourceEnd ==
    /\ source = "open" /\ reader # None /\ status[reader] = "reading"
    /\ left = 0
    /\ source' = "ended"
    /\ UNCHANGED <<rigid, left, consumed, reader, calls, pipeVars, enqueued, read,
                   spanVars>>

\* The connection fails, or the request times out, read or not.
SourceError ==
    /\ source = "open"
    /\ source' = "errored"
    /\ UNCHANGED <<rigid, left, consumed, reader, calls, pipeVars, enqueued, read,
                   spanVars>>

-----------------------------------------------------------------------------
(* text() and the json() of documents *)

\* The whole body has been read; a document may turn out not to be JSON.
BodyRead(c) ==
    /\ reader = c /\ status[c] = "reading" /\ pipe = "none"
    /\ source = "ended"
    /\ \/ /\ Becomes(c, "fulfilled")
          /\ FinishSpan("ok", IF kind[c] = "json" THEN Total ELSE 0)
       \/ /\ kind[c] = "json"
          /\ Becomes(c, "rejected")
          /\ FinishSpan("error", 0)
    /\ UNCHANGED <<rigid, bodyVars, consumed, reader, kind, pipeVars>>

BodyLost(c) ==
    /\ reader = c /\ status[c] = "reading" /\ pipe = "none"
    /\ source \in {"errored", "destroyed"}
    /\ Becomes(c, "rejected")
    /\ FinishSpan("error", 0)
    /\ UNCHANGED <<rigid, bodyVars, consumed, reader, kind, pipeVars>>

\* The text exceeds the longest string.  Leaving the iteration destroys the
\* stream in Node.js; the web client leaves it open and locked.
TooLong(c) ==
    /\ reader = c /\ status[c] = "reading" /\ pipe = "none"
    /\ source = "open"
    /\ source' = IF Node THEN "destroyed" ELSE source
    /\ Becomes(c, "rejected")
    /\ FinishSpan("error", 0)
    /\ UNCHANGED <<rigid, left, consumed, reader, kind, pipeVars, enqueued, read>>

-----------------------------------------------------------------------------
(* The pipe of stream(), read by the user or by json() *)

Reading == reader # None /\ status[reader] = "reading"

\* The source has ended, and the transform has had its last chunk: the span
\* is ended by flush() in the browser, by pipelineCb in Node.js, whether or
\* not the rows have been read.
PipeFlush ==
    /\ pipe = "flowing" /\ source = "ended"
    /\ pipe' = "flushed"
    /\ \/ Web /\ FinishSpan("ok", enqueued) /\ UNCHANGED pipelineCb
       \/ Node /\ pipelineCb' = "ok" /\ UNCHANGED spanVars
    /\ UNCHANGED <<rigid, bodyVars, consumed, reader, calls>>

\* The consumer takes a row.
TakeRow ==
    /\ Reading
    /\ pipe \in {"flowing", "flushed"}
    /\ read < enqueued
    /\ read' = read + 1
    /\ UNCHANGED <<rigid, left, source, consumed, reader, calls, pipeVars,
                   enqueued, spanVars>>

\* The consumer has taken the last row.
PipeDone_Early ==
    /\ Reading
    /\ pipe = "flushed"
    /\ pipe' = "finished"
    /\ Becomes(reader, "fulfilled")
    /\ UNCHANGED <<rigid, bodyVars, consumed, reader, kind, pipelineCb, spanVars>>
PipeDone ==
    /\ Reading
    /\ pipe = "flushed"
    /\ read = enqueued
    /\ pipe' = "finished"
    /\ Becomes(reader, "fulfilled")
    /\ UNCHANGED <<rigid, bodyVars, consumed, reader, kind, pipelineCb, spanVars>>

\* How a source fails a pipe: it is lost, which is no error after close(), or
\* the server reports an exception in a chunk, perhaps in the last one.
SourceFails(how) ==
    \/ source = "errored" /\ how = "error" /\ UNCHANGED source
    \/ source = "destroyed" /\ how = "ok" /\ UNCHANGED source
    \/ /\ source \in {"open", "ended"} /\ how = "error"
       /\ source' = IF source = "open" THEN "destroyed" ELSE source

\* Node.js destroys both ends of the pipeline; its callback and its reader are
\* still to hear of it.  pipelineCb takes the error of close() for none.
PipeBreak_Silent ==
    /\ Node /\ pipe = "flowing"
    /\ \E how \in {"ok", "error"} : SourceFails(how) /\ pipelineCb' = "ok"
    /\ pipe' = "broken"
    /\ UNCHANGED <<rigid, left, consumed, reader, calls, enqueued, read, spanVars>>
PipeBreak ==
    /\ Node /\ pipe = "flowing"
    /\ \E how \in {"ok", "error"} : SourceFails(how) /\ pipelineCb' = how
    /\ pipe' = "broken"
    /\ UNCHANGED <<rigid, left, consumed, reader, calls, enqueued, read, spanVars>>

\* The reader of a broken pipe is rejected.  A web pipe breaks in one step: its
\* cancel hook, or its transform, ends the span before the reader hears of it.
PipeFail_NoCancelHook ==
    /\ Reading
    /\ \/ /\ Web /\ pipe = "flowing"
          /\ \E how \in {"ok", "error"} : SourceFails(how)
          /\ UNCHANGED spanVars
       \/ pipe = "broken" /\ UNCHANGED <<source, spanVars>>
    /\ pipe' = "failed"
    /\ Becomes(reader, "rejected")
    /\ UNCHANGED <<rigid, left, consumed, reader, kind, pipelineCb, enqueued, read>>
PipeFail ==
    /\ Reading
    /\ \/ /\ Web /\ pipe = "flowing"
          /\ \E how \in {"ok", "error"} : SourceFails(how) /\ FinishSpan(how, enqueued)
       \/ pipe = "broken" /\ UNCHANGED <<source, spanVars>>
    /\ pipe' = "failed"
    /\ Becomes(reader, "rejected")
    /\ UNCHANGED <<rigid, left, consumed, reader, kind, pipelineCb, enqueued, read>>

\* The callback of the pipeline of Node.js, before or after its reader settles.
PipelineCb_LogsOnly ==
    /\ pipelineCb \in {"ok", "error"}
    /\ IF pipelineCb = "ok" THEN FinishSpan("ok", enqueued) ELSE UNCHANGED spanVars
    /\ pipelineCb' = "called"
    /\ UNCHANGED <<rigid, bodyVars, consumed, reader, calls, pipe>>
PipelineCb ==
    /\ pipelineCb \in {"ok", "error"}
    /\ FinishSpan(pipelineCb, enqueued)
    /\ pipelineCb' = "called"
    /\ UNCHANGED <<rigid, bodyVars, consumed, reader, calls, pipe>>

\* What pipelineCb will be told when the iteration of a Node.js pipe is left.
\* The transform is destroyed with an AbortError, which pipelineCb takes for
\* no error, unless the source failed first; a pipe that was flushed or broken
\* has told it already.
LeftAs ==
    IF pipe = "flowing" THEN {"ok"} \cup {how \in {"error"} : source = "errored"}
                        ELSE {pipelineCb}

\* The user leaves the stream: breaks out of the iteration, or destroys it,
\* which in Node.js is a premature close and so an error.  In the browser
\* cancel() without a reason is none.
ConsumerLeaves ==
    /\ Reading /\ kind[reader] = "stream"
    /\ pipe \in {"flowing", "flushed", "broken"}
    /\ source' = IF source = "open" THEN "destroyed" ELSE source
    /\ pipe' = "left"
    /\ Becomes(reader, "rejected")
    /\ \/ Web /\ FinishSpan("ok", enqueued) /\ UNCHANGED pipelineCb
       \/ /\ Node /\ UNCHANGED spanVars
          /\ pipelineCb' \in LeftAs \cup {how \in {"error"} : pipe = "flowing"}
    /\ UNCHANGED <<rigid, left, consumed, reader, kind, enqueued, read>>

\* A row that json() has taken is not JSON.  Throwing leaves the iteration of
\* the pipe in Node.js; the web client ends the span and leaves the pipe alone.
BadRow ==
    /\ Reading /\ kind[reader] = "json"
    /\ pipe \in {"flowing", "flushed"}
    /\ read > 0
    /\ Becomes(reader, "rejected")
    /\ \/ Web /\ FinishSpan("error", enqueued) /\ UNCHANGED <<source, pipeVars>>
       \/ /\ Node /\ UNCHANGED spanVars
          /\ source' = IF source = "open" THEN "destroyed" ELSE source
          /\ pipe' = "left"
          /\ pipelineCb' \in LeftAs
    /\ UNCHANGED <<rigid, left, consumed, reader, kind, enqueued, read>>

CallStep(c) ==
    \/ CallText(c) \/ CallJson(c) \/ CallStream(c) \/ CloseNode(c) \/ CloseWeb(c)
    \/ BodyRead(c) \/ BodyLost(c) \/ TooLong(c)

Next ==
    \/ \E c \in Calls : CallStep(c)
    \/ Arrive \/ SourceEnd \/ SourceError
    \/ PipeFlush \/ TakeRow \/ PipeDone \/ PipeBreak \/ PipeFail \/ PipelineCb
    \/ ConsumerLeaves \/ BadRow

Spec == Init /\ [][Next]_vars

\* The user of stream() has rows to take, which hold the pipe back.
Held == reader # None /\ kind[reader] = "stream" /\ read < enqueued

\* What the streams and the promises do by themselves once the response is
\* over, without the user or the server; json() takes the rows of its pipe.
Settling ==
    \/ source # "open" /\ ~Held /\ (PipeFlush \/ PipeBreak \/ PipeFail)
    \/ PipelineCb
    \/ Reading /\ kind[reader] = "json" /\ TakeRow
    \/ \E c \in Calls : BodyRead(c) \/ BodyLost(c)

-----------------------------------------------------------------------------
(* Properties *)

ClosedByUser ==
    \E c \in Calls : kind[c] = "close" /\ status[c] = "fulfilled"

\* Two calls never read one response.
OneReader ==
    \A c, d \in Calls : status[c] = "reading" /\ status[d] = "reading" => c = d

\* text() and json() resolve only with the whole response, and json() with
\* every row of it, even when close() is called or the connection breaks
\* while they read.
FulfilledIsComplete ==
    \A c \in Calls :
        status[c] = "fulfilled" /\ kind[c] \in {"text", "json"} =>
            /\ source = "ended" /\ left = 0
            /\ pipe # "none" => read = Total

\* Once the call that reads the response has settled, however it did, the
\* span has ended or a callback that ends it is due, and no two of the ways
\* that end it end it twice.
ReadingEndsSpan ==
    /\ Reading \/ reader = None \/ span # "open" \/ pipelineCb \in {"ok", "error"}
    /\ ends <= 1

\* When a response that somebody reads, or has read, is over, its span ends,
\* by whatever way the call settles, unless the user of stream() neither takes
\* nor leaves the rows that it holds.
SpanEndsWithResponse ==
    (source # "open" /\ reader # None) ~> (span # "open" \/ Held)

\* Unless the user closed the result set, the span of a response that was
\* read to its end as rows carries their number, and in Node.js the span that
\* has ended records an error when the call that read the response lost it,
\* and none when the call succeeded.  Nothing is said of a reader that leaves
\* the rows of its own accord: pipelineCb drops the AbortError that comes of
\* it, so that a json() that rejects because a row is not JSON leaves a span
\* without an error, where the web client records one.
SpanTellsOutcome ==
    /\ span = "ok" /\ pipe = "finished" /\ ~ClosedByUser => spanRows = Total
    /\ Node /\ reader # None /\ span # "open" /\ ~ClosedByUser =>
          /\ status[reader] = "fulfilled" => span = "ok"
          /\ status[reader] = "rejected" /\ pipe \in {"none", "failed"}
                 => span = "error"

\* Node.js: a response that is still open can still be read or is being read:
\* no sequence of calls, refused ones included, loses it.
NotLost == Node /\ source = "open" => ~consumed \/ Reading

=============================================================================
