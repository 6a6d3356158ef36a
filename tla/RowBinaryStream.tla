--------------------------- MODULE RowBinaryStream ---------------------------
(***************************************************************************)
(* Reading a RowBinary body in batches of rows:                            *)
(*                                                                         *)
(*   source -> coalesceChunks -> streamRowBatches(readRows) -> consumer    *)
(*                                                                         *)
(* Two async generators on top of the async iterator of the body, each of  *)
(* them suspended at one point of its code.  coalesceChunks reads one      *)
(* chunk ahead and races it against a timer; streamRowBatches keeps the    *)
(* bytes of an unfinished row for the next chunk.  A chunk is the interval *)
(* [from, to) of the body.                                                 *)
(***************************************************************************)
EXTENDS RowWire

CONSTANTS
    MinSize,        \* minSize of coalesceChunks
    TimeoutMs       \* timeoutMs, in ticks

ASSUME StreamAssumption ==
    /\ MinSize \in Nat \ {0}
    /\ TimeoutMs \in Nat \ {0}

VARIABLES
    \* the source
    requests,       \* calls of next() that it has not answered
    sent,           \* bytes it has handed over
    source,         \* open, ended, failed
    \* coalesceChunks
    gen,            \* where it is: unstarted, block, race, yielded, tail,
                    \* returning, closed
    pull,           \* the promise of the last next()
    parts,          \* the bytes it holds back
    left,           \* time until the deadline of this batch
    age,            \* time since the first byte of this batch
    \* streamRowBatches
    columnar,       \* it is streamSensorColumns
    driver,         \* idle (at its yield, or not started), pulling, reading,
                    \* ended
    committed, seen,\* the carry, or the buffer being read
    rows,           \* rows decoded
    batch,          \* rows of the current batch
    fault,          \* an error is on its way to the consumer
    \* the consumer
    consumer        \* busy, waiting, leaving; left, done, failed

sourceVars == <<requests, sent, source>>
deadlineVars == <<left, age>>
rowVars == <<committed, rows, batch>>
readerVars == <<sourceVars, gen, pull, parts, deadlineVars, columnar,
                driver, seen, rowVars, fault, consumer>>

Interval == [from : Nat, to : Nat]
Nothing == [from |-> 0, to |-> 0]

\* streamSensorColumns needs rows of one length
STRIDE == ends[1]
Strided == \A r \in 0..RowCount : ends[r] = r * STRIDE

InitReader ==
    /\ requests = 0 /\ sent = 0 /\ source = "open"
    /\ gen = "unstarted"
    /\ pull = [state |-> "none", chunk |-> Nothing]
    /\ parts = Nothing
    /\ left = 0 /\ age = 0
    /\ columnar \in BOOLEAN /\ (columnar => Strided)
    /\ driver = "idle"
    /\ committed = 0 /\ seen = 0 /\ rows = 0 /\ batch = 0
    /\ fault = FALSE
    /\ consumer = "busy"

-----------------------------------------------------------------------------
(* The iterator of the body.  Promises are settled between two turns of    *)
(* the code, never while rows are being read.                              *)

Answering == source = "open" /\ requests > 0 /\ driver # "reading"

\* Calls are answered in their order: a promise that is no longer the last
\* one takes the chunk with it
Answered(promise) ==
    pull' = IF requests = 1 THEN promise ELSE pull

\* A chunk may be empty
Arrive ==
    /\ Answering
    /\ \E to \in sent..wire :
         /\ Answered([state |-> "chunk", chunk |-> [from |-> sent, to |-> to]])
         /\ sent' = to
    /\ requests' = requests - 1
    /\ UNCHANGED <<source, gen, parts, deadlineVars, columnar, driver,
                   seen, rowVars, fault, consumer>>

\* The body ends, perhaps before everything that was written has come
SourceEnd ==
    /\ Answering
    /\ source' = "ended"
    /\ requests' = 0
    /\ pull' = [state |-> "done", chunk |-> Nothing]
    /\ UNCHANGED <<sent, gen, parts, deadlineVars, columnar, driver,
                   seen, rowVars, fault, consumer>>

\* If the generator is at a yield, nothing awaits the promise it has read
\* ahead: Node.js reports an unhandledRejection and exits by default
SourceFail ==
    /\ Answering
    /\ source' = "failed"
    /\ requests' = 0
    /\ pull' = [state |-> "rejected", chunk |-> Nothing]
    /\ UNCHANGED <<sent, gen, parts, deadlineVars, columnar, driver,
                   seen, rowVars, fault, consumer>>

Tick ==
    /\ gen = "race" /\ driver # "reading"
    /\ left > 0
    /\ left' = left - 1
    /\ age' = age + 1
    /\ UNCHANGED <<sourceVars, gen, pull, parts, columnar, driver,
                   seen, rowVars, fault, consumer>>

-----------------------------------------------------------------------------
(* coalesceChunks                                                          *)

\* pull = it.next()
PullAhead ==
    /\ pull' = [state |-> "pending", chunk |-> Nothing]
    /\ requests' = requests + 1

\* streamRowBatches asks for the next chunk
Resume ==
    /\ gen' = [unstarted |-> "block", yielded |-> "block",
               tail |-> "returning"][gen]
    /\ IF gen = "unstarted"
       THEN PullAhead
       ELSE UNCHANGED <<pull, requests>>

\* yield flush()
Yield(chunk, at) ==
    /\ gen' = at
    /\ parts' = Nothing
    /\ driver' = "reading"
    /\ seen' = chunk.to

\* A chunk has joined the batch.  It is yielded when it is large enough or
\* its deadline has passed; a batch of empty chunks is none.
Taken(chunk, remaining) ==
    LET size == chunk.to - chunk.from
    IN  \/ /\ size > 0
           /\ size >= MinSize \/ remaining = 0
           /\ Yield(chunk, "yielded")
           /\ PullAhead
        \/ /\ size < MinSize /\ remaining > 0
           /\ parts' = chunk
           /\ gen' = IF size = 0 THEN "block" ELSE "race"
           /\ PullAhead
           /\ UNCHANGED <<driver, seen>>

\* The first chunk of a batch arms its deadline
TakeFirst ==
    /\ gen = "block" /\ pull.state = "chunk"
    /\ Taken(pull.chunk, TimeoutMs)
    /\ left' = TimeoutMs
    /\ age' = 0
    /\ UNCHANGED <<sent, source, columnar, rowVars, fault, consumer>>

\* The deadline of a batch is not moved by the chunks that follow
TakeMore ==
    /\ gen = "race" /\ pull.state = "chunk"
    /\ Taken([from |-> parts.from, to |-> pull.chunk.to], left)
    /\ UNCHANGED <<deadlineVars, sent, source, columnar, rowVars, fault, consumer>>

\* After a timeout the pull is still outstanding, and is kept
Outstanding_PulledAgain == PullAhead
Outstanding == UNCHANGED <<pull, requests>>

TimedOut_Unraced == FALSE
TimedOut ==
    /\ gen = "race" /\ pull.state = "pending" /\ left = 0
    /\ Yield(parts, "yielded")
    /\ Outstanding
    /\ UNCHANGED <<sent, source, deadlineVars, columnar, rowVars, fault,
                   consumer>>

SourceDone ==
    /\ pull.state = "done"
    /\ \/ gen = "race" /\ Yield(parts, "tail")
       \/ gen = "block" /\ gen' = "returning"
          /\ UNCHANGED <<parts, driver, seen>>
    /\ UNCHANGED <<sourceVars, pull, deadlineVars, columnar, rowVars,
                   fault, consumer>>

\* The error leaves the loop, and the bytes held back with it
SourceRejected ==
    /\ gen \in {"block", "race"} /\ pull.state = "rejected"
    /\ gen' = "returning"
    /\ parts' = Nothing
    /\ fault' = TRUE
    /\ UNCHANGED <<sourceVars, pull, deadlineVars, columnar, driver,
                   seen, rowVars, consumer>>

\* A body that ended within a row is an error
Truncated_Ignored == FALSE
Truncated == committed < seen

\* finally: await it.return(), which the iterator of a stream queues behind
\* the next() that is outstanding.  Then streamRowBatches ends as well.
Released ==
    /\ gen = "returning"
    /\ requests = 0
    /\ gen' = "closed"
    /\ driver' = "ended"
    /\ consumer' = CASE consumer = "leaving" -> "left"
                     [] fault \/ Truncated -> "failed"
                     [] OTHER -> "done"
    /\ UNCHANGED <<sourceVars, pull, parts, deadlineVars, columnar,
                   seen, rowVars, fault>>

-----------------------------------------------------------------------------
(* streamRowBatches, with readRows or with the arithmetic of               *)
(* streamSensorColumns                                                     *)

RowComplete == rows < RowCount /\ ends[rows + 1] <= seen

\* readRow() returned: its end is the new commit point
ReadRow ==
    /\ driver = "reading" /\ ~columnar
    /\ RowComplete
    /\ committed' = ends[rows + 1]
    /\ rows' = rows + 1
    /\ batch' = batch + 1
    /\ UNCHANGED <<sourceVars, gen, pull, parts, deadlineVars,
                   columnar, driver, seen, fault, consumer>>

\* NeedMoreData: state.pos = committed
Rewind_NotAtAll(reached) == reached
Rewind(reached) == committed

\* A batch without rows is not yielded, and the next chunk asked for instead
BatchEnd(decoded) ==
    \/ /\ decoded > 0
       /\ driver' = "idle"
       /\ consumer' = "busy"
       /\ UNCHANGED <<gen, pull, requests>>
    \/ /\ decoded = 0
       /\ driver' = "pulling"
       /\ Resume
       /\ UNCHANGED consumer

\* The buffer is used up, or its last row starves after `reached` bytes
Starve ==
    /\ driver = "reading" /\ ~columnar
    /\ ~RowComplete
    /\ \E reached \in committed..seen : committed' = Rewind(reached)
    /\ BatchEnd(batch)
    /\ UNCHANGED <<sent, source, parts, deadlineVars, columnar, seen, rows,
                   batch, fault>>

ReadColumns ==
    /\ driver = "reading" /\ columnar
    /\ LET n == (seen - committed) \div STRIDE
       IN  /\ committed' = committed + n * STRIDE
           /\ rows' = rows + n
           /\ batch' = n
           /\ BatchEnd(n)
    /\ UNCHANGED <<sent, source, parts, deadlineVars, columnar, seen, fault>>

\* Any other error of readRow drops the batch and ends both generators
DecodeFault ==
    /\ driver = "reading" /\ ~columnar
    /\ committed < seen
    /\ gen' = "returning"
    /\ fault' = TRUE
    /\ driver' = "ended"
    /\ UNCHANGED <<sourceVars, pull, parts, deadlineVars, columnar,
                   seen, rowVars, consumer>>

-----------------------------------------------------------------------------
(* The consumer: for await (const batch of ...)                            *)

ConsumerNext ==
    /\ consumer = "busy"
    /\ consumer' = "waiting"
    /\ driver' = "pulling"
    /\ batch' = 0
    /\ Resume
    /\ UNCHANGED <<sent, source, parts, deadlineVars, columnar, seen,
                   committed, rows, fault>>

\* break, return or throw in the loop
Leave ==
    /\ consumer = "busy"
    /\ gen \in {"yielded", "tail"}
    /\ consumer' = "leaving"
    /\ driver' = "ended"
    /\ gen' = "returning"
    /\ UNCHANGED <<sourceVars, pull, parts, deadlineVars, columnar,
                   seen, rowVars, fault>>

CodeStep ==
    \/ TakeFirst \/ TakeMore \/ TimedOut \/ SourceDone \/ SourceRejected
    \/ Released \/ ReadRow \/ Starve \/ ReadColumns

NextReader ==
    \/ CodeStep \/ DecodeFault \/ ConsumerNext \/ Leave
    \/ Arrive \/ SourceEnd \/ SourceFail \/ Tick
=============================================================================
