---------------------------- MODULE RowBinaryPipe ----------------------------
(***************************************************************************)
(* Rows written by writeRows and read back by streamRowBatches, cut on the *)
(* way by a transport that knows nothing of rows.                          *)
(***************************************************************************)
EXTENDS RowWriter, RowBinaryStream

vars == <<ends, writerVars, readerVars>>

Init == InitWriter /\ InitReader

Next ==
    \/ NextWriter /\ UNCHANGED readerVars
    \/ NextReader /\ UNCHANGED <<ends, writerVars>>

\* The event loop goes on and time passes; the source and the consumer may
\* stop for good
Spec ==
    /\ Init /\ [][Next]_vars
    /\ WF_vars(CodeStep /\ UNCHANGED <<ends, writerVars>>)
    /\ WF_vars(Tick /\ UNCHANGED <<ends, writerVars>>)

-----------------------------------------------------------------------------
ReaderTypeOK ==
    /\ requests \in Nat /\ sent \in Nat
    /\ source \in {"open", "ended", "failed"}
    /\ gen \in {"unstarted", "block", "race", "yielded", "tail", "returning",
                "closed"}
    /\ pull \in [state : {"none", "pending", "chunk", "done", "rejected"},
                 chunk : Interval]
    /\ parts \in Interval
    /\ left \in Nat /\ age \in Nat
    /\ columnar \in BOOLEAN
    /\ driver \in {"idle", "pulling", "reading", "ended"}
    /\ committed \in Nat /\ seen \in Nat
    /\ rows \in 0..RowCount /\ batch \in Nat
    /\ fault \in BOOLEAN
    /\ consumer \in {"busy", "waiting", "leaving", "left", "done", "failed"}

TypeOK == WriterTypeOK /\ ReaderTypeOK

(* No byte is lost, doubled or reordered between the source and the rows:  *)
(* what was read, what coalesceChunks holds back and what is in flight     *)
(* follow one another, and reach to where the source is.                   *)
BytesInOrder ==
    LET held == IF gen = "race" THEN parts.to ELSE seen
    IN  gen \notin {"returning", "closed"} =>
          /\ gen = "race" => parts.from = seen /\ parts.to > seen
          /\ IF pull.state = "chunk"
             THEN pull.chunk.from = held /\ pull.chunk.to = sent
             ELSE held = sent

(* "It keeps exactly ONE outstanding pull on the source at a time":        *)
(* coalesceChunks never calls next() while a result is still in flight.    *)
OneOutstandingPull ==
    requests = IF pull.state = "pending" THEN 1 ELSE 0

(* The deadline of a batch is anchored at its first byte: while one is     *)
(* held back, the timer never allows it more than timeoutMs altogether.    *)
DeadlineAnchored == gen = "race" => left + age = TimeoutMs

(* Rows are decoded from whole bytes only, each once: the carry begins at  *)
(* the end of the last row, and after a batch holds no complete row.       *)
CarryIsOneRow ==
    /\ committed = ends[rows]
    /\ committed <= seen
    /\ driver \in {"idle", "pulling"} => ~RowComplete

(* The stream ends without an error only where a row ends, after every     *)
(* byte that the source delivered has become a row, and not if it failed.  *)
DoneIsDecoded ==
    consumer = "done" =>
        source = "ended" /\ seen = sent /\ sent = ends[rows]

(* A row that has arrived reaches a consumer that waits for it, even when  *)
(* the source goes silent: the timeout of coalesceChunks flushes it.  (An  *)
(* error of readRow does not: it waits for the release of the source.)     *)
ArrivedRowsAreDelivered ==
    consumer = "waiting" /\ rows < RowCount /\ ends[rows + 1] <= sent
        ~> consumer # "waiting" \/ fault
=============================================================================
