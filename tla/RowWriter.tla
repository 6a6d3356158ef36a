------------------------------ MODULE RowWriter ------------------------------
(***************************************************************************)
(* writeRows of the RowBinary writers: a generator that encodes rows into  *)
(* a Sink of fixed size, and yields the Sink when a row does not fit.      *)
(***************************************************************************)
EXTENDS RowWire

CONSTANTS
    BufferSizes     \* the sizes the caller may ask for

ASSUME BufferAssumption == BufferSizes \subseteq Nat \ {0}

VARIABLES
    bufferSize,     \* the size asked for
    size,           \* the size of the current Sink
    sink,           \* its pos
    written,        \* rows that were written cleanly
    writer          \* writing, finished, failed

writerVars == <<bufferSize, size, sink, written, writer, wire, closed>>

InitWriter ==
    /\ ends \in Layouts
    /\ bufferSize \in BufferSizes
    /\ size = bufferSize
    /\ sink = 0
    /\ written = 0
    /\ writer = "writing"
    /\ wire = 0
    /\ closed = FALSE

\* reserve: the next row needs more than the buffer has left
BufferFull == sink + RowLength(written + 1) > size

WriteRow ==
    /\ writer = "writing"
    /\ written < RowCount
    /\ ~BufferFull
    /\ sink' = sink + RowLength(written + 1)
    /\ written' = written + 1
    /\ UNCHANGED <<ends, bufferSize, size, writer, wire, closed>>

\* An empty Sink cannot hold the row: the same row again, in one of twice
\* the size
Grow ==
    /\ writer = "writing"
    /\ written < RowCount
    /\ BufferFull
    /\ sink = 0
    /\ size' = 2 * size
    /\ UNCHANGED <<ends, bufferSize, sink, written, writer, wire, closed>>

\* sink.pos = committed: the columns of the row that did fit are dropped
Rewound_NotAtAll(committed, reached) == reached
Rewound(committed, reached) == committed

\* The row got as far as `reached` before reserve() threw.  The Sink is
\* yielded and the row is tried again in a fresh one.
Flush ==
    /\ writer = "writing"
    /\ written < RowCount
    /\ BufferFull
    /\ sink > 0
    /\ \E reached \in sink..size : wire' = wire + Rewound(sink, reached)
    /\ sink' = 0
    /\ UNCHANGED <<ends, bufferSize, size, written, writer, closed>>

\* The rows ran out: the last batch, if it holds anything
Finish ==
    /\ writer = "writing"
    /\ written = RowCount
    /\ wire' = wire + sink
    /\ sink' = 0
    /\ writer' = "finished"
    /\ closed' = TRUE
    /\ UNCHANGED <<ends, bufferSize, size, written>>

\* writeRow rejects a value: the error leaves the generator, and the rows in
\* the Sink with it
WriteFault ==
    /\ writer = "writing"
    /\ written < RowCount
    /\ writer' = "failed"
    /\ UNCHANGED <<ends, bufferSize, size, sink, written, wire, closed>>

NextWriter == WriteRow \/ Grow \/ Flush \/ Finish \/ WriteFault

-----------------------------------------------------------------------------
WriterTypeOK ==
    /\ ends \in Layouts
    /\ bufferSize \in BufferSizes
    /\ size \in Nat \ {0} /\ sink \in 0..size
    /\ written \in 0..RowCount
    /\ writer \in {"writing", "finished", "failed"}
    /\ wire \in Nat
    /\ closed \in BOOLEAN

(* A batch is whole rows: what is on the wire ends where a row ends, the   *)
(* Sink holds the rows written since, and a body that was finished has     *)
(* every row once (the catch clause of writeRows).                         *)
BatchesAreWholeRows ==
    /\ \E r \in 0..written : wire = ends[r]
    /\ wire + sink = ends[written]
    /\ closed => wire = ends[RowCount]
=============================================================================
