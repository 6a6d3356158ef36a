--------------------------- MODULE RowBinaryProofs ---------------------------
(***************************************************************************)
(* Proofs about RowBinaryPipe, for every number and length of rows, buffer *)
(* size, chunk size and timeout: batches are whole rows, no byte is lost   *)
(* or doubled on the way, and what is decoded is what was written.         *)
(***************************************************************************)
EXTENDS RowBinaryPipe, TLAPS

-----------------------------------------------------------------------------
(* The invariant                                                           *)

\* A finished writer is the only one that closes the body.
WriterInv ==
    /\ WriterTypeOK
    /\ BatchesAreWholeRows
    /\ closed => writer = "finished"

\* Where the two generators and the consumer can be together.
Control ==
    /\ consumer = "busy" => driver = "idle"
    /\ consumer \in {"left", "done", "failed"} <=> gen = "closed"
    /\ driver = "idle" =>
          consumer = "busy" /\ gen \in {"unstarted", "yielded", "tail"}
    /\ driver = "pulling" =>
          consumer = "waiting" /\ gen \in {"block", "race", "returning"}
    /\ driver = "reading" => consumer = "waiting" /\ gen \in {"yielded", "tail"}
    /\ driver = "ended" => gen \in {"returning", "closed"}

\* What the promise of the last next() says of the source.
Promise ==
    /\ OneOutstandingPull
    /\ gen = "unstarted" => pull.state = "none"
    /\ pull.state = "done" => source = "ended"
    /\ gen = "tail" => pull.state = "done"

\* Bytes come from the wire, are handed over, and are read, in this order.
Bounds ==
    /\ seen <= sent /\ sent <= wire
    /\ pull.chunk.from <= pull.chunk.to
    /\ BytesInOrder

Carry ==
    /\ CarryIsOneRow
    /\ columnar => Strided

\* A generator that returns by itself has handed on every byte.
Ending ==
    /\ gen = "returning" /\ ~fault /\ consumer # "leaving" =>
          source = "ended" /\ seen = sent
    /\ DoneIsDecoded

Inv ==
    /\ WriterInv /\ ReaderTypeOK
    /\ Control /\ Promise /\ Bounds /\ Carry /\ Ending
    /\ DeadlineAnchored

-----------------------------------------------------------------------------
(* Rows, and the arithmetic of rows of one length                          *)

LEMMA LayoutFacts ==
  ASSUME ends \in Layouts
  PROVE  /\ RowCount \in Nat \ {0}
         /\ ends \in [0..RowCount -> Nat]
         /\ ends[0] = 0
         /\ \A r, s \in 0..RowCount : r < s => ends[r] < ends[s]
BY WireAssumption

LEMMA Quotient ==
  ASSUME NEW x \in Nat, NEW S \in Nat \ {0}
  PROVE  /\ x \div S \in Nat
         /\ (x \div S) * S <= x
         /\ x < (x \div S) * S + S
OBVIOUS

\* Comparing multiples of S compares the factors.
LEMMA Factors ==
  ASSUME NEW a \in Nat, NEW b \in Nat, NEW S \in Nat \ {0}, a * S <= b * S
  PROVE  a <= b
<1> SUFFICES ASSUME b + 1 <= a PROVE FALSE
  OBVIOUS
<1>1. PICK d \in Nat : a = b + 1 + d
  <2> WITNESS a - (b + 1) \in Nat
  <2> QED OBVIOUS
<1>2. a * S = b * S + S + d * S
  BY <1>1
<1>3. d * S >= 0
  OBVIOUS
<1> QED
  BY <1>2, <1>3

-----------------------------------------------------------------------------
(* The writer                                                              *)

LEMMA WriterStep ==
  ASSUME WriterInv, NextWriter \/ UNCHANGED <<ends, writerVars>>
  PROVE  WriterInv' /\ wire' >= wire /\ ends' = ends
<1>t. /\ RowCount \in Nat /\ ends \in [0..RowCount -> Nat]
      /\ \A r, s \in 0..RowCount : r < s => ends[r] < ends[s]
  BY LayoutFacts DEF WriterInv, WriterTypeOK
<1> USE <1>t, BufferAssumption
        DEF WriterInv, WriterTypeOK, BatchesAreWholeRows, RowLength, BufferFull
<1>1. CASE WriteRow
  <2>1. /\ written \in 0..RowCount /\ written + 1 \in 0..RowCount
        /\ wire \in Nat /\ sink \in 0..size /\ size \in Nat \ {0}
        /\ wire + sink = ends[written]
    BY <1>1 DEF WriteRow
  <2>2. ends[written] < ends[written + 1] /\ ends[written] \in Nat
        /\ ends[written + 1] \in Nat
    BY <1>t, <2>1
  <2>3. RowLength(written + 1) = ends[written + 1] - ends[written]
    BY <2>1
  <2>4. PICK length \in Nat : length = RowLength(written + 1)
    BY <2>2, <2>3
  <2>5. /\ sink' = sink + length /\ sink + length <= size /\ written' = written + 1
        /\ UNCHANGED <<ends, bufferSize, size, writer, wire, closed>>
    BY <1>1, <2>1, <2>4 DEF WriteRow
  <2>6. ends[written + 1] = ends[written] + length
    BY <2>2, <2>3, <2>4
  <2>10. WriterTypeOK'
    <3>1. sink' \in 0..size
      BY <2>1, <2>5
    <3> QED
      BY <3>1, <2>1, <2>5
  <2>7. \E r \in 0..(written + 1) : wire = ends[r]
    <3>1. PICK r \in 0..written : wire = ends[r]
      OBVIOUS
    <3>2. r \in 0..(written + 1)
      BY <2>1
    <3> QED
      BY <3>1, <3>2
  <2>8. (wire + sink = ends[written])'
    BY <2>1, <2>2, <2>5, <2>6
  <2>9. ~closed
    BY <1>1 DEF WriteRow
  <2>11. wire' >= wire /\ ends' = ends /\ BatchesAreWholeRows'
    <3>1. (\E r \in 0..written : wire = ends[r])'
      BY <2>5, <2>7
    <3>2. (closed => wire = ends[RowCount])'
      BY <2>5, <2>9
    <3>3. BatchesAreWholeRows'
      BY <2>8, <3>1, <3>2
    <3>4. wire' >= wire /\ ends' = ends
      BY <2>1, <2>5
    <3> HIDE DEF BatchesAreWholeRows
    <3> QED
      BY <3>3, <3>4
  <2>12. (closed => writer = "finished")'
    BY <2>5, <2>9
  <2> HIDE DEF WriterTypeOK, BatchesAreWholeRows
  <2> QED
    BY <2>10, <2>11, <2>12, Zenon
<1>2. CASE Grow
  BY <1>2 DEF Grow
<1>3. CASE Flush
  <2>1. /\ wire' = wire + sink /\ sink' = 0 /\ writer = "writing" /\ ~closed
        /\ UNCHANGED <<ends, bufferSize, size, written, writer, closed>>
    BY <1>3 DEF Flush, Rewound
  <2>2. wire' = ends[written] /\ written \in 0..written /\ wire \in Nat /\ sink \in Nat
    BY <2>1
  <2>3. (\E r \in 0..written : wire = ends[r])'
    BY <2>1, <2>2
  <2>4. ends[written] \in Nat /\ wire' \in Nat /\ sink' \in 0..size
    BY <2>1, <2>2
  <2> QED
    BY <2>1, <2>2, <2>3, <2>4
<1>4. CASE Finish
  BY <1>4 DEF Finish
<1>5. CASE WriteFault
  BY <1>5 DEF WriteFault
<1>6. CASE UNCHANGED <<ends, writerVars>>
  BY <1>6 DEF writerVars
<1> QED
  BY <1>1, <1>2, <1>3, <1>4, <1>5, <1>6 DEF NextWriter

-----------------------------------------------------------------------------
(* The reader, one lemma for each part of the invariant                    *)

\* The rows of one length that are complete are those that the quotient counts.
LEMMA Columns ==
  ASSUME Inv, columnar,
         NEW n, n = (seen - committed) \div STRIDE
  PROVE  /\ n \in Nat
         /\ rows + n \in 0..RowCount
         /\ committed + n * STRIDE = ends[rows + n]
         /\ committed + n * STRIDE <= seen
         /\ rows + n < RowCount => ends[rows + n + 1] > seen
<1> DEFINE S == STRIDE
<1>t. /\ rows \in 0..RowCount /\ seen \in Nat /\ committed \in Nat
      /\ committed <= seen /\ seen <= wire /\ wire \in Nat /\ sent \in Nat
      /\ written \in 0..RowCount /\ ends \in Layouts
      /\ \E r \in 0..written : wire = ends[r]
      /\ committed = ends[rows]
      /\ RowCount \in Nat
  BY LayoutFacts DEF Inv, ReaderTypeOK, WriterInv, WriterTypeOK, BatchesAreWholeRows, Bounds,
         Carry, CarryIsOneRow
<1>s. S \in Nat \ {0} /\ \A r \in 0..RowCount : ends[r] = r * S
  <2>1. ends[0] < ends[1] /\ ends[1] \in Nat /\ ends[0] = 0
    BY <1>t, LayoutFacts
  <2> QED
    BY <2>1, <1>t DEF STRIDE, Inv, Carry, Strided
<1> HIDE DEF S
<1>q. n \in Nat /\ n * S <= seen - committed /\ seen - committed < n * S + S
  <2>1. n = (seen - committed) \div S
    BY DEF S
  <2>2. seen - committed \in Nat
    BY <1>t
  <2> HIDE DEF S
  <2> QED
    BY <2>1, <2>2, <1>s, Quotient
<1>1. committed + n * S = (rows + n) * S
  <2>1. committed = rows * S
    BY <1>t, <1>s
  <2>2. rows \in Nat
    BY <1>t
  <2> QED
    BY <2>1, <2>2, <1>q, <1>s
<1>2. wire <= RowCount * S
  <2>1. PICK r \in 0..written : wire = ends[r]
    BY <1>t
  <2>2. r \in 0..RowCount /\ r <= RowCount /\ RowCount \in Nat
    BY <1>t, LayoutFacts
  <2>3. ends[RowCount] = RowCount * S /\ ends[r] <= ends[RowCount]
    BY <2>2, <1>t, <1>s, LayoutFacts
  <2> QED
    BY <2>1, <2>3
<1>3. (rows + n) * S <= RowCount * S
  <2>1. committed + n * S <= seen /\ n * S \in Nat
    BY <1>q, <1>s, <1>t
  <2>2. RowCount * S \in Nat
    BY <1>s, <1>t, LayoutFacts
  <2> QED
    BY <2>1, <2>2, <1>1, <1>2, <1>t
<1>4. rows + n \in 0..RowCount
  <2>1. rows + n \in Nat /\ RowCount \in Nat
    BY <1>t, <1>q, LayoutFacts
  <2>2. rows + n <= RowCount
    BY <2>1, <1>3, <1>s, Factors
  <2> QED
    BY <2>1, <2>2
<1>5. ASSUME rows + n < RowCount PROVE ends[rows + n + 1] > seen
  <2>1. rows + n + 1 \in 0..RowCount
    BY <1>4, <1>5, <1>t, <1>q
  <2>2. ends[rows + n + 1] = (rows + n) * S + S
    <3>1. (rows + n + 1) * S = (rows + n) * S + S
      BY <1>4, <1>s, <1>t, <1>q
    <3> QED
      BY <3>1, <2>1, <1>s
  <2>3. n * S \in Nat
    BY <1>q, <1>s
  <2> QED
    BY <2>2, <2>3, <1>1, <1>q, <1>t, <1>s
<1> QED
  BY <1>q, <1>1, <1>4, <1>5, <1>s, <1>t DEF S

LEMMA ReaderTypeStep ==
  ASSUME Inv, NextReader
  PROVE  ReaderTypeOK' /\ Control'
<1> USE LayoutFacts, StreamAssumption
        DEF Inv, WriterInv, WriterTypeOK, ReaderTypeOK, Control, Interval, Nothing,
            PullAhead, Yield, rowVars, deadlineVars, sourceVars
<1>1. CASE TakeFirst
  BY <1>1 DEF TakeFirst, Taken
<1>2. CASE TakeMore
  BY <1>2 DEF TakeMore, Taken
<1>3. CASE TimedOut
  BY <1>3 DEF TimedOut, Outstanding
<1>4. CASE SourceDone
  BY <1>4 DEF SourceDone
<1>5. CASE SourceRejected
  BY <1>5 DEF SourceRejected
<1>6. CASE Released
  BY <1>6 DEF Released
<1>7. CASE ReadRow
  BY <1>7 DEF ReadRow, RowComplete
<1>8. CASE Starve
  BY <1>8 DEF Starve, BatchEnd, Resume, Rewind
<1>9. CASE ReadColumns
  <2> DEFINE n == (seen - committed) \div STRIDE
  <2>1. n \in Nat /\ rows + n \in 0..RowCount /\ committed + n * STRIDE \in Nat
    BY <1>9, Columns DEF ReadColumns
  <2>2. /\ rows' = rows + n /\ committed' = committed + n * STRIDE /\ batch' = n
        /\ BatchEnd(n)
        /\ driver = "reading"
        /\ UNCHANGED <<sent, source, parts, left, age, columnar, seen, fault>>
    BY <1>9 DEF ReadColumns
  <2> HIDE DEF n
  <2>3. CASE n > 0
    BY <2>1, <2>2, <2>3 DEF BatchEnd
  <2>4. CASE n = 0
    BY <2>1, <2>2, <2>4 DEF BatchEnd, Resume
  <2> QED
    BY <2>1, <2>3, <2>4
<1>10. CASE DecodeFault
  BY <1>10 DEF DecodeFault
<1>11. CASE ConsumerNext
  BY <1>11 DEF ConsumerNext, Resume
<1>12. CASE Leave
  BY <1>12 DEF Leave
<1>13. CASE Arrive
  BY <1>13 DEF Arrive, Answering, Answered
<1>14. CASE SourceEnd
  BY <1>14 DEF SourceEnd, Answering
<1>15. CASE SourceFail
  BY <1>15 DEF SourceFail, Answering
<1>16. CASE Tick
  BY <1>16 DEF Tick
<1> QED
  BY <1>1, <1>2, <1>3, <1>4, <1>5, <1>6, <1>7, <1>8, <1>9, <1>10, <1>11, <1>12,
     <1>13, <1>14, <1>15, <1>16 DEF NextReader, CodeStep

\* One next() at a time, and none after the last answer.
LEMMA PromiseStep ==
  ASSUME Inv, NextReader, UNCHANGED <<ends, writerVars>>
  PROVE  Promise'
<1> USE DEF Inv, ReaderTypeOK, Control, Promise, OneOutstandingPull,
            rowVars, deadlineVars, sourceVars, writerVars
<1>1. CASE TakeFirst
  BY <1>1 DEF TakeFirst, Taken, Yield, PullAhead
<1>2. CASE TakeMore
  BY <1>2 DEF TakeMore, Taken, Yield, PullAhead
<1>3. CASE TimedOut
  BY <1>3 DEF TimedOut, Outstanding, Yield
<1>4. CASE SourceDone
  BY <1>4 DEF SourceDone, Yield
<1>5. CASE SourceRejected
  BY <1>5 DEF SourceRejected
<1>6. CASE Released
  BY <1>6 DEF Released, Truncated
<1>7. CASE ReadRow
  BY <1>7 DEF ReadRow, RowComplete
<1>8. CASE Starve
  BY <1>8 DEF Starve, BatchEnd, Resume, PullAhead, Rewind
<1>9. CASE ReadColumns
  BY <1>9 DEF ReadColumns, BatchEnd, Resume, PullAhead
<1>10. CASE DecodeFault
  BY <1>10 DEF DecodeFault
<1>11. CASE ConsumerNext
  BY <1>11 DEF ConsumerNext, Resume, PullAhead
<1>12. CASE Leave
  BY <1>12 DEF Leave
<1>13. CASE Arrive
  BY <1>13 DEF Arrive, Answering, Answered
<1>14. CASE SourceEnd
  BY <1>14 DEF SourceEnd, Answering, Nothing
<1>15. CASE SourceFail
  BY <1>15 DEF SourceFail, Answering, Nothing
<1>16. CASE Tick
  BY <1>16 DEF Tick
<1> QED
  BY <1>1, <1>2, <1>3, <1>4, <1>5, <1>6, <1>7, <1>8,
     <1>9, <1>10, <1>11, <1>12, <1>13, <1>14, <1>15, <1>16 DEF NextReader, CodeStep

\* Bytes are neither lost nor doubled.
LEMMA BoundsStep ==
  ASSUME Inv, NextReader, UNCHANGED <<ends, writerVars>>
  PROVE  Bounds'
<1> USE StreamAssumption DEF Inv, ReaderTypeOK, Interval, Nothing, Control, Promise, OneOutstandingPull,
            Bounds, BytesInOrder, WriterInv, WriterTypeOK,
            rowVars, deadlineVars, sourceVars, writerVars
<1>1. CASE TakeFirst
  BY <1>1 DEF TakeFirst, Taken, Yield, PullAhead
<1>2. CASE TakeMore
  BY <1>2 DEF TakeMore, Taken, Yield, PullAhead
<1>3. CASE TimedOut
  BY <1>3 DEF TimedOut, Outstanding, Yield
<1>4. CASE SourceDone
  BY <1>4 DEF SourceDone, Yield
<1>5. CASE SourceRejected
  BY <1>5 DEF SourceRejected
<1>6. CASE Released
  BY <1>6 DEF Released, Truncated
<1>7. CASE ReadRow
  BY <1>7 DEF ReadRow, RowComplete
<1>8. CASE Starve
  BY <1>8 DEF Starve, BatchEnd, Resume, PullAhead, Rewind
<1>9. CASE ReadColumns
  BY <1>9 DEF ReadColumns, BatchEnd, Resume, PullAhead
<1>10. CASE DecodeFault
  BY <1>10 DEF DecodeFault
<1>11. CASE ConsumerNext
  BY <1>11 DEF ConsumerNext, Resume, PullAhead
<1>12. CASE Leave
  BY <1>12 DEF Leave
<1>13. CASE Arrive
  BY <1>13 DEF Arrive, Answering, Answered
<1>14. CASE SourceEnd
  BY <1>14 DEF SourceEnd, Answering, Nothing
<1>15. CASE SourceFail
  BY <1>15 DEF SourceFail, Answering, Nothing
<1>16. CASE Tick
  BY <1>16 DEF Tick
<1> QED
  BY <1>1, <1>2, <1>3, <1>4, <1>5, <1>6, <1>7, <1>8,
     <1>9, <1>10, <1>11, <1>12, <1>13, <1>14, <1>15, <1>16 DEF NextReader, CodeStep

\* The carry begins where a row ends, and holds no complete row.
LEMMA CarryStep ==
  ASSUME Inv, NextReader, UNCHANGED <<ends, writerVars>>
  PROVE  Carry'
<1> USE LayoutFacts DEF Inv, ReaderTypeOK, Interval, Nothing, Control, Promise, OneOutstandingPull,
            Carry, CarryIsOneRow, RowComplete, Strided, STRIDE, Bounds, BytesInOrder,
            WriterInv, WriterTypeOK, rowVars, deadlineVars, sourceVars, writerVars
<1>1. CASE TakeFirst
  BY <1>1 DEF TakeFirst, Taken, Yield, PullAhead
<1>2. CASE TakeMore
  BY <1>2 DEF TakeMore, Taken, Yield, PullAhead
<1>3. CASE TimedOut
  BY <1>3 DEF TimedOut, Outstanding, Yield
<1>4. CASE SourceDone
  BY <1>4 DEF SourceDone, Yield
<1>5. CASE SourceRejected
  BY <1>5 DEF SourceRejected
<1>6. CASE Released
  BY <1>6 DEF Released, Truncated
<1>7. CASE ReadRow
  BY <1>7 DEF ReadRow, RowComplete
<1>8. CASE Starve
  BY <1>8 DEF Starve, BatchEnd, Resume, PullAhead, Rewind
<1>9. CASE ReadColumns
  <2>1. PICK n \in Nat : n = (seen - committed) \div STRIDE
    BY <1>9, Columns DEF ReadColumns
  <2>2. /\ rows + n \in 0..RowCount
        /\ committed + n * STRIDE = ends[rows + n]
        /\ committed + n * STRIDE <= seen
        /\ rows + n < RowCount => ends[rows + n + 1] > seen
    BY <1>9, <2>1, Columns DEF ReadColumns
  <2>3. rows' = rows + n /\ committed' = ends[rows + n]
        /\ UNCHANGED <<ends, seen, columnar>>
    BY <1>9, <2>1, <2>2 DEF ReadColumns
  <2>4. (committed = ends[rows] /\ committed <= seen)'
    BY <2>2, <2>3
  <2>5. ~RowComplete'
    <3>1. rows + n < RowCount => ends[rows + n + 1] \in Nat
      BY <2>2
    <3> QED
      BY <2>2, <2>3, <3>1
  <2> QED
    BY <2>3, <2>4, <2>5
<1>10. CASE DecodeFault
  BY <1>10 DEF DecodeFault
<1>11. CASE ConsumerNext
  BY <1>11 DEF ConsumerNext, Resume, PullAhead
<1>12. CASE Leave
  BY <1>12 DEF Leave
<1>13. CASE Arrive
  BY <1>13 DEF Arrive, Answering, Answered
<1>14. CASE SourceEnd
  BY <1>14 DEF SourceEnd, Answering, Nothing
<1>15. CASE SourceFail
  BY <1>15 DEF SourceFail, Answering, Nothing
<1>16. CASE Tick
  BY <1>16 DEF Tick
<1> QED
  BY <1>1, <1>2, <1>3, <1>4, <1>5, <1>6, <1>7, <1>8,
     <1>9, <1>10, <1>11, <1>12, <1>13, <1>14, <1>15, <1>16 DEF NextReader, CodeStep

\* The end of the stream.
LEMMA EndingStep ==
  ASSUME Inv, NextReader, UNCHANGED <<ends, writerVars>>
  PROVE  Ending'
<1> USE DEF Inv, ReaderTypeOK, Interval, Nothing, Control, Promise, OneOutstandingPull,
            Bounds, BytesInOrder, Carry, CarryIsOneRow, Ending, DoneIsDecoded,
            rowVars, deadlineVars, sourceVars, writerVars
<1>1. CASE TakeFirst
  BY <1>1 DEF TakeFirst, Taken, Yield, PullAhead
<1>2. CASE TakeMore
  BY <1>2 DEF TakeMore, Taken, Yield, PullAhead
<1>3. CASE TimedOut
  BY <1>3 DEF TimedOut, Outstanding, Yield
<1>4. CASE SourceDone
  BY <1>4 DEF SourceDone, Yield
<1>5. CASE SourceRejected
  BY <1>5 DEF SourceRejected
<1>6. CASE Released
  BY <1>6 DEF Released, Truncated
<1>7. CASE ReadRow
  BY <1>7 DEF ReadRow, RowComplete
<1>8. CASE Starve
  BY <1>8 DEF Starve, BatchEnd, Resume, PullAhead, Rewind
<1>9. CASE ReadColumns
  BY <1>9 DEF ReadColumns, BatchEnd, Resume, PullAhead
<1>10. CASE DecodeFault
  BY <1>10 DEF DecodeFault
<1>11. CASE ConsumerNext
  BY <1>11 DEF ConsumerNext, Resume, PullAhead
<1>12. CASE Leave
  BY <1>12 DEF Leave
<1>13. CASE Arrive
  BY <1>13 DEF Arrive, Answering, Answered
<1>14. CASE SourceEnd
  BY <1>14 DEF SourceEnd, Answering, Nothing
<1>15. CASE SourceFail
  BY <1>15 DEF SourceFail, Answering, Nothing
<1>16. CASE Tick
  BY <1>16 DEF Tick
<1> QED
  BY <1>1, <1>2, <1>3, <1>4, <1>5, <1>6, <1>7, <1>8,
     <1>9, <1>10, <1>11, <1>12, <1>13, <1>14, <1>15, <1>16 DEF NextReader, CodeStep

\* The deadline stands.
LEMMA DeadlineStep ==
  ASSUME Inv, NextReader, UNCHANGED <<ends, writerVars>>
  PROVE  DeadlineAnchored'
<1> USE StreamAssumption DEF Inv, ReaderTypeOK, Interval, Nothing, Control, Promise, OneOutstandingPull,
            DeadlineAnchored, rowVars, deadlineVars, sourceVars, writerVars
<1>1. CASE TakeFirst
  BY <1>1 DEF TakeFirst, Taken, Yield, PullAhead
<1>2. CASE TakeMore
  BY <1>2 DEF TakeMore, Taken, Yield, PullAhead
<1>3. CASE TimedOut
  BY <1>3 DEF TimedOut, Outstanding, Yield
<1>4. CASE SourceDone
  BY <1>4 DEF SourceDone, Yield
<1>5. CASE SourceRejected
  BY <1>5 DEF SourceRejected
<1>6. CASE Released
  BY <1>6 DEF Released, Truncated
<1>7. CASE ReadRow
  BY <1>7 DEF ReadRow, RowComplete
<1>8. CASE Starve
  BY <1>8 DEF Starve, BatchEnd, Resume, PullAhead, Rewind
<1>9. CASE ReadColumns
  BY <1>9 DEF ReadColumns, BatchEnd, Resume, PullAhead
<1>10. CASE DecodeFault
  BY <1>10 DEF DecodeFault
<1>11. CASE ConsumerNext
  BY <1>11 DEF ConsumerNext, Resume, PullAhead
<1>12. CASE Leave
  BY <1>12 DEF Leave
<1>13. CASE Arrive
  BY <1>13 DEF Arrive, Answering, Answered
<1>14. CASE SourceEnd
  BY <1>14 DEF SourceEnd, Answering, Nothing
<1>15. CASE SourceFail
  BY <1>15 DEF SourceFail, Answering, Nothing
<1>16. CASE Tick
  BY <1>16 DEF Tick
<1> QED
  BY <1>1, <1>2, <1>3, <1>4, <1>5, <1>6, <1>7, <1>8,
     <1>9, <1>10, <1>11, <1>12, <1>13, <1>14, <1>15, <1>16 DEF NextReader, CodeStep

-----------------------------------------------------------------------------
(* The theorems                                                            *)

THEOREM RowBinaryInvariant == Spec => []Inv
<1>1. Init => Inv
  <2> SUFFICES ASSUME Init PROVE Inv
    OBVIOUS
  <2> USE LayoutFacts, BufferAssumption, StreamAssumption
          DEF Init, InitWriter, InitReader
  <2>a. ends \in Layouts /\ bufferSize \in BufferSizes /\ bufferSize \in Nat \ {0}
    OBVIOUS
  <2>b. ends[0] = 0 /\ RowCount \in Nat
    BY <2>a
  <2>c. 0 \in 0..0 /\ 0 \in 0..RowCount /\ 0 \in 0..bufferSize
    BY <2>a, <2>b
  <2>1. WriterInv
    <3>1. WriterTypeOK
      BY <2>a, <2>b, <2>c DEF WriterTypeOK
    <3>2. BatchesAreWholeRows
      BY <2>a, <2>b, <2>c DEF BatchesAreWholeRows
    <3> QED
      BY <3>1, <3>2 DEF WriterInv
  <2>2. ReaderTypeOK
    BY <2>b, <2>c DEF ReaderTypeOK, Interval, Nothing
  <2>4. Control /\ Promise
    BY DEF Control, Promise, OneOutstandingPull
  <2>5. Bounds
    BY DEF Bounds, BytesInOrder, Nothing
  <2>3. Carry /\ Ending /\ DeadlineAnchored
    BY <2>a, <2>b DEF Carry, CarryIsOneRow, RowComplete, Ending, DoneIsDecoded, DeadlineAnchored
  <2> QED
    BY <2>1, <2>2, <2>3, <2>4, <2>5 DEF Inv
<1>2. Inv /\ [Next]_vars => Inv'
  <2> SUFFICES ASSUME Inv, [Next]_vars PROVE Inv'
    OBVIOUS
  <2>1. CASE NextWriter /\ UNCHANGED readerVars
    <3>1. WriterInv' /\ wire' >= wire /\ ends' = ends /\ wire' \in Nat
      BY <2>1, WriterStep DEF Inv, WriterInv, WriterTypeOK
    <3>2. UNCHANGED readerVars
      BY <2>1
    <3> HIDE <2>1
    <3>3. (ReaderTypeOK /\ Control /\ Promise /\ Ending /\ DeadlineAnchored)'
      BY <3>1, <3>2 DEF Inv, ReaderTypeOK, Control, Promise, OneOutstandingPull, Ending,
         DoneIsDecoded, DeadlineAnchored, readerVars, rowVars, deadlineVars, sourceVars
    <3>4. (Bounds /\ Carry)'
      BY <3>1, <3>2 DEF Inv, WriterInv, WriterTypeOK, ReaderTypeOK, Bounds, BytesInOrder,
         Carry, CarryIsOneRow, RowComplete, Strided, STRIDE, readerVars, rowVars,
         deadlineVars, sourceVars
    <3> QED
      BY <3>1, <3>3, <3>4 DEF Inv
  <2>2. CASE NextReader /\ UNCHANGED <<ends, writerVars>>
    <3>1. WriterInv'
      BY <2>2, WriterStep DEF Inv
    <3> QED
      BY <2>2, <3>1, ReaderTypeStep, PromiseStep, BoundsStep, CarryStep, EndingStep,
         DeadlineStep DEF Inv
  <2>3. CASE UNCHANGED vars
    BY <2>3 DEF vars, writerVars, readerVars, rowVars, deadlineVars, sourceVars, Inv,
       WriterInv, WriterTypeOK, BatchesAreWholeRows, ReaderTypeOK, Control, Promise,
       OneOutstandingPull, Bounds, BytesInOrder, Carry, CarryIsOneRow, RowComplete,
       Strided, STRIDE, Ending, DoneIsDecoded, DeadlineAnchored
  <2> QED
    BY <2>1, <2>2, <2>3 DEF Next
<1> QED
  BY <1>1, <1>2, PTL DEF Spec

\* Every variable keeps its type.
THEOREM RowBinaryTypeCorrect == Spec => []TypeOK
BY RowBinaryInvariant, PTL DEF Inv, WriterInv, TypeOK

\* What writeRows yields ends where a row ends (writers/rows.ts).
THEOREM WrittenWhole == Spec => []BatchesAreWholeRows
BY RowBinaryInvariant, PTL DEF Inv, WriterInv

\* coalesceChunks keeps every byte, in order.
THEOREM NoByteLost == Spec => []BytesInOrder
BY RowBinaryInvariant, PTL DEF Inv, Bounds

\* coalesceChunks has one next() outstanding at most.
THEOREM OnePull == Spec => []OneOutstandingPull
BY RowBinaryInvariant, PTL DEF Inv, Promise

\* The deadline of a batch counts from its first byte.
THEOREM DeadlineFromFirstByte == Spec => []DeadlineAnchored
BY RowBinaryInvariant, PTL DEF Inv

\* Between batches only an unfinished row is kept.
THEOREM CarryHoldsOneRow == Spec => []CarryIsOneRow
BY RowBinaryInvariant, PTL DEF Inv, Carry

\* A stream that ends well has decoded all that came, to the end of a row.
THEOREM EndIsComplete == Spec => []DoneIsDecoded
BY RowBinaryInvariant, PTL DEF Inv, Ending
=============================================================================
