------------------------------ MODULE RowStream ------------------------------
(***************************************************************************)
(* How ResultSet.stream() of both clients turns the chunks of a response   *)
(* body into rows: the transform of client-node/src/result_set.ts and of   *)
(* client-web/src/result_set.ts, which share their control, and            *)
(* extractErrorAtTheEndOfChunk of client-common.                           *)
(*                                                                         *)
(* The network cuts the body into chunks anywhere.  A position is an       *)
(* offset in the body; a chunk is the interval [start, sent) of it, and a  *)
(* row is the sequence of the intervals that its text is pieced together   *)
(* from, with the size of the array the web client allocates for it        *)
(* (Buffer.concat of Node.js computes that size itself).                   *)
(*                                                                         *)
(* Bytes are their codes.  The words of the exception protocol are scaled  *)
(* to one byte each: "__exception__", the tag of the response header and   *)
(* the decimal length of the message.                                      *)
(***************************************************************************)
EXTENDS Integers, Sequences, FiniteSets

CONSTANTS
    Datas,          \* the rows the server may send, as byte sequences
    Messages,       \* what it may report after them; <<>> is no exception
    MaxChunks       \* bound on the chunks of a body

LF == 10
CR == 13
Space == 32
Zero == 48          \* the code of the digit 0
Marker == 95        \* __exception__
Tag == 84           \* the value of the X-ClickHouse-Exception-Tag header
WhiteSpace == {LF, CR, Space}
MarkerLength == 1
TagLength == 1

ASSUME InputAssumption ==
    /\ Datas \subseteq Seq(0..255)
    /\ \A m \in Messages : m \in Seq(0..255) /\ Len(m) < 9
    /\ MaxChunks \in Nat \ {0}

VARIABLES
    data, boom,     \* the response: its rows and its exception, or <<>>
    tagged,         \* the response has an exception tag header
    start, sent,    \* the chunk being split; sent bytes have arrived
    cuts,           \* where the chunks began
    stage,          \* waiting, splitting, ended, errored; stuck in a loop
    lastIdx,        \* where the next row begins, within the chunk
    incompleteChunks, totalIncompleteLength,
    rows,           \* rows of this chunk
    delivered,      \* rows handed to the consumer
    failure,        \* why the stream errored
    message         \* the text of the reported error

input == <<data, boom, tagged>>
chunkVars == <<start, sent, cuts>>
carryVars == <<incompleteChunks, totalIncompleteLength>>
vars == <<input, chunkVars, stage, lastIdx, carryVars, rows, delivered,
          failure, message>>

\* \r\n__exception__\r\nFOOBAR\nboom\n5 FOOBAR\r\n__exception__\r\n
ExceptionBlock(text) ==
    <<CR, LF, Marker, CR, LF, Tag, LF>> \o text
        \o <<LF, Zero + Len(text) + 1, Space, Tag, CR, LF, Marker, CR, LF>>

body == IF boom = <<>> THEN data ELSE data \o ExceptionBlock(boom)

\* The newlines in the bytes [from, to) of the body
Newlines(from, to) == {p \in from..(to - 1) : body[p + 1] = LF}

Pieces == Seq(Nat \X Nat)
Rows == Seq([pieces : Pieces, size : Nat])

ShapeOK ==
    /\ data \in Datas
    /\ boom \in Messages
    /\ tagged \in BOOLEAN
    /\ start \in Nat /\ sent \in Nat
    /\ cuts \subseteq Nat
    /\ stage \in {"waiting", "splitting", "ended", "errored", "stuck"}
    /\ lastIdx \in Nat
    /\ incompleteChunks \in Pieces
    /\ totalIncompleteLength \in Nat
    /\ rows \in Rows
    /\ delivered \in Rows
    /\ failure \in {"none", "network", "malformed", "no length", "server"}

\* A server that sends exception blocks announces them with the header.
Init ==
    /\ data \in Datas
    /\ boom \in Messages
    /\ tagged \in BOOLEAN
    /\ boom # <<>> => tagged
    /\ start = 0 /\ sent = 0
    /\ cuts = {}
    /\ stage = "waiting"
    /\ lastIdx = 0
    /\ incompleteChunks = <<>>
    /\ totalIncompleteLength = 0
    /\ rows = <<>>
    /\ delivered = <<>>
    /\ failure = "none"
    /\ message = <<>>

-----------------------------------------------------------------------------
(* extractErrorAtTheEndOfChunk *)

bytesCountAfterErrLenHint == 1 + MarkerLength + 2 + TagLength + 2

\* parseInt of a text whose numbers have one digit; 0 stands for NaN.
ParseInt(text) ==
    LET dark == {i \in DOMAIN text : text[i] \notin WhiteSpace}
    IN  IF \E i \in dark : /\ \A j \in dark : i <= j
                           /\ text[i] \in Zero..(Zero + 9)
        THEN text[CHOOSE i \in dark : \A j \in dark : i <= j] - Zero
        ELSE 0

\* Array.prototype.subarray: a negative bound counts from the end.
Subarray(s, from, to) ==
    LET low == IF from >= 0 THEN from
               ELSE IF Len(s) + from >= 0 THEN Len(s) + from ELSE 0
    IN  SubSeq(s, low + 1, to)

\* The message starts errMsgLen - 1 bytes before the newline that ends it.
Text_NewlineCounted(chunk, newline, length) ==
    Subarray(chunk, newline - length, newline)
Text(chunk, newline, length) ==
    Subarray(chunk, newline - length + 1, newline)

\* The search for the newline before the length runs down from hint; below
\* the chunk it reads undefined for ever.
Extract(chunk) ==
    LET hint == Len(chunk) - bytesCountAfterErrLenHint
        newlines == {i \in 0..(hint - 1) : chunk[i + 1] = LF}
        newline == CHOOSE i \in newlines : \A j \in newlines : j <= i
        errMsgLen == ParseInt(SubSeq(chunk, newline + 1, hint))
    IN  \/ /\ hint < 1
           /\ stage' = "errored" /\ failure' = "malformed"
           /\ UNCHANGED message
        \/ /\ hint >= 1 /\ newlines = {}
           /\ stage' = "stuck"
           /\ UNCHANGED <<failure, message>>
        \/ /\ hint >= 1 /\ newlines # {} /\ errMsgLen = 0
           /\ stage' = "errored" /\ failure' = "no length"
           /\ UNCHANGED message
        \/ /\ hint >= 1 /\ newlines # {} /\ errMsgLen # 0
           /\ stage' = "errored" /\ failure' = "server"
           /\ message' = Text(chunk, newline, errMsgLen)

-----------------------------------------------------------------------------
(* The transform *)

\* A chunk arrives; its cuts are anywhere in the body.
Chunk ==
    /\ stage = "waiting"
    /\ Cardinality(cuts) < MaxChunks
    /\ \E to \in (sent + 1)..Len(body) : sent' = to
    /\ start' = sent
    /\ cuts' = cuts \cup {sent}
    /\ stage' = "splitting"
    /\ lastIdx' = 0
    /\ rows' = <<>>
    /\ UNCHANGED <<input, carryVars, delivered, failure, message>>

\* chunk.indexOf(NEWLINE, lastIdx) finds the newline at p.
NextNewline(p) ==
    LET found == Newlines(start + lastIdx, sent)
    IN  p \in found /\ \A q \in found : p <= q

\* With a tag, a newline after a caret return in the same chunk is taken for
\* the beginning of an exception.
Announces_OffByOne(p) == tagged /\ p - start > 1 /\ body[p] = CR
Announces(p) == tagged /\ p - start >= 1 /\ body[p] = CR

\* The row that ends at p, together with what earlier chunks left
RowEndingAt(p) ==
    [pieces |-> Append(incompleteChunks, <<start + lastIdx, p>>),
     size |-> IF incompleteChunks # <<>>
              THEN totalIncompleteLength + (p - start)
              ELSE p - (start + lastIdx)]

\* incompleteChunks.length = 0; totalIncompleteLength = 0
CarryReset_LengthKept ==
    /\ incompleteChunks' = <<>>
    /\ UNCHANGED totalIncompleteLength
CarryReset ==
    /\ incompleteChunks' = <<>>
    /\ totalIncompleteLength' = 0

Row ==
    /\ stage = "splitting"
    /\ \E p \in Newlines(start, sent) :
          /\ NextNewline(p)
          /\ ~Announces(p)
          /\ rows' = Append(rows, RowEndingAt(p))
          /\ lastIdx' = p - start + 1
    /\ CarryReset
    /\ UNCHANGED <<input, chunkVars, stage, delivered, failure, message>>

\* The rows of this chunk are dropped.
Exception ==
    /\ stage = "splitting"
    /\ \E p \in Newlines(start, sent) : NextNewline(p) /\ Announces(p)
    /\ Extract(SubSeq(body, start + 1, sent))
    /\ UNCHANGED <<input, chunkVars, lastIdx, carryVars, rows, delivered>>

\* No newline is left: the rest waits for the next chunk, the rows go out.
Enqueued_Late == IF lastIdx = sent - start THEN delivered \o rows ELSE delivered
Enqueued == delivered \o rows

ChunkDone ==
    /\ stage = "splitting"
    /\ Newlines(start + lastIdx, sent) = {}
    /\ incompleteChunks' = Append(incompleteChunks, <<start + lastIdx, sent>>)
    /\ totalIncompleteLength' = totalIncompleteLength + sent - (start + lastIdx)
    /\ delivered' = Enqueued
    /\ rows' = <<>>
    /\ stage' = "waiting"
    /\ UNCHANGED <<input, chunkVars, lastIdx, failure, message>>

\* The body ends: an unterminated last row stays in incompleteChunks.
End ==
    /\ stage = "waiting"
    /\ sent = Len(body)
    /\ stage' = "ended"
    /\ UNCHANGED <<input, chunkVars, lastIdx, carryVars, rows, delivered,
                   failure, message>>

\* The connection is lost, or times out, in the middle of the body.
Cut ==
    /\ stage = "waiting"
    /\ sent < Len(body)
    /\ stage' = "errored"
    /\ failure' = "network"
    /\ UNCHANGED <<input, chunkVars, lastIdx, carryVars, rows, delivered, message>>

Next == Chunk \/ Row \/ Exception \/ ChunkDone \/ End \/ Cut

Spec == Init /\ [][Next]_vars

-----------------------------------------------------------------------------
(* Properties *)

\* The intervals follow on each other from one position to another.
Chain(pieces, from, to) ==
    /\ pieces # <<>>
    /\ pieces[1][1] = from
    /\ \A k \in 2..Len(pieces) : pieces[k][1] = pieces[k - 1][2]
    /\ pieces[Len(pieces)][2] = to

RowEnd(row) == row.pieces[Len(row.pieces)][2]

\* The row is the line of the body that begins at a position, and fills the
\* array allocated for it.
IsLine(row, from) ==
    LET to == RowEnd(row)
    IN  /\ Chain(row.pieces, from, to)
        /\ to \in Newlines(0, Len(body))
        /\ Newlines(from, to) = {}
        /\ row.size = to - from

\* Wherever the network cuts the body, the rows are its lines, in order: each
\* is pieced together without a gap or an overlap from the end of the line
\* before to the next newline.
RowsAreLines ==
    LET all == delivered \o rows
    IN  \A i \in DOMAIN all :
            IsLine(all[i], IF i = 1 THEN 0 ELSE RowEnd(all[i - 1]) + 1)

\* A row is handed out as soon as the chunk that completes it has arrived; an
\* exception takes with it the rows of its own chunk and no others.
NothingWithheld ==
    LET upTo == IF stage \in {"waiting", "ended"} \/ failure = "network"
                THEN sent ELSE start
    IN  Len(delivered) = Cardinality(Newlines(0, upTo))

\* An exception that arrives whole in the last chunk, whatever rows come
\* before it in that chunk, is reported with exactly the server's message.
WholeExceptionReported ==
    /\ tagged /\ boom # <<>>
    /\ start <= Len(data) /\ sent = Len(body)
    /\ stage # "splitting"
    => stage = "errored" /\ failure = "server" /\ message = boom

\* A tagged response that contains a line end of the exception protocol never
\* ends as a success unless a chunk boundary split every one of them.
UnnoticedOnlyIfSplit ==
    tagged /\ stage = "ended" =>
        \A p \in 1..(Len(body) - 1) :
            body[p] = CR /\ body[p + 1] = LF => p \in cuts

\* Extracting the error always comes to an end.
ExtractionTerminates == stage # "stuck"

=============================================================================
