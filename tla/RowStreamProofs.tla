--------------------------- MODULE RowStreamProofs ---------------------------
(***************************************************************************)
(* Proofs about RowStream: whatever the body is and however the network    *)
(* cuts it, the rows of a stream are the lines of the body, each is handed *)
(* out with the chunk that completes it, a line end of the exception       *)
(* protocol goes unnoticed only where a chunk was cut, and an exception    *)
(* that arrives in one chunk is reported with its message.                 *)
(***************************************************************************)
EXTENDS RowStream, SequenceTheorems, FiniteSetTheorems, TLAPS

RowSet == [pieces : Pieces, size : Nat]

all == delivered \o rows

\* Where the line after the last of some rows begins
Frontier(s) == IF s = <<>> THEN 0 ELSE RowEnd(s[Len(s)]) + 1

Lines(s) ==
    \A i \in DOMAIN s :
        IsLine(s[i], IF i = 1 THEN 0 ELSE RowEnd(s[i - 1]) + 1)

\* What earlier chunks left is the part of the next line up to a position.
Carries(upTo) ==
    /\ Chain(incompleteChunks, Frontier(all), upTo)
    /\ totalIncompleteLength = upTo - Frontier(all)
    /\ Frontier(all) \in 0..upTo
    /\ Newlines(Frontier(all), upTo) = {}

CarriesNothing(upTo) ==
    /\ incompleteChunks = <<>>
    /\ totalIncompleteLength = 0
    /\ Frontier(all) = upTo

\* The invariant behind RowsAreLines: rows, carry and position fit together.
SplitInv ==
    /\ Lines(all)
    /\ start <= sent /\ sent <= Len(body)
    /\ lastIdx <= sent - start
    /\ stage = "waiting" =>
          /\ rows = <<>>
          /\ (sent = 0 /\ CarriesNothing(0)) \/ Carries(sent)
    /\ stage = "splitting" =>
          \/ CarriesNothing(start + lastIdx)
          \/ lastIdx = 0 /\ Carries(start)

-----------------------------------------------------------------------------
(* The body *)

LEMMA SevenAndNine ==
  ASSUME NEW a \in Nat, NEW b \in Nat, NEW c \in Nat, NEW d \in Nat,
         NEW e \in Nat, NEW f \in Nat, NEW g \in Nat, NEW h \in Nat,
         NEW i \in Nat
  PROVE  /\ <<a, b, c, d, e, f, g>> \in Seq(Nat)
         /\ <<a, b, c, d, e, f, g, h, i>> \in Seq(Nat)
OBVIOUS

LEMMA BodyType ==
  ASSUME ShapeOK
  PROVE  body \in Seq(Nat) /\ Len(body) \in Nat
<1>1. data \in Seq(0..255) /\ boom \in Seq(0..255)
  BY InputAssumption DEF ShapeOK
<1>2. data \in Seq(Nat) /\ boom \in Seq(Nat) /\ Len(boom) \in Nat
  <2>1. ASSUME NEW bytes \in Seq(0..255)
        PROVE  bytes \in Seq(Nat) /\ Len(bytes) \in Nat
    <3>1. 0..255 \subseteq Nat
      OBVIOUS
    <3>2. bytes \in Seq(Nat)
      BY <3>1, SeqMonotonic
    <3> QED BY <3>2, LenProperties
  <2> QED BY <1>1, <2>1
<1>3. <<CR, LF, Marker, CR, LF, Tag, LF>> \in Seq(Nat)
  BY SevenAndNine DEF CR, LF, Marker, Tag
<1>4. <<LF, Zero + Len(boom) + 1, Space, Tag, CR, LF, Marker, CR, LF>> \in Seq(Nat)
  <2>1. Zero + Len(boom) + 1 \in Nat
    BY <1>2 DEF Zero
  <2> QED BY <2>1, SevenAndNine DEF CR, LF, Marker, Tag, Space
<1>5. ExceptionBlock(boom) \in Seq(Nat)
  BY <1>2, <1>3, <1>4, ConcatProperties DEF ExceptionBlock
<1>6. body \in Seq(Nat)
  BY <1>2, <1>5, ConcatProperties DEF body
<1> QED BY <1>6, LenProperties

\* Which newlines there are does not change.
LEMMA BodyUnchanged ==
  ASSUME UNCHANGED input
  PROVE  /\ body' = body
         /\ \A from, to : Newlines(from, to)' = Newlines(from, to)
BY DEF input, body, Newlines, ExceptionBlock

\* Two intervals without newlines that follow on each other
LEMMA NoNewlines ==
  ASSUME NEW from \in Nat, NEW mid \in Nat, NEW to \in Nat,
         Newlines(from, mid) = {}, Newlines(mid, to) = {}
  PROVE  Newlines(from, to) = {}
<1> SUFFICES ASSUME NEW p \in from..(to - 1), body[p + 1] = LF
             PROVE  FALSE
  BY DEF Newlines
<1>1. CASE p < mid
  <2>1. p \in from..(mid - 1)
    BY <1>1
  <2> QED BY <2>1 DEF Newlines
<1>2. CASE ~(p < mid)
  <2>1. p \in mid..(to - 1)
    BY <1>2
  <2> QED BY <2>1 DEF Newlines
<1> QED BY <1>1, <1>2

-----------------------------------------------------------------------------
(* Pieces and rows *)

\* A piece that begins where a chain ends continues it.
LEMMA ChainAppend ==
  ASSUME NEW s \in Pieces, NEW from \in Nat, NEW mid \in Nat, NEW to \in Nat,
         Chain(s, from, mid) \/ (s = <<>> /\ from = mid)
  PROVE  /\ Append(s, <<mid, to>>) \in Pieces
         /\ Append(s, <<mid, to>>) # <<>>
         /\ Chain(Append(s, <<mid, to>>), from, to)
<1> DEFINE t == Append(s, <<mid, to>>)
<1>1. <<mid, to>> \in Nat \X Nat
  OBVIOUS
<1>2. /\ t \in Pieces /\ t # <<>> /\ Len(t) = Len(s) + 1
      /\ \A i \in 1..Len(s) : t[i] = s[i]
      /\ t[Len(s) + 1] = <<mid, to>>
      /\ Len(s) \in Nat
  BY <1>1, AppendProperties, LenProperties DEF Pieces
<1> HIDE DEF t
<1>3. CASE s = <<>>
  <2>1. Len(s) = 0 /\ t[1] = <<mid, to>>
    BY <1>2, <1>3
  <2> QED BY <1>2, <2>1, <1>3 DEF Chain, t
<1>4. CASE s # <<>>
  <2>1. Len(s) >= 1
    BY <1>4, <1>2, EmptySeq DEF Pieces
  <2>2. Chain(s, from, mid)
    BY <1>4
  <2>3. t[1][1] = from
    BY <1>2, <2>1, <2>2 DEF Chain
  <2>4. \A k \in 2..Len(t) : t[k][1] = t[k - 1][2]
    <3> TAKE k \in 2..Len(t)
    <3>1. CASE k = Len(t)
      BY <3>1, <1>2, <2>1, <2>2 DEF Chain
    <3>2. CASE k # Len(t)
      <4>1. k \in 2..Len(s) /\ k \in 1..Len(s) /\ k - 1 \in 1..Len(s)
        BY <3>2, <1>2
      <4> QED BY <4>1, <1>2, <2>2 DEF Chain
    <3> QED BY <3>1, <3>2
  <2> QED BY <1>2, <2>3, <2>4 DEF Chain, t
<1> QED BY <1>3, <1>4

\* The end of a row is a position.
LEMMA RowEndType ==
  ASSUME NEW r \in RowSet, r.pieces # <<>>
  PROVE  RowEnd(r) \in Nat
<1>1. r.pieces \in Seq(Nat \X Nat)
  BY DEF RowSet, Pieces
<1>2. Len(r.pieces) \in 1..Len(r.pieces)
  BY <1>1, EmptySeq, LenProperties
<1>3. r.pieces[Len(r.pieces)] \in Nat \X Nat
  BY <1>1, <1>2, ElementOfSeq
<1> QED BY <1>3 DEF RowEnd

\* A line at the frontier keeps the rows lines and moves the frontier.
LEMMA LinesAppend ==
  ASSUME NEW s \in Seq(RowSet), NEW r \in RowSet,
         Lines(s), IsLine(r, Frontier(s))
  PROVE  Lines(Append(s, r)) /\ Frontier(Append(s, r)) = RowEnd(r) + 1
<1> DEFINE t == Append(s, r)
<1>1. /\ t \in Seq(RowSet) /\ t # <<>> /\ Len(t) = Len(s) + 1
      /\ \A i \in 1..Len(s) : t[i] = s[i]
      /\ t[Len(s) + 1] = r
      /\ Len(s) \in Nat /\ DOMAIN s = 1..Len(s) /\ DOMAIN t = 1..Len(t)
  BY AppendProperties, LenProperties
<1> HIDE DEF t
<1>2. ASSUME NEW i \in DOMAIN t
      PROVE  IsLine(t[i], IF i = 1 THEN 0 ELSE RowEnd(t[i - 1]) + 1)
  <2>1. CASE i = Len(t)
    <3>1. CASE s = <<>>
      BY <2>1, <3>1, <1>1 DEF Frontier
    <3>2. CASE s # <<>>
      <4>1. Len(s) >= 1
        BY <3>2, <1>1, EmptySeq
      <4>2. t[i - 1] = s[Len(s)] /\ i # 1 /\ t[i] = r
        BY <2>1, <4>1, <1>1
      <4> QED BY <4>2, <3>2 DEF Frontier
    <3> QED BY <3>1, <3>2
  <2>2. CASE i # Len(t)
    <3>1. i \in DOMAIN s /\ t[i] = s[i] /\ (i # 1 => t[i - 1] = s[i - 1])
      BY <2>2, <1>1
    <3> QED BY <3>1 DEF Lines
  <2> QED BY <2>1, <2>2
<1>3. Lines(t)
  BY <1>2 DEF Lines
<1>4. Frontier(t) = RowEnd(r) + 1
  BY <1>1 DEF Frontier
<1> QED BY <1>3, <1>4 DEF t

-----------------------------------------------------------------------------
(* The invariants *)

\* The rows of a chunk are pieced together from it and from what was left.
LEMMA RowIsLine ==
  ASSUME ShapeOK, SplitInv, stage = "splitting",
         NEW p, NextNewline(p)
  PROVE  /\ RowEndingAt(p) \in RowSet
         /\ IsLine(RowEndingAt(p), Frontier(all))
         /\ RowEnd(RowEndingAt(p)) = p
         /\ p \in (start + lastIdx)..(sent - 1)
<1> DEFINE r == RowEndingAt(p)
           mid == start + lastIdx
<1>1. /\ start \in Nat /\ sent \in Nat /\ lastIdx \in Nat
      /\ totalIncompleteLength \in Nat /\ incompleteChunks \in Pieces
      /\ Len(body) \in Nat
  BY BodyType DEF ShapeOK
<1>2. /\ p \in mid..(sent - 1) /\ body[p + 1] = LF
      /\ Newlines(mid, p) = {}
  BY <1>1 DEF NextNewline, Newlines
<1>3. p \in Nat /\ mid \in Nat /\ p \in Newlines(0, Len(body))
  BY <1>1, <1>2 DEF Newlines, SplitInv
<1>4. /\ Frontier(all) \in Nat
      /\ Chain(incompleteChunks, Frontier(all), mid)
            \/ (incompleteChunks = <<>> /\ Frontier(all) = mid)
      /\ r.size = p - Frontier(all)
      /\ p >= Frontier(all)
      /\ Newlines(Frontier(all), p) = {}
  <2>1. CASE CarriesNothing(mid)
    BY <2>1, <1>2, <1>1 DEF CarriesNothing, RowEndingAt
  <2>2. CASE lastIdx = 0 /\ Carries(start)
    <3>1. incompleteChunks # <<>> /\ mid = start
      BY <2>2, <1>1 DEF Carries, Chain
    <3>2. Newlines(Frontier(all), p) = {}
      <4>1. Frontier(all) \in Nat /\ Newlines(Frontier(all), start) = {}
        BY <2>2, <1>1 DEF Carries
      <4> QED BY <4>1, <3>1, <1>1, <1>2, <1>3, NoNewlines
    <3> QED BY <2>2, <3>1, <3>2, <1>1, <1>2 DEF Carries, RowEndingAt
  <2> QED BY <2>1, <2>2 DEF SplitInv
<1>5. /\ r.pieces = Append(incompleteChunks, <<mid, p>>)
      /\ r.pieces \in Pieces /\ r.pieces # <<>>
      /\ Chain(r.pieces, Frontier(all), p)
  BY <1>1, <1>3, <1>4, ChainAppend DEF RowEndingAt
<1>6. RowEnd(r) = p
  BY <1>5 DEF Chain, RowEnd
<1>7. r \in RowSet
  BY <1>3, <1>4, <1>5 DEF RowSet, RowEndingAt
<1> HIDE DEF r, mid
<1>8. IsLine(r, Frontier(all))
  BY <1>3, <1>4, <1>5, <1>6 DEF IsLine
<1> QED BY <1>2, <1>6, <1>7, <1>8 DEF r, mid

\* Every row that went into the stream is made of rows of the type.
LEMMA AllType ==
  ASSUME ShapeOK
  PROVE  delivered \in Seq(RowSet) /\ rows \in Seq(RowSet) /\ all \in Seq(RowSet)
BY ConcatProperties DEF ShapeOK, Rows, RowSet, all

LEMMA ShapeStep ==
  ASSUME ShapeOK, SplitInv, [Next]_vars
  PROVE  ShapeOK'
<1> USE DEF input, chunkVars, carryVars
<1>0. /\ start \in Nat /\ sent \in Nat /\ lastIdx \in Nat /\ Len(body) \in Nat
      /\ totalIncompleteLength \in Nat /\ lastIdx <= sent - start
  BY BodyType DEF ShapeOK, SplitInv
<1>1. CASE Chunk
  <2>1. sent' \in Nat
    <3>1. sent' \in (sent + 1)..Len(body)
      BY <1>1 DEF Chunk
    <3> QED BY <3>1, <1>0
  <2>2. rows' \in Rows
    BY <1>1, EmptySeq DEF Chunk, Rows
  <2> QED BY <1>1, <2>1, <2>2 DEF Chunk, ShapeOK
<1>2. CASE Row
  <2>1. PICK p : NextNewline(p) /\ rows' = Append(rows, RowEndingAt(p))
                 /\ lastIdx' = p - start + 1
    BY <1>2 DEF Row
  <2>2. stage = "splitting"
    BY <1>2 DEF Row
  <2>3. rows' \in Rows
    BY <2>1, <2>2, RowIsLine, AllType, AppendProperties DEF Rows, RowSet
  <2>4. lastIdx' \in Nat
    <3>1. p \in (start + lastIdx)..(sent - 1)
      BY <2>1, <2>2, RowIsLine
    <3> QED BY <1>0, <2>1, <3>1
  <2>5. incompleteChunks' \in Pieces /\ totalIncompleteLength' \in Nat
    BY <1>2, EmptySeq DEF Row, CarryReset, Pieces
  <2> QED BY <1>2, <2>3, <2>4, <2>5 DEF Row, ShapeOK
<1>3. CASE Exception
  BY <1>3 DEF Exception, Extract, ShapeOK
<1>4. CASE ChunkDone
  <2>1. incompleteChunks' \in Pieces
    <3>1. <<start + lastIdx, sent>> \in Nat \X Nat
      BY <1>0
    <3> QED BY <1>4, <3>1, AppendProperties DEF ChunkDone, Pieces, ShapeOK
  <2>2. totalIncompleteLength' \in Nat
    BY <1>0, <1>4 DEF ChunkDone
  <2>3. delivered' \in Rows /\ rows' \in Rows
    BY <1>4, AllType, EmptySeq DEF ChunkDone, Enqueued, all, Rows, RowSet
  <2> QED BY <1>4, <2>1, <2>2, <2>3 DEF ChunkDone, ShapeOK
<1>5. CASE End
  BY <1>5 DEF End, ShapeOK
<1>6. CASE Cut
  BY <1>6 DEF Cut, ShapeOK
<1>7. CASE UNCHANGED vars
  BY <1>7 DEF vars, ShapeOK
<1> QED BY <1>1, <1>2, <1>3, <1>4, <1>5, <1>6, <1>7 DEF Next

\* A row leaves its line behind, nothing carried, the position after it.
LEMMA RowSplits ==
  ASSUME ShapeOK, SplitInv, Row
  PROVE  SplitInv'
<1>1. PICK p : /\ NextNewline(p) /\ rows' = Append(rows, RowEndingAt(p))
               /\ lastIdx' = p - start + 1
  BY DEF Row
<1>2. /\ stage = "splitting" /\ stage' = "splitting"
      /\ delivered' = delivered /\ start' = start /\ sent' = sent
      /\ incompleteChunks' = <<>> /\ totalIncompleteLength' = 0
      /\ body' = body
      /\ \A from, to : Newlines(from, to)' = Newlines(from, to)
  BY BodyUnchanged DEF Row, CarryReset, chunkVars
<1> DEFINE r == RowEndingAt(p)
<1>3. /\ r \in RowSet /\ IsLine(r, Frontier(all)) /\ RowEnd(r) = p
      /\ p \in (start + lastIdx)..(sent - 1)
  BY <1>1, <1>2, RowIsLine
<1> HIDE DEF r
<1>4. all' = Append(all, r)
  BY <1>1, <1>2, <1>3, AllType, AppendIsConcat, AppendProperties,
     ConcatAssociative DEF all, r
<1>5. Lines(Append(all, r)) /\ Frontier(Append(all, r)) = p + 1
  BY <1>3, AllType, LinesAppend DEF SplitInv
<1>6. Lines(all)' /\ Frontier(all)' = Frontier(all')
  BY <1>2, <1>4, <1>5 DEF Lines, IsLine, Frontier
<1>7. start \in Nat /\ sent \in Nat /\ lastIdx \in Nat /\ Len(body) \in Nat
  BY BodyType DEF ShapeOK
<1>8. CarriesNothing(start + lastIdx)'
  BY <1>1, <1>2, <1>3, <1>4, <1>5, <1>6, <1>7 DEF CarriesNothing
<1> QED BY <1>1, <1>2, <1>3, <1>6, <1>7, <1>8 DEF SplitInv

\* When no line is left in the chunk, what is carried reaches its end.
LEMMA ChunkDoneSplits ==
  ASSUME ShapeOK, SplitInv, ChunkDone
  PROVE  SplitInv'
<1> DEFINE mid == start + lastIdx
<1>1. /\ start \in Nat /\ sent \in Nat /\ lastIdx \in Nat /\ Len(body) \in Nat
      /\ totalIncompleteLength \in Nat /\ lastIdx <= sent - start
      /\ incompleteChunks \in Pieces
  BY BodyType DEF ShapeOK, SplitInv
<1>2. /\ stage = "splitting" /\ stage' = "waiting" /\ rows' = <<>>
      /\ delivered' = delivered \o rows /\ start' = start /\ sent' = sent
      /\ lastIdx' = lastIdx
      /\ incompleteChunks' = Append(incompleteChunks, <<mid, sent>>)
      /\ totalIncompleteLength' = totalIncompleteLength + sent - mid
      /\ Newlines(mid, sent) = {}
      /\ body' = body
      /\ \A from, to : Newlines(from, to)' = Newlines(from, to)
  BY BodyUnchanged DEF ChunkDone, Enqueued, chunkVars
<1>3. all' = all
  BY <1>2, AllType, ConcatEmptySeq DEF all
<1>4. Lines(all)' /\ Frontier(all)' = Frontier(all)
  BY <1>2, <1>3 DEF Lines, IsLine, Frontier, SplitInv
<1>5. /\ Frontier(all) \in 0..mid
      /\ Chain(incompleteChunks, Frontier(all), mid)
            \/ (incompleteChunks = <<>> /\ Frontier(all) = mid)
      /\ totalIncompleteLength = mid - Frontier(all)
      /\ Newlines(Frontier(all), mid) = {}
  <2>1. CASE CarriesNothing(mid)
    BY <2>1, <1>1 DEF CarriesNothing, Newlines
  <2>2. CASE lastIdx = 0 /\ Carries(start)
    <3>1. mid = start
      BY <2>2, <1>1
    <3> QED BY <2>2, <3>1 DEF Carries
  <2> QED BY <1>2, <2>1, <2>2 DEF SplitInv
<1>6. Chain(incompleteChunks, Frontier(all), sent)'
  <2>1. Frontier(all) \in Nat /\ mid \in Nat
    BY <1>1, <1>5
  <2>2. Chain(Append(incompleteChunks, <<mid, sent>>), Frontier(all), sent)
    BY <1>1, <1>5, <2>1, ChainAppend
  <2> QED BY <1>2, <1>4, <2>2 DEF Chain
<1>7. Newlines(Frontier(all), sent) = {}
  <2>1. Frontier(all) \in Nat /\ mid \in Nat
    BY <1>1, <1>5
  <2> QED BY <1>1, <1>2, <1>5, <2>1, NoNewlines
<1> HIDE DEF mid
<1>8. Carries(sent)'
  <2>1. totalIncompleteLength' = sent - Frontier(all) /\ Frontier(all) \in 0..sent
    BY <1>1, <1>2, <1>5 DEF mid
  <2>2. (Newlines(Frontier(all), sent) = {})'
    BY <1>2, <1>4, <1>7 DEF Newlines
  <2>3. (totalIncompleteLength = sent - Frontier(all) /\ Frontier(all) \in 0..sent)'
    BY <1>2, <1>4, <2>1
  <2> QED BY <1>6, <2>2, <2>3 DEF Carries
<1> QED BY <1>1, <1>2, <1>4, <1>8 DEF SplitInv

LEMMA ChunkSplits ==
  ASSUME ShapeOK, SplitInv, Chunk
  PROVE  SplitInv'
<1>1. /\ sent \in Nat /\ Len(body) \in Nat
      /\ sent' \in (sent + 1)..Len(body)
  BY BodyType DEF ShapeOK, Chunk
<1>2. /\ stage = "waiting" /\ stage' = "splitting" /\ rows = <<>> /\ rows' = <<>>
      /\ delivered' = delivered /\ start' = sent /\ lastIdx' = 0
      /\ incompleteChunks' = incompleteChunks
      /\ totalIncompleteLength' = totalIncompleteLength
      /\ body' = body
      /\ \A from, to : Newlines(from, to)' = Newlines(from, to)
  BY BodyUnchanged DEF Chunk, carryVars, SplitInv
<1>3. all' = all
  BY <1>2 DEF all
<1>4. Lines(all)' /\ Frontier(all)' = Frontier(all)
  BY <1>2, <1>3 DEF Lines, IsLine, Frontier, SplitInv
<1>7. start' <= sent' /\ (sent <= Len(body))' /\ lastIdx' <= sent' - start'
  <2>1. ASSUME NEW n \in Nat, NEW to \in (sent + 1)..n
        PROVE  to \in Nat /\ sent <= to /\ to <= n /\ 0 <= to - sent
    BY <1>1
  <2>2. sent' \in Nat /\ sent <= sent' /\ sent' <= Len(body) /\ 0 <= sent' - sent
    BY <1>1, <2>1
  <2> QED BY <1>2, <2>2
<1>5. CASE sent = 0 /\ CarriesNothing(0)
  <2>1. CarriesNothing(start + lastIdx)'
    BY <1>2, <1>4, <1>5 DEF CarriesNothing
  <2> QED BY <1>2, <1>4, <1>7, <2>1 DEF SplitInv
<1>6. CASE Carries(sent)
  <2>1. Carries(start)'
    <3>1. Chain(incompleteChunks, Frontier(all), start)'
      BY <1>2, <1>4, <1>6 DEF Carries, Chain
    <3>2. (Newlines(Frontier(all), start) = {})'
      BY <1>2, <1>4, <1>6 DEF Carries, Newlines
    <3>3. /\ totalIncompleteLength' = start' - Frontier(all)'
          /\ Frontier(all)' \in 0..start'
      BY <1>2, <1>4, <1>6 DEF Carries
    <3> QED BY <3>1, <3>2, <3>3 DEF Carries
  <2> QED BY <1>2, <1>4, <1>7, <2>1 DEF SplitInv
<1> QED BY <1>2, <1>5, <1>6 DEF SplitInv

\* The other steps leave the stream where it stopped.
LEMMA StopSplits ==
  ASSUME ShapeOK, SplitInv, Exception \/ End \/ Cut \/ UNCHANGED vars
  PROVE  SplitInv'
<1>1. /\ delivered' = delivered /\ rows' = rows /\ start' = start
      /\ sent' = sent /\ lastIdx' = lastIdx
      /\ incompleteChunks' = incompleteChunks
      /\ totalIncompleteLength' = totalIncompleteLength
      /\ body' = body
      /\ \A from, to : Newlines(from, to)' = Newlines(from, to)
      /\ stage' = stage \/ stage' \in {"errored", "stuck", "ended"}
  BY BodyUnchanged DEF Exception, Extract, End, Cut, vars, chunkVars, carryVars
<1>2. all' = all
  BY <1>1 DEF all
<1>3. Lines(all)' /\ Frontier(all)' = Frontier(all)
  BY <1>1, <1>2 DEF Lines, IsLine, Frontier, SplitInv
<1>4. \A to : Carries(to) => Carries(to)'
  BY <1>1, <1>3 DEF Carries, Chain
<1>5. \A to : CarriesNothing(to) => CarriesNothing(to)'
  BY <1>1, <1>3 DEF CarriesNothing
<1> QED BY <1>1, <1>3, <1>4, <1>5 DEF SplitInv

\* Of ResultSet.stream(), of both clients: whatever the body is and wherever
\* it is cut, rows, carry and position fit together.
THEOREM SplitInvariant == Spec => [](ShapeOK /\ SplitInv)
<1>1. Init => ShapeOK /\ SplitInv
  <2> SUFFICES ASSUME Init PROVE ShapeOK /\ SplitInv
    OBVIOUS
  <2>1. ShapeOK
    BY EmptySeq DEF Init, ShapeOK, Pieces, Rows
  <2>2. all = <<>> /\ DOMAIN all = {}
    BY ConcatEmptySeq, EmptySeq DEF Init, all, Rows
  <2>3. Lines(all) /\ Frontier(all) = 0
    BY <2>2 DEF Lines, Frontier
  <2> QED BY <2>1, <2>3, BodyType DEF Init, SplitInv, CarriesNothing
<1>2. ShapeOK /\ SplitInv /\ [Next]_vars => (ShapeOK /\ SplitInv)'
  BY ShapeStep, RowSplits, ChunkDoneSplits, ChunkSplits, StopSplits DEF Next
<1> QED BY <1>1, <1>2, PTL DEF Spec

\* The rows of a stream are the lines of the body, in order, without a gap or
\* an overlap, each in an array of its size.
THEOREM StreamsLines == Spec => []RowsAreLines
<1>1. SplitInv => RowsAreLines
  BY DEF SplitInv, Lines, RowsAreLines, all
<1> QED BY <1>1, SplitInvariant, PTL

-----------------------------------------------------------------------------
(* Exceptions that go unnoticed *)

\* The line ends of the exception protocol before a position were cut.
CutBefore(upTo) ==
    \A p \in 1..(upTo - 1) : body[p] = CR /\ body[p + 1] = LF => p \in cuts

NoticeInv ==
    tagged =>
        /\ stage \in {"waiting", "ended"} => CutBefore(sent)
        /\ stage = "splitting" => start \in cuts /\ CutBefore(start + lastIdx)
        /\ stage = "ended" => sent = Len(body)

LEMMA NoticeStep ==
  ASSUME ShapeOK, SplitInv, NoticeInv, [Next]_vars
  PROVE  NoticeInv'
<1>1. /\ start \in Nat /\ sent \in Nat /\ lastIdx \in Nat /\ Len(body) \in Nat
      /\ lastIdx <= sent - start
      /\ body' = body /\ tagged' = tagged
      /\ \A from, to : Newlines(from, to)' = Newlines(from, to)
  BY BodyType, BodyUnchanged
     DEF ShapeOK, SplitInv, Next, Chunk, Row, Exception, ChunkDone, End, Cut,
         vars, input
<1> SUFFICES ASSUME tagged PROVE NoticeInv'
  BY <1>1 DEF NoticeInv
<1>2. CASE Chunk
  <2>1. /\ start' = sent /\ lastIdx' = 0 /\ cuts' = cuts \cup {sent}
        /\ stage = "waiting" /\ stage' = "splitting"
    BY <1>2 DEF Chunk
  <2>2. CutBefore(sent)
    BY <2>1 DEF NoticeInv
  <2>3. start' \in cuts' /\ CutBefore(start + lastIdx)'
    BY <1>1, <2>1, <2>2 DEF CutBefore
  <2> QED BY <2>1, <2>3 DEF NoticeInv
<1>3. CASE Row
  <2>1. PICK p : NextNewline(p) /\ ~Announces(p) /\ lastIdx' = p - start + 1
    BY <1>3 DEF Row
  <2>2. /\ start' = start /\ cuts' = cuts
        /\ stage = "splitting" /\ stage' = "splitting"
    BY <1>3 DEF Row, chunkVars
  <2>3. p \in (start + lastIdx)..(sent - 1) /\ Newlines(start + lastIdx, p) = {}
    BY <1>1, <2>1 DEF NextNewline, Newlines
  <2>4. start \in cuts /\ CutBefore(start + lastIdx)
    BY <2>2 DEF NoticeInv
  <2>5. p = start \/ body[p] # CR
    BY <1>1, <2>1, <2>3 DEF Announces
  <2>6. CutBefore(p + 1)
    <3> SUFFICES ASSUME NEW q \in 1..p, body[q] = CR, body[q + 1] = LF
                 PROVE  q \in cuts
      BY <1>1, <2>3 DEF CutBefore
    <3>1. CASE q = p
      BY <3>1, <2>4, <2>5
    <3>2. CASE q # p
      <4>1. q < start + lastIdx
        <5>1. q \notin (start + lastIdx)..(p - 1)
          BY <2>3 DEF Newlines
        <5> QED BY <3>2, <5>1, <1>1, <2>3
      <4> QED BY <4>1, <1>1, <2>4 DEF CutBefore
    <3> QED BY <3>1, <3>2
  <2>7. (start + lastIdx)' = p + 1
    BY <1>1, <2>1, <2>2, <2>3
  <2> QED BY <1>1, <2>2, <2>4, <2>6, <2>7 DEF NoticeInv, CutBefore
<1>4. CASE Exception
  <2>1. stage' \in {"errored", "stuck"}
    BY <1>4 DEF Exception, Extract
  <2> QED BY <2>1 DEF NoticeInv
<1>5. CASE ChunkDone
  <2>1. /\ sent' = sent /\ cuts' = cuts
        /\ stage = "splitting" /\ stage' = "waiting"
        /\ Newlines(start + lastIdx, sent) = {}
    BY <1>5 DEF ChunkDone, chunkVars
  <2>2. CutBefore(start + lastIdx)
    BY <2>1 DEF NoticeInv
  <2>3. CutBefore(sent)
    <3> SUFFICES ASSUME NEW q \in 1..(sent - 1), body[q] = CR, body[q + 1] = LF
                 PROVE  q \in cuts
      BY DEF CutBefore
    <3>1. q \notin (start + lastIdx)..(sent - 1)
      BY <2>1 DEF Newlines
    <3>2. q \in 1..((start + lastIdx) - 1)
      BY <3>1, <1>1
    <3> QED BY <3>2, <2>2 DEF CutBefore
  <2> QED BY <1>1, <2>1, <2>3 DEF NoticeInv, CutBefore
<1>6. CASE End
  BY <1>1, <1>6 DEF End, NoticeInv, CutBefore, chunkVars
<1>7. CASE Cut
  BY <1>7 DEF Cut, NoticeInv
<1>8. CASE UNCHANGED vars
  BY <1>1, <1>8 DEF vars, chunkVars, NoticeInv, CutBefore
<1> QED BY <1>2, <1>3, <1>4, <1>5, <1>6, <1>7, <1>8 DEF Next

\* A tagged response with a line end of the exception protocol ends as a
\* success only if every such line end was cut between two chunks.
THEOREM NoticedUnlessSplit == Spec => []UnnoticedOnlyIfSplit
<1>1. Init => NoticeInv
  BY DEF Init, NoticeInv, CutBefore
<1>2. ShapeOK /\ SplitInv /\ NoticeInv /\ [Next]_vars => NoticeInv'
  BY NoticeStep
<1>3. NoticeInv => UnnoticedOnlyIfSplit
  BY DEF NoticeInv, CutBefore, UnnoticedOnlyIfSplit
<1> QED BY <1>1, <1>2, <1>3, SplitInvariant, PTL DEF Spec

-----------------------------------------------------------------------------
(* Rows that are handed out *)

LEMMA NewlinesFinite ==
  ASSUME NEW from \in Nat, NEW to \in Nat
  PROVE  IsFiniteSet(Newlines(from, to)) /\ Cardinality(Newlines(from, to)) \in Nat
<1>1. IsFiniteSet(from..(to - 1))
  BY FS_Interval
<1>2. Newlines(from, to) \in SUBSET (from..(to - 1))
  BY DEF Newlines
<1> QED BY <1>1, <1>2, FS_Subset, FS_CardinalityType

\* The next newline after a position is one more.
LEMMA OneMoreNewline ==
  ASSUME NEW mid \in Nat, NEW p \in Nat, mid <= p, body[p + 1] = LF,
         Newlines(mid, p) = {}
  PROVE  Cardinality(Newlines(0, p + 1)) = Cardinality(Newlines(0, mid)) + 1
<1>1. Newlines(0, p + 1) = Newlines(0, mid) \cup {p}
  <2>1. ASSUME NEW q \in Newlines(0, p + 1) PROVE q \in Newlines(0, mid) \cup {p}
    <3>1. q \in 0..p /\ body[q + 1] = LF
      BY <2>1 DEF Newlines
    <3>2. q \in mid..(p - 1) => FALSE
      BY <3>1 DEF Newlines
    <3>3. q = p \/ q \in 0..(mid - 1)
      BY <3>1, <3>2
    <3> QED BY <3>1, <3>3 DEF Newlines
  <2>2. ASSUME NEW q \in Newlines(0, mid) PROVE q \in Newlines(0, p + 1)
    BY <2>2 DEF Newlines
  <2>3. p \in Newlines(0, p + 1)
    BY DEF Newlines
  <2> QED BY <2>1, <2>2, <2>3
<1>2. p \notin Newlines(0, mid)
  BY DEF Newlines
<1> QED BY <1>1, <1>2, NewlinesFinite, FS_AddElement

\* An interval without newlines adds none.
LEMMA NoMoreNewlines ==
  ASSUME NEW mid \in Nat, NEW to \in Nat, mid <= to, Newlines(mid, to) = {}
  PROVE  Newlines(0, to) = Newlines(0, mid)
<1>1. ASSUME NEW q \in Newlines(0, to) PROVE q \in Newlines(0, mid)
  <2>1. q \in 0..(to - 1) /\ body[q + 1] = LF
    BY <1>1 DEF Newlines
  <2>2. q \in mid..(to - 1) => FALSE
    BY <2>1 DEF Newlines
  <2>3. q \in 0..(mid - 1)
    BY <2>1, <2>2
  <2> QED BY <2>1, <2>3 DEF Newlines
<1>2. ASSUME NEW q \in Newlines(0, mid) PROVE q \in Newlines(0, to)
  BY <1>2 DEF Newlines
<1> QED BY <1>1, <1>2

\* The rows of this chunk that wait in an array are the lines between what
\* was handed out and the position.
WithheldInv ==
    /\ NothingWithheld
    /\ failure = "network" => stage = "errored"
    /\ stage = "splitting" =>
          Len(delivered) + Len(rows) = Cardinality(Newlines(0, start + lastIdx))

LEMMA WithheldStep ==
  ASSUME ShapeOK, SplitInv, WithheldInv, [Next]_vars
  PROVE  WithheldInv'
<1>1. /\ start \in Nat /\ sent \in Nat /\ lastIdx \in Nat /\ Len(body) \in Nat
      /\ lastIdx <= sent - start
      /\ delivered \in Seq(RowSet) /\ rows \in Seq(RowSet)
  BY BodyType, AllType DEF ShapeOK, SplitInv
<1>2. Len(delivered) \in Nat /\ Len(rows) \in Nat
  BY <1>1, LenProperties
<1>3. \A from, to : Newlines(from, to)' = Newlines(from, to)
  BY BodyUnchanged
     DEF Next, Chunk, Row, Exception, ChunkDone, End, Cut, vars, input
<1>4. CASE Chunk
  <2>1. /\ stage = "waiting" /\ stage' = "splitting" /\ start' = sent /\ lastIdx' = 0
        /\ delivered' = delivered /\ rows' = <<>> /\ failure' = failure
    BY <1>4 DEF Chunk
  <2>2. Len(delivered) = Cardinality(Newlines(0, sent)) /\ failure # "network"
    BY <2>1 DEF WithheldInv, NothingWithheld
  <2>3. Len(rows') = 0 /\ start' + lastIdx' = sent
    BY <2>1, <1>1
  <2>4. Len(delivered') + Len(rows') = Cardinality(Newlines(0, sent))
    BY <2>1, <2>2, <2>3, <1>2
  <2>5. (Newlines(0, start) = Newlines(0, start + lastIdx))'
    BY <2>1, <1>1
  <2>6. Newlines(0, start + lastIdx)' = Newlines(0, sent)
    BY <1>3, <2>3 DEF Newlines
  <2> QED BY <2>1, <2>2, <2>4, <2>5, <2>6 DEF WithheldInv, NothingWithheld
<1>5. CASE Row
  <2>1. PICK p : NextNewline(p) /\ rows' = Append(rows, RowEndingAt(p))
                 /\ lastIdx' = p - start + 1
    BY <1>5 DEF Row
  <2>2. /\ stage = "splitting" /\ stage' = "splitting" /\ start' = start
        /\ delivered' = delivered /\ failure' = failure
    BY <1>5 DEF Row, chunkVars
  <2>3. p \in (start + lastIdx)..(sent - 1) /\ RowEndingAt(p) \in RowSet
    BY <2>1, <2>2, RowIsLine
  <2>4. body[p + 1] = LF /\ Newlines(start + lastIdx, p) = {}
    BY <1>1, <2>1, <2>3 DEF NextNewline, Newlines
  <2>5. p \in Nat /\ start + lastIdx \in Nat /\ start + lastIdx <= p
    BY <1>1, <2>3
  <2>6. Cardinality(Newlines(0, p + 1)) = Cardinality(Newlines(0, start + lastIdx)) + 1
    BY <2>4, <2>5, OneMoreNewline
  <2>7. Len(rows') = Len(rows) + 1
    BY <1>1, <2>1, <2>3, AppendProperties
  <2>8. start' + lastIdx' = p + 1
    BY <1>1, <2>1, <2>2, <2>5
  <2>9. Newlines(0, start + lastIdx)' = Newlines(0, p + 1)
    BY <1>3, <2>8 DEF Newlines
  <2>10. (Len(delivered) + Len(rows))' = Cardinality(Newlines(0, start + lastIdx))'
    <3>1. Len(delivered) + Len(rows) = Cardinality(Newlines(0, start + lastIdx))
      BY <2>2 DEF WithheldInv
    <3> QED BY <1>2, <2>2, <2>6, <2>7, <2>9, <3>1
  <2>11. NothingWithheld'
    <3>1. Len(delivered) = Cardinality(Newlines(0, start)) /\ failure # "network"
      BY <2>2 DEF WithheldInv, NothingWithheld
    <3> QED BY <1>3, <2>2, <3>1 DEF NothingWithheld
  <2> QED BY <2>2, <2>10, <2>11 DEF WithheldInv
<1>6. CASE Exception
  <2>1. /\ stage = "splitting" /\ stage' \in {"errored", "stuck"} /\ start' = start
        /\ delivered' = delivered
        /\ failure' \in {failure, "malformed", "no length", "server"}
    BY <1>6 DEF Exception, Extract, chunkVars
  <2>2. Len(delivered) = Cardinality(Newlines(0, start)) /\ failure # "network"
    BY <2>1 DEF WithheldInv, NothingWithheld
  <2> QED BY <1>3, <2>1, <2>2 DEF WithheldInv, NothingWithheld
<1>7. CASE ChunkDone
  <2>1. /\ stage = "splitting" /\ stage' = "waiting" /\ sent' = sent
        /\ delivered' = delivered \o rows /\ failure' = failure
        /\ Newlines(start + lastIdx, sent) = {}
    BY <1>7 DEF ChunkDone, Enqueued, chunkVars
  <2>2. Len(delivered') = Len(delivered) + Len(rows)
    BY <1>1, <2>1, ConcatProperties
  <2>3. start + lastIdx \in Nat /\ start + lastIdx <= sent
    BY <1>1
  <2>4. Newlines(0, sent) = Newlines(0, start + lastIdx)
    BY <1>1, <2>1, <2>3, NoMoreNewlines
  <2>5. Len(delivered') = Cardinality(Newlines(0, sent)) /\ failure # "network"
    BY <2>1, <2>2, <2>4 DEF WithheldInv
  <2> QED BY <1>3, <2>1, <2>5 DEF WithheldInv, NothingWithheld
<1>8. CASE End \/ Cut
  <2>1. /\ stage = "waiting" /\ sent' = sent /\ delivered' = delivered
        /\ \/ stage' = "ended" /\ failure' = failure
           \/ stage' = "errored" /\ failure' = "network"
    BY <1>8 DEF End, Cut, chunkVars
  <2>2. Len(delivered) = Cardinality(Newlines(0, sent)) /\ failure # "network"
    BY <2>1 DEF WithheldInv, NothingWithheld
  <2> QED BY <1>3, <2>1, <2>2 DEF WithheldInv, NothingWithheld
<1>9. CASE UNCHANGED vars
  <2>1. /\ stage' = stage /\ start' = start /\ sent' = sent /\ lastIdx' = lastIdx
        /\ delivered' = delivered /\ rows' = rows /\ failure' = failure
    BY <1>9 DEF vars, chunkVars
  <2> QED BY <1>3, <2>1 DEF WithheldInv, NothingWithheld
<1> QED BY <1>4, <1>5, <1>6, <1>7, <1>8, <1>9 DEF Next

\* Every row is handed out with the chunk that completes it, and an exception
\* drops the rows of its own chunk and no others.
THEOREM RowsNotWithheld == Spec => []NothingWithheld
<1>1. Init => WithheldInv
  <2> SUFFICES ASSUME Init PROVE WithheldInv
    OBVIOUS
  <2>1. Newlines(0, 0) = {}
    BY DEF Newlines
  <2>2. Len(delivered) = 0 /\ sent = 0 /\ stage = "waiting" /\ failure = "none"
    BY DEF Init
  <2> QED BY <2>1, <2>2, FS_EmptySet DEF WithheldInv, NothingWithheld
<1>2. ShapeOK /\ SplitInv /\ WithheldInv /\ [Next]_vars => WithheldInv'
  BY WithheldStep
<1>3. WithheldInv => NothingWithheld
  BY DEF WithheldInv
<1> QED BY <1>1, <1>2, <1>3, SplitInvariant, PTL DEF Spec

-----------------------------------------------------------------------------
(* Exceptions that arrive in one chunk *)

LEMMA Parts ==
  ASSUME NEW s \in Seq(Nat), NEW t \in Seq(Nat)
  PROVE  /\ s \o t \in Seq(Nat)
         /\ Len(s) \in Nat /\ Len(t) \in Nat /\ Len(s \o t) = Len(s) + Len(t)
         /\ \A i \in 1..Len(s) : (s \o t)[i] = s[i]
         /\ \A i \in 1..Len(t) : (s \o t)[Len(s) + i] = t[i]
<1>1. Len(s) \in Nat /\ Len(t) \in Nat
  BY LenProperties
<1>2. /\ s \o t \in Seq(Nat) /\ Len(s \o t) = Len(s) + Len(t)
      /\ \A i \in 1..Len(s) + Len(t) :
            (s \o t)[i] = IF i <= Len(s) THEN s[i] ELSE t[i - Len(s)]
  BY ConcatProperties
<1>3. \A i \in 1..Len(s) : i \in 1..Len(s) + Len(t) /\ i <= Len(s)
  BY <1>1
<1>4. \A i \in 1..Len(t) : /\ Len(s) + i \in 1..Len(s) + Len(t)
                           /\ ~(Len(s) + i <= Len(s)) /\ (Len(s) + i) - Len(s) = i
  BY <1>1
<1> QED BY <1>1, <1>2, <1>3, <1>4

\* Where the parts of an exception are in the body
LEMMA BlockInBody ==
  ASSUME ShapeOK, boom # <<>>
  PROVE  /\ Len(data) \in Nat /\ Len(boom) \in 1..8
         /\ Len(body) = Len(data) + Len(boom) + 16
         /\ body[Len(data) + 1] = CR /\ body[Len(data) + 2] = LF
         /\ \A i \in 1..Len(boom) : body[Len(data) + 7 + i] = boom[i]
         /\ body[Len(data) + Len(boom) + 8] = LF
         /\ body[Len(data) + Len(boom) + 9] = Zero + Len(boom) + 1
<1> DEFINE A == <<CR, LF, Marker, CR, LF, Tag, LF>>
           B == <<LF, Zero + Len(boom) + 1, Space, Tag, CR, LF, Marker, CR, LF>>
           n == Len(data)
           m == Len(boom)
<1>1. data \in Seq(Nat) /\ boom \in Seq(Nat) /\ Len(boom) < 9
  <2>1. data \in Seq(0..255) /\ boom \in Seq(0..255) /\ Len(boom) < 9
    BY InputAssumption DEF ShapeOK
  <2>2. 0..255 \subseteq Nat
    OBVIOUS
  <2> QED BY <2>1, <2>2, SeqMonotonic
<1>2. n \in Nat /\ m \in 1..8
  <2>1. n \in Nat /\ m \in Nat
    BY <1>1, LenProperties
  <2>2. m # 0
    <3>1. boom \in Seq(Nat) /\ boom # <<>>
      BY <1>1
    <3> QED BY <3>1, EmptySeq
  <2>3. m < 9
    BY <1>1
  <2> HIDE DEF n, m
  <2> QED BY <2>1, <2>2, <2>3
<1>3. A \in Seq(Nat) /\ Len(A) = 7 /\ A[1] = CR /\ A[2] = LF
  <2>1. Len(A) = 7 /\ A[1] = CR /\ A[2] = LF
    OBVIOUS
  <2> QED BY <2>1, SevenAndNine DEF CR, LF, Marker, Tag
<1>4. B \in Seq(Nat) /\ Len(B) = 9 /\ B[1] = LF /\ B[2] = Zero + m + 1
  <2>1. Len(B) = 9 /\ B[1] = LF /\ B[2] = Zero + m + 1
    OBVIOUS
  <2>2. Zero + m + 1 \in Nat
    BY <1>2 DEF Zero
  <2> QED BY <2>1, <2>2, SevenAndNine DEF CR, LF, Marker, Tag, Space
<1> HIDE DEF A, B
<1>5. /\ A \o boom \in Seq(Nat) /\ Len(A \o boom) = 7 + m
      /\ (A \o boom)[1] = CR /\ (A \o boom)[2] = LF
      /\ \A i \in 1..m : (A \o boom)[7 + i] = boom[i]
  <2>1. /\ A \o boom \in Seq(Nat) /\ Len(A \o boom) = 7 + m
        /\ \A i \in 1..7 : (A \o boom)[i] = A[i]
        /\ \A i \in 1..m : (A \o boom)[7 + i] = boom[i]
    <3>1. /\ A \o boom \in Seq(Nat) /\ Len(A \o boom) = Len(A) + m
          /\ \A i \in 1..Len(A) : (A \o boom)[i] = A[i]
          /\ \A i \in 1..m : (A \o boom)[Len(A) + i] = boom[i]
      BY <1>1, <1>3, Parts
    <3> QED BY <1>3, <3>1
  <2>2. 1 \in 1..7 /\ 2 \in 1..7
    OBVIOUS
  <2> QED BY <1>3, <2>1, <2>2
<1> DEFINE block == (A \o boom) \o B
<1>6. /\ block \in Seq(Nat) /\ Len(block) = 16 + m
      /\ block[1] = CR /\ block[2] = LF
      /\ \A i \in 1..m : block[7 + i] = boom[i]
      /\ block[8 + m] = LF /\ block[9 + m] = Zero + m + 1
  <2>1. /\ block \in Seq(Nat) /\ Len(block) = (7 + m) + 9
        /\ \A i \in 1..(7 + m) : block[i] = (A \o boom)[i]
        /\ \A i \in 1..9 : block[(7 + m) + i] = B[i]
    <3> DEFINE C == A \o boom
    <3>1. C \in Seq(Nat) /\ Len(C) = 7 + m
      BY <1>5
    <3> HIDE DEF C
    <3>2. /\ C \o B \in Seq(Nat) /\ Len(C \o B) = Len(C) + Len(B)
          /\ \A i \in 1..Len(C) : (C \o B)[i] = C[i]
          /\ \A i \in 1..Len(B) : (C \o B)[Len(C) + i] = B[i]
      BY <1>4, <3>1, Parts
    <3> QED BY <1>4, <3>1, <3>2 DEF C
  <2>2. /\ 1 \in 1..(7 + m) /\ 2 \in 1..(7 + m) /\ \A i \in 1..m : 7 + i \in 1..(7 + m)
        /\ 1 \in 1..9 /\ 2 \in 1..9
        /\ (7 + m) + 1 = 8 + m /\ (7 + m) + 2 = 9 + m /\ (7 + m) + 9 = 16 + m
    BY <1>2
  <2> HIDE DEF block
  <2> QED BY <1>4, <1>5, <2>1, <2>2
<1>7. body = data \o block
  <2>1. A \o boom \o B = ExceptionBlock(boom)
    BY DEF A, B, ExceptionBlock
  <2> QED BY <2>1 DEF body
<1> HIDE DEF block
<1>8. /\ Len(body) = n + 16 + m
      /\ \A i \in 1..(16 + m) : body[n + i] = block[i]
  <2>1. /\ Len(data \o block) = n + (16 + m)
        /\ \A i \in 1..(16 + m) : (data \o block)[n + i] = block[i]
    <3>1. /\ Len(data \o block) = n + Len(block)
          /\ \A i \in 1..Len(block) : (data \o block)[n + i] = block[i]
      BY <1>1, <1>6, Parts
    <3>2. Len(block) = 16 + m
      BY <1>6
    <3> QED BY <3>1, <3>2
  <2> QED BY <1>2, <1>7, <2>1
<1>9. \A i \in 1..m : body[n + (7 + i)] = block[7 + i]
  BY <1>2, <1>8
<1>10. body[n + (8 + m)] = LF /\ body[n + (9 + m)] = Zero + m + 1
  BY <1>2, <1>6, <1>8
<1>11. /\ n + (8 + m) = n + m + 8 /\ n + (9 + m) = n + m + 9
       /\ \A i \in 1..m : n + (7 + i) = n + 7 + i
  BY <1>2
<1> QED BY <1>2, <1>6, <1>8, <1>9, <1>10, <1>11

\* The text "\n" and one digit
LEMMA LengthParsed ==
  ASSUME NEW d \in 1..9
  PROVE  ParseInt(<<LF, Zero + d>>) = d
<1> DEFINE text == <<LF, Zero + d>>
           dark == {i \in DOMAIN text : text[i] \notin WhiteSpace}
<1>1. dark = {2}
  BY DEF WhiteSpace, LF, CR, Space, Zero
<1>2. \E i \in dark : /\ \A j \in dark : i <= j
                      /\ text[i] \in Zero..(Zero + 9)
  BY <1>1 DEF Zero
<1>3. (CHOOSE i \in dark : \A j \in dark : i <= j) = 2
  BY <1>1
<1> HIDE DEF dark
<1>4. ParseInt(text) = text[2] - Zero
  BY <1>2, <1>3 DEF ParseInt, dark
<1> QED BY <1>4 DEF Zero

\* What is extracted from a chunk that ends in a message of m bytes, its
\* length and the end of the protocol.
LEMMA MessageExtracted ==
  ASSUME NEW chunk \in Seq(Nat), NEW m \in 1..8,
         Len(chunk) >= m + 16,
         chunk[Len(chunk) - 8] = LF,
         chunk[Len(chunk) - 7] = Zero + m + 1,
         Extract(chunk)
  PROVE  /\ stage' = "errored" /\ failure' = "server"
         /\ message' = SubSeq(chunk, Len(chunk) - 8 - m, Len(chunk) - 9)
<1> DEFINE hint == Len(chunk) - 7
           newlines == {i \in 0..(hint - 1) : chunk[i + 1] = LF}
           newline == CHOOSE i \in newlines : \A j \in newlines : j <= i
           errMsgLen == ParseInt(SubSeq(chunk, newline + 1, hint))
<1>0. bytesCountAfterErrLenHint = 7
  BY DEF bytesCountAfterErrLenHint, MarkerLength, TagLength
<1>1. Len(chunk) \in Nat /\ hint \in Nat /\ hint >= m + 9
  <2>1. Len(chunk) \in Nat
    BY LenProperties
  <2> QED BY <2>1
<1>a. /\ chunk[hint] = Zero + m + 1 /\ chunk[hint - 1] = LF
      /\ hint = Len(chunk) - 7 /\ hint - 1 = Len(chunk) - 8
  <2>1. hint - 1 = Len(chunk) - 8
    BY <1>1
  <2> QED BY <2>1
<1> HIDE DEF hint
<1>2. hint - 2 \in newlines
  <2>1. hint - 2 \in 0..(hint - 1) /\ (hint - 2) + 1 = hint - 1
    BY <1>1
  <2> QED BY <1>a, <2>1
<1>3. \A j \in newlines : j <= hint - 2
  <2> SUFFICES ASSUME NEW j \in newlines PROVE j <= hint - 2
    OBVIOUS
  <2>1. j \in 0..(hint - 1) /\ chunk[j + 1] = LF
    OBVIOUS
  <2>2. j # hint - 1
    <3>1. (hint - 1) + 1 = hint
      BY <1>1
    <3>2. Zero + m + 1 # LF
      BY DEF Zero, LF
    <3> QED BY <1>a, <2>1, <3>1, <3>2
  <2> HIDE DEF newlines
  <2> QED BY <1>1, <2>1, <2>2
<1>4. newline = hint - 2
  <2>0. newlines \subseteq Int
    BY <1>1
  <2> HIDE DEF newlines
  <2>1. newline \in newlines /\ \A j \in newlines : j <= newline
    BY <1>2, <1>3
  <2>2. newline >= hint - 2 /\ newline <= hint - 2
    BY <1>2, <1>3, <2>1
  <2>3. newline \in Int
    BY <2>0, <2>1
  <2> QED BY <2>2, <2>3, <1>1
<1>5. errMsgLen = m + 1
  <2> DEFINE text == SubSeq(chunk, hint - 1, hint)
  <2>1. /\ text \in Seq(Nat) /\ Len(text) = 2
        /\ text[1] = chunk[hint - 1] /\ text[2] = chunk[hint]
    <3>1. /\ hint - 1 \in Int /\ hint \in Int /\ hint - 1 <= hint
          /\ hint - (hint - 1) + 1 = 2
          /\ (hint - 1) + 1 - 1 = hint - 1 /\ (hint - 1) + 2 - 1 = hint
      BY <1>1
    <3>2. \A i \in (hint - 1)..hint : chunk[i] \in Nat
      <4>1. \A i \in (hint - 1)..hint : i \in 1..Len(chunk)
        BY <1>1, <1>a
      <4> QED BY <4>1, ElementOfSeq
    <3>3. /\ text \in Seq(Nat) /\ Len(text) = 2
          /\ \A i \in 1..(hint - (hint - 1) + 1) : text[i] = chunk[(hint - 1) + i - 1]
      BY <3>1, <3>2, SubSeqProperties
    <3>4. 1 \in 1..2 /\ 2 \in 1..2
      OBVIOUS
    <3> HIDE DEF text
    <3> QED BY <3>1, <3>3, <3>4
  <2> HIDE DEF text
  <2>2. text = <<LF, Zero + (m + 1)>>
    <3>1. text[1] = LF /\ text[2] = Zero + (m + 1)
      BY <1>a, <2>1 DEF Zero
    <3> QED BY <2>1, <3>1
  <2>3. ParseInt(text) = m + 1
    <3>1. m + 1 \in 1..9
      OBVIOUS
    <3> QED BY <2>2, <3>1, LengthParsed
  <2>4. (hint - 2) + 1 = hint - 1
    BY <1>1
  <2> QED BY <1>4, <2>3, <2>4 DEF text
<1>6. newlines # {}
  BY <1>2
<1>b. errMsgLen # 0 /\ ~(hint < 1)
  BY <1>1, <1>5
<1>7. /\ stage' = "errored" /\ failure' = "server"
      /\ message' = Text(chunk, newline, errMsgLen)
  BY <1>0, <1>b, <1>6 DEF Extract, hint
<1> HIDE DEF newlines, newline, errMsgLen
<1>8. Text(chunk, newline, errMsgLen) = SubSeq(chunk, Len(chunk) - 8 - m, Len(chunk) - 9)
  <2>1. /\ newline - errMsgLen + 1 = Len(chunk) - 9 - m
        /\ newline - errMsgLen + 1 >= 0
        /\ newline = Len(chunk) - 9
    BY <1>1, <1>a, <1>4, <1>5
  <2>2. Len(chunk) - 9 - m + 1 = Len(chunk) - 8 - m
    BY <1>1
  <2> QED BY <2>1, <2>2 DEF Text, Subarray
<1> QED BY <1>7, <1>8

\* The chunk that the whole exception is in yields the server's message.
LEMMA WholeBlock ==
  ASSUME ShapeOK, SplitInv, boom # <<>>, start <= Len(data), sent = Len(body),
         Extract(SubSeq(body, start + 1, sent))
  PROVE  stage' = "errored" /\ failure' = "server" /\ message' = boom
<1> DEFINE chunk == SubSeq(body, start + 1, sent)
           n == Len(data)
           m == Len(boom)
           k == Len(chunk)
<1>1. /\ start \in Nat /\ n \in Nat /\ m \in 1..8 /\ body \in Seq(Nat)
      /\ Len(body) = n + m + 16
  BY BodyType, BlockInBody DEF ShapeOK
<1>2. /\ chunk \in Seq(Nat) /\ k = n + m + 16 - start
      /\ \A i \in 1..k : chunk[i] = body[start + i]
  <2>1. \A i \in (start + 1)..sent : body[i] \in Nat
    BY <1>1, ElementOfSeq
  <2>2. start + 1 \in Int /\ sent \in Int /\ start + 1 <= sent
        /\ sent - (start + 1) + 1 = n + m + 16 - start
    BY <1>1
  <2>3. /\ chunk \in Seq(Nat) /\ k = n + m + 16 - start
        /\ \A i \in 1..(sent - (start + 1) + 1) : chunk[i] = body[(start + 1) + i - 1]
    BY <2>1, <2>2, SubSeqProperties
  <2>4. \A i \in 1..k : (start + 1) + i - 1 = start + i
    BY <1>1, <2>3
  <2> QED BY <2>2, <2>3, <2>4
<1> HIDE DEF chunk
<1>3. k >= m + 16 /\ k \in Nat
  BY <1>1, <1>2
<1>4. chunk[k - 8] = LF /\ chunk[k - 7] = Zero + m + 1
  <2>1. k - 8 \in 1..k /\ k - 7 \in 1..k
        /\ start + (k - 8) = n + m + 8 /\ start + (k - 7) = n + m + 9
    BY <1>1, <1>2, <1>3
  <2> QED BY <1>2, <2>1, BlockInBody
<1>5. /\ stage' = "errored" /\ failure' = "server"
      /\ message' = SubSeq(chunk, k - 8 - m, k - 9)
  BY <1>1, <1>2, <1>3, <1>4, MessageExtracted DEF chunk
<1>6. SubSeq(chunk, k - 8 - m, k - 9) = boom
  <2> DEFINE text == SubSeq(chunk, k - 8 - m, k - 9)
  <2>1. k - 8 - m \in Int /\ k - 9 \in Int /\ k - 8 - m <= k - 9
        /\ (k - 9) - (k - 8 - m) + 1 = m
    BY <1>1, <1>3
  <2>2. \A i \in (k - 8 - m)..(k - 9) : chunk[i] \in Nat
    <3>1. \A i \in (k - 8 - m)..(k - 9) : i \in 1..k
      BY <1>1, <1>3
    <3> QED BY <1>2, <3>1, ElementOfSeq
  <2>3. /\ text \in Seq(Nat) /\ Len(text) = m
        /\ \A i \in 1..((k - 9) - (k - 8 - m) + 1) : text[i] = chunk[(k - 8 - m) + i - 1]
    BY <2>1, <2>2, SubSeqProperties
  <2>4. \A i \in 1..m : /\ (k - 8 - m) + i - 1 \in 1..k
                        /\ start + ((k - 8 - m) + i - 1) = n + 7 + i
    <3>1. k = n + m + 16 - start /\ n - start >= 0
      BY <1>1, <1>2
    <3> HIDE DEF k, n, m
    <3> QED BY <1>1, <1>3, <3>1
  <2>5. \A i \in 1..m : text[i] = boom[i]
    BY <1>2, <2>1, <2>3, <2>4, BlockInBody
  <2>6. boom \in Seq(Nat)
    <3>1. boom \in Seq(0..255)
      BY InputAssumption DEF ShapeOK
    <3>2. 0..255 \subseteq Nat
      OBVIOUS
    <3> QED BY <3>1, <3>2, SeqMonotonic
  <2> HIDE DEF text
  <2>7. text = boom
    BY <2>3, <2>5, <2>6, SeqEqual
  <2> QED BY <2>7 DEF text
<1> QED BY <1>5, <1>6

\* The exception is in the chunk that is being split, or was the last.
Whole ==
    /\ tagged /\ boom # <<>>
    /\ start <= Len(data) /\ sent = Len(body)

\* The rows before the exception end before its first line end, so that the
\* transform comes to it.
WholeInv ==
    Whole =>
        /\ stage \in {"splitting", "errored"}
        /\ stage = "splitting" => start + lastIdx <= Len(data) + 1
        /\ stage = "errored" => failure = "server" /\ message = boom

LEMMA WholeStep ==
  ASSUME ShapeOK, SplitInv, WholeInv, [Next]_vars
  PROVE  WholeInv'
<1>1. /\ data' = data /\ boom' = boom /\ tagged' = tagged /\ body' = body
  BY BodyUnchanged
     DEF Next, Chunk, Row, Exception, ChunkDone, End, Cut, vars, input
<1> SUFFICES ASSUME Whole' PROVE WholeInv'
  BY DEF WholeInv
<1>2. /\ start \in Nat /\ sent \in Nat /\ lastIdx \in Nat
      /\ lastIdx <= sent - start /\ start <= sent
  BY DEF ShapeOK, SplitInv
<1>3. /\ tagged /\ boom # <<>> /\ Len(data) \in Nat /\ Len(boom) \in 1..8
      /\ Len(body) = Len(data) + Len(boom) + 16
      /\ body[Len(data) + 1] = CR /\ body[Len(data) + 2] = LF
  BY <1>1, BlockInBody DEF Whole
<1>4. ASSUME Whole, stage = "splitting"
      PROVE  Len(data) + 1 \in Newlines(start + lastIdx, sent)
  BY <1>2, <1>3, <1>4 DEF Whole, WholeInv, Newlines
<1>5. CASE Chunk
  <2>1. /\ stage' = "splitting" /\ lastIdx' = 0 /\ start' = sent
    BY <1>5 DEF Chunk
  <2>2. start' <= Len(data)
    BY <1>1 DEF Whole
  <2> QED BY <1>1, <1>2, <1>3, <2>1, <2>2 DEF WholeInv
<1>6. CASE Row
  <2>1. PICK p : NextNewline(p) /\ ~Announces(p) /\ lastIdx' = p - start + 1
    BY <1>6 DEF Row
  <2>2. /\ stage = "splitting" /\ stage' = "splitting" /\ start' = start /\ sent' = sent
    BY <1>6 DEF Row, chunkVars
  <2>3. Whole
    BY <1>1, <2>2 DEF Whole
  <2>4. p \in (start + lastIdx)..(sent - 1)
    BY <2>1, <2>2, RowIsLine
  <2>5. p <= Len(data) + 1
    BY <1>4, <2>1, <2>2, <2>3 DEF NextNewline
  <2>6. p # Len(data) + 1
    BY <1>2, <1>3, <2>1, <2>3 DEF Announces, Whole
  <2>7. start' + lastIdx' <= Len(data') + 1
    BY <1>1, <1>2, <1>3, <2>1, <2>2, <2>4, <2>5, <2>6
  <2> QED BY <2>2, <2>7 DEF WholeInv
<1>7. CASE Exception
  <2>1. /\ start' = start /\ sent' = sent
        /\ Extract(SubSeq(body, start + 1, sent))
    BY <1>7 DEF Exception, chunkVars
  <2>2. start <= Len(data) /\ sent = Len(body)
    BY <1>1, <2>1 DEF Whole
  <2>3. stage' = "errored" /\ failure' = "server" /\ message' = boom
    BY <1>3, <2>1, <2>2, WholeBlock
  <2> QED BY <1>1, <2>3 DEF WholeInv
<1>8. CASE ChunkDone
  <2>1. /\ stage = "splitting" /\ start' = start /\ sent' = sent
        /\ Newlines(start + lastIdx, sent) = {}
    BY <1>8 DEF ChunkDone, chunkVars
  <2>2. Whole
    BY <1>1, <2>1 DEF Whole
  <2> QED BY <1>4, <2>1, <2>2
<1>9. CASE End \/ Cut
  <2>1. stage = "waiting" /\ start' = start /\ sent' = sent
    BY <1>9 DEF End, Cut, chunkVars
  <2>2. Whole
    BY <1>1, <2>1 DEF Whole
  <2> QED BY <2>1, <2>2 DEF WholeInv
<1>10. CASE UNCHANGED vars
  <2>1. /\ stage' = stage /\ start' = start /\ sent' = sent /\ lastIdx' = lastIdx
        /\ failure' = failure /\ message' = message
    BY <1>10 DEF vars, chunkVars
  <2>2. Whole
    BY <1>1, <2>1 DEF Whole
  <2> QED BY <1>1, <2>1, <2>2 DEF WholeInv
<1> QED BY <1>5, <1>6, <1>7, <1>8, <1>9, <1>10 DEF Next

\* Whatever rows come before it in its chunk, an exception that arrives whole
\* in the last chunk is reported with exactly the server's message.
THEOREM WholeExceptionsReported == Spec => []WholeExceptionReported
<1>1. Init => WholeInv
  <2> SUFFICES ASSUME Init, Whole PROVE FALSE
    BY DEF WholeInv
  <2>1. ShapeOK
    BY EmptySeq DEF Init, ShapeOK, Pieces, Rows
  <2>2. Len(body) > 0
    BY <2>1, BlockInBody DEF Whole
  <2> QED BY <2>2 DEF Init, Whole
<1>2. ShapeOK /\ SplitInv /\ WholeInv /\ [Next]_vars => WholeInv'
  BY WholeStep
<1>3. WholeInv => WholeExceptionReported
  BY DEF WholeInv, Whole, WholeExceptionReported
<1> QED BY <1>1, <1>2, <1>3, SplitInvariant, PTL DEF Spec

=============================================================================
