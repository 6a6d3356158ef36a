-------------------------- MODULE RowBinaryScalars --------------------------
(***************************************************************************)
(* The scalar types of the RowBinary skill (skills/clickhouse-js-node-     *)
(* rowbinary): what the readers decode from the cursor's buffer and what   *)
(* the writers append to the sink.                                         *)
(*                                                                         *)
(* A buffer is a sequence of bytes and a cursor a number of bytes read.    *)
(* Reading yields a value and the new position, starves (NeedMoreData) or  *)
(* throws.  Values are records of one shape: t says which field counts,    *)
(* v a number, b bytes, s characters, items the values inside.             *)
(***************************************************************************)
EXTENDS Integers, Sequences, SequencesExt

Value(t) == [t |-> t, v |-> 0, b |-> <<>>, s |-> <<>>, items |-> <<>>]
Null == Value("null")
Num(n) == [Value("number") EXCEPT !.v = n]
Bool(n) == [Value("boolean") EXCEPT !.v = n]
Bytes(b) == [Value("bytes") EXCEPT !.b = b]
Float(b) == [Value("float") EXCEPT !.b = b]     \* IEEE 754, high byte first
Str(s) == [Value("string") EXCEPT !.s = s]
List(items) == [Value("list") EXCEPT !.items = items]
Date(day, second) == [Value("Date") EXCEPT !.v = day, !.b = <<second>>]

Got(value, p) == [status |-> "ok", value |-> value, pos |-> p]
NeedMoreData(p) == [status |-> "starved", value |-> Null, pos |-> p]
RangeError(p) == [status |-> "error", value |-> Null, pos |-> p]
Then(r, Next(_, _)) == IF r.status = "ok" THEN Next(r.value, r.pos) ELSE r

\* advance: the bounds check and the cursor in one place
Available(buf, p, n) == p + n <= Len(buf)
Advance(buf, p, n, Decode(_)) ==
    IF Available(buf, p, n) THEN Got(Decode(SubSeq(buf, p + 1, p + n)), p + n)
    ELSE NeedMoreData(p)

-----------------------------------------------------------------------------
(* Integers: little-endian, two's complement; the bigint types are two or   *)
(* four such words, low word first, the top one signed or not               *)

Unsigned == [UInt8 |-> 1, UInt16 |-> 2, UInt32 |-> 4, UInt64 |-> 8,
             UInt128 |-> 16, UInt256 |-> 32]
Signed == [Int8 |-> 1, Int16 |-> 2, Int32 |-> 4, Int64 |-> 8,
           Int128 |-> 16, Int256 |-> 32]

FromLE(b, signed) ==
    LET top == b[Len(b)]
    IN  FoldLeft(LAMBDA acc, byte : acc * 256 + byte,
                 IF signed /\ top >= 128 THEN top - 256 ELSE top,
                 Tail(Reverse(b)))

ToLE(n, width) ==
    LET shifted[i \in 0..width] == IF i = 0 THEN n ELSE shifted[i - 1] \div 256
    IN  [i \in 1..width |-> shifted[i - 1] % 256]

ReadUnsigned(width, buf, p) ==
    Advance(buf, p, width, LAMBDA b : Num(FromLE(b, FALSE)))
ReadSigned(width, buf, p) ==
    Advance(buf, p, width, LAMBDA b : Num(FromLE(b, TRUE)))
WriteInteger(width, value) == ToLE(value.v, width)

\* LEB128: seven bits a byte, low first.  The reader stops after eight bytes.
VarintLength(b) ==
    LET last == {i \in 1..Len(b) : b[i] < 128}
    IN  IF last = {} THEN Len(b) + 1 ELSE CHOOSE i \in last : \A j \in last : i <= j

ReadUVarint(buf, p) ==
    LET length == VarintLength(SubSeq(buf, p + 1, Len(buf)))
    IN  IF length >= 8 /\ p + 8 <= Len(buf) /\ buf[p + 8] > 15
        THEN RangeError(p + 8)
        ELSE Advance(buf, p, length, LAMBDA b :
                Num(FoldLeft(LAMBDA acc, byte : acc * 128 + (byte % 128), 0,
                             Reverse(b))))

WriteUVarint(n) ==
    LET groups[k \in Nat] == IF k < 128 THEN <<k>>
                             ELSE <<(k % 128) + 128>> \o groups[k \div 128]
    IN  groups[n]

ReadBool(buf, p) ==
    Then(ReadUnsigned(1, buf, p),
         LAMBDA n, q : Got(Bool(IF n.v # 0 THEN 1 ELSE 0), q))
WriteBool(value) == <<value.v>>

-----------------------------------------------------------------------------
(* Floats and decimals                                                     *)

Floats == [Float32 |-> 4, Float64 |-> 8]
ReadFloat(width, buf, p) == Advance(buf, p, width, LAMBDA b : Float(Reverse(b)))
WriteFloat(value) == Reverse(value.b)

\* The top half of a float32
ReadBFloat16(buf, p) ==
    Advance(buf, p, 2, LAMBDA b : Float(Reverse(b) \o <<0, 0>>))
WriteBFloat16(value) == Reverse(SubSeq(value.b, 1, 2))

DecimalWidths == [Decimal32 |-> 4, Decimal64 |-> 8, Decimal128 |-> 16,
                  Decimal256 |-> 32]
Scaled(unscaled, scale) == [Value("decimal") EXCEPT !.v = unscaled, !.b = <<scale>>]
ReadDecimal(width, scale, buf, p) ==
    Then(ReadSigned(width, buf, p), LAMBDA n, q : Got(Scaled(n.v, scale), q))
WriteDecimal(width, value) == ToLE(value.v, width)

Abs(n) == IF n < 0 THEN -n ELSE n
DigitsOf(n) ==
    LET digits[k \in Nat] == IF k < 10 THEN <<k>> ELSE Append(digits[k \div 10], k % 10)
    IN  digits[n]
NumberOf(digits) == FoldLeft(LAMBDA acc, d : acc * 10 + d, 0, digits)
PadStart(digits, n) ==
    IF Len(digits) >= n THEN digits ELSE [i \in 1..(n - Len(digits)) |-> 0] \o digits

\* A decimal text is its sign and the digits on each side of the point
FormatDecimal_Unpadded(value) ==
    LET digits == DigitsOf(Abs(value.v))
        point == Len(digits) - value.b[1]
    IN  [negative |-> value.v < 0, whole |-> SubSeq(digits, 1, point),
         fraction |-> SubSeq(digits, IF point < 0 THEN 1 ELSE point + 1, Len(digits))]
FormatDecimal(value) ==
    LET digits == PadStart(DigitsOf(Abs(value.v)), value.b[1] + 1)
        point == Len(digits) - value.b[1]
    IN  [negative |-> value.v < 0, whole |-> SubSeq(digits, 1, point),
         fraction |-> SubSeq(digits, point + 1, Len(digits))]

ParseDecimal(text, scale) ==
    LET fraction == SubSeq(text.fraction \o [i \in 1..scale |-> 0], 1, scale)
        unscaled == NumberOf((IF text.whole = <<>> THEN <<0>> ELSE text.whole)
                             \o fraction)
    IN  Scaled(IF text.negative THEN -unscaled ELSE unscaled, scale)

-----------------------------------------------------------------------------
(* Dates and times: a JS Date is its day and the second within it          *)

SecondsPerDay == 86400
DateAt(seconds) == Date(seconds \div SecondsPerDay, seconds % SecondsPerDay)
SecondsOf(date) == date.v * SecondsPerDay + date.b[1]

ReadDate(buf, p) ==
    Then(ReadUnsigned(2, buf, p), LAMBDA n, q : Got(Date(n.v, 0), q))
ReadDate32(buf, p) ==
    Then(ReadSigned(4, buf, p), LAMBDA n, q : Got(Date(n.v, 0), q))
WriteDate(width, value) == ToLE(value.v, width)
ReadDateTime(buf, p) ==
    Then(ReadUnsigned(4, buf, p), LAMBDA n, q : Got(DateAt(n.v), q))
WriteDateTime(value) == ToLE(SecondsOf(value), 4)

\* bigint division truncates towards zero, so an instant before 1970 needs
\* its fraction brought back into the second
Truncated(a, b) == IF a < 0 THEN -((-a) \div b) ELSE a \div b
DateTime64(date, nanoseconds) == List(<<date, Num(nanoseconds)>>)
Ticks_Truncated(ticks, precision, q) ==
    LET scale == 10 ^ precision
        second == Truncated(ticks, scale)
    IN  Got(DateTime64(DateAt(second),
                       (ticks - second * scale) * 10 ^ (9 - precision)), q)
Ticks(ticks, precision, q) ==
    LET scale == 10 ^ precision
        rest == ticks - Truncated(ticks, scale) * scale
        second == Truncated(ticks, scale) - (IF rest < 0 THEN 1 ELSE 0)
        fraction == IF rest < 0 THEN rest + scale ELSE rest
    IN  Got(DateTime64(DateAt(second), fraction * 10 ^ (9 - precision)), q)
ReadDateTime64(precision, buf, p) ==
    Then(ReadSigned(8, buf, p), LAMBDA n, q : Ticks(n.v, precision, q))
WriteDateTime64(precision, value) ==
    ToLE(SecondsOf(value.items[1]) * 10 ^ precision
         + value.items[2].v \div 10 ^ (9 - precision), 8)

ReadTime(buf, p) == ReadSigned(4, buf, p)
ReadTime64(precision, buf, p) ==
    Then(ReadSigned(8, buf, p), LAMBDA n, q : Got(Scaled(n.v, precision), q))

\* hh:mm:ss[.fraction] with a sign; the fraction is padded to the precision
FormatTime64(value) ==
    LET scale == 10 ^ value.b[1]
        total == Abs(value.v) \div scale
    IN  [negative |-> value.v < 0, hh |-> total \div 3600,
         mm |-> (total % 3600) \div 60, ss |-> total % 60,
         fraction |-> IF value.b[1] = 0 THEN <<>>
                      ELSE PadStart(DigitsOf(Abs(value.v) % scale), value.b[1])]
ParseTime64(text, precision) ==
    LET padded == text.fraction \o [i \in 1..precision |-> 0]
        ticks == (text.hh * 3600 + text.mm * 60 + text.ss) * 10 ^ precision
                 + NumberOf(SubSeq(padded, 1, precision))
    IN  Scaled(IF text.negative THEN -ticks ELSE ticks, precision)
FormatTime(value) == FormatTime64(Scaled(value.v, 0))
ParseTime(text) == Num(ParseTime64(text, 0).v)

-----------------------------------------------------------------------------
(* UUIDs and addresses                                                     *)

Read16(buf, p) == Advance(buf, p, 16, Bytes)
Write16(value) == IF Len(value.b) = 16 THEN value.b ELSE <<>>

\* The text has the high half first, each half high byte first; the wire has
\* each half low byte first
HalvesReversed(b) == Reverse(SubSeq(b, 1, 8)) \o Reverse(SubSeq(b, 9, 16))
Groups(hex) == << SubSeq(hex, 1, 4), SubSeq(hex, 5, 6), SubSeq(hex, 7, 8),
                  SubSeq(hex, 9, 10), SubSeq(hex, 11, 16) >>
FormatUUID(value) == Groups(HalvesReversed(value.b))
FormatUUIDTable(value) ==
    LET b(i) == value.b[i + 1]
    IN  << <<b(7), b(6), b(5), b(4)>>, <<b(3), b(2)>>, <<b(1), b(0)>>,
           <<b(15), b(14)>>, <<b(13), b(12), b(11), b(10), b(9), b(8)>> >>
ParseUUID(text) == Bytes(HalvesReversed(FlattenSeq(text)))

ReadIPv4(buf, p) == Advance(buf, p, 4, LAMBDA b : Bytes(Reverse(b)))
WriteIPv4(value) == Reverse(value.b)

\* An IPv6 text: what stands on each side of "::" (or all of it on the left),
\* a group as its number, a dotted quad as the two groups it stands for
MappedV4(b) == (\A i \in 1..10 : b[i] = 0) /\ b[11] = 255 /\ b[12] = 255
GroupsOf(b) == [i \in 1..8 |-> b[2 * i - 1] * 256 + b[2 * i]]
ZeroRuns(g) == {<<i, n>> \in (1..8) \X (2..8) :
                    i + n <= 9 /\ \A j \in i..(i + n - 1) : g[j] = 0}
FormatIPv6(value) ==
    LET g == GroupsOf(value.b)
        Best == CHOOSE r \in ZeroRuns(g) : \A s \in ZeroRuns(g) :
                    r[2] > s[2] \/ (r[2] = s[2] /\ r[1] <= s[1])
    IN  CASE MappedV4(value.b) ->
                [head |-> <<>>, gap |-> TRUE, tail |-> SubSeq(g, 6, 8)]
          [] ~MappedV4(value.b) /\ ZeroRuns(g) = {} ->
                [head |-> g, gap |-> FALSE, tail |-> <<>>]
          [] OTHER -> [head |-> SubSeq(g, 1, Best[1] - 1), gap |-> TRUE,
                       tail |-> SubSeq(g, Best[1] + Best[2], 8)]
ParseIPv6(text) ==
    LET zeros == 8 - Len(text.head) - Len(text.tail)
        g == IF text.gap
             THEN text.head \o [i \in 1..zeros |-> 0] \o text.tail ELSE text.head
    IN  Bytes(FlattenSeq([i \in 1..Len(g) |-> <<g[i] \div 256, g[i] % 256>>]))

-----------------------------------------------------------------------------
(* Strings and enums                                                       *)

\* The characters of the instances, and their bytes in UTF-8
Utf8 == "NUL" :> <<0>> @@ "a" :> <<97>> @@ "b" :> <<98>> @@ "1" :> <<49>>
        @@ "2" :> <<50>> @@ "quote" :> <<39>> @@ "e_acute" :> <<195, 169>>
Encode(chars) == FlattenSeq([i \in 1..Len(chars) |-> Utf8[chars[i]]])
Decode(b) ==
    LET CharAt(i) == CHOOSE c \in DOMAIN Utf8 :
                        SubSeq(b, i, i + Len(Utf8[c]) - 1) = Utf8[c]
        from[i \in 1..(Len(b) + 1)] ==
            IF i > Len(b) THEN <<>>
            ELSE <<CharAt(i)>> \o from[i + Len(Utf8[CharAt(i)])]
    IN  Str(from[1])

ReadString(buf, p) ==
    Then(ReadUVarint(buf, p), LAMBDA n, q : Advance(buf, q, n.v, Decode))
WriteString(value) ==
    LET b == Encode(value.s) IN WriteUVarint(Len(b)) \o b

\* Zero padding is part of what is read back
ReadFixedString(n, buf, p) == Advance(buf, p, n, Decode)
WriteFixedString(n, value) ==
    LET b == Encode(value.s) IN b \o [i \in 1..(n - Len(b)) |-> 0]

\* An enum value is its integer on the wire and its name once read, or the
\* integer as text when the type does not name it
EnumName(names, n) ==
    LET known == {i \in 1..Len(names) : names[i].value = n}
    IN  IF known = {} THEN [Value("unnamed") EXCEPT !.v = n]
        ELSE Str(names[CHOOSE i \in known : \A j \in known : j <= i].name)
ReadEnum(width, names, buf, p) ==
    Then(ReadSigned(width, buf, p), LAMBDA n, q : Got(EnumName(names, n.v), q))
WriteEnum(width, value) == ToLE(value.v, width)
=============================================================================
