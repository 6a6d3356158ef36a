---------------------------- MODULE ColumnTypes ----------------------------
(***************************************************************************)
(* client-common/src/parse/column_types.ts: the older parser of column     *)
(* types, which works on prefixes and slices of the text.                  *)
(*                                                                         *)
(* Texts are sequences of symbols, as in DataTypeParser.  A column type is *)
(* one record: type, a name or timezone, two numbers, the values of an     *)
(* enum and the types inside.  The guards on a minimal text length become  *)
(* "something is inside the parentheses".                                  *)
(***************************************************************************)
EXTENDS Integers, Sequences, SequencesExt

SimpleColumnTypes == {"Bool", "UInt8", "Int8", "UInt16", "Int16", "UInt32", "Int32",
    "UInt64", "Int64", "UInt128", "Int128", "UInt256", "Int256", "Float32",
    "Float64", "String", "UUID", "Date", "Date32", "IPv4", "IPv6"}

Column(type) ==
    [type |-> type, name |-> <<>>, n |-> 0, m |-> 0, values |-> {}, sub |-> <<>>]
Failed == Column("ColumnTypeParseError")

Digits == "0" :> 0 @@ "1" :> 1 @@ "2" :> 2 @@ "3" :> 3 @@ "5" :> 5 @@ "8" :> 8
          @@ "9" :> 9 @@ "10" :> 10 @@ "16" :> 16 @@ "18" :> 18 @@ "38" :> 38
          @@ "64" :> 64
IsNumber(text) == Len(text) = 1 /\ text[1] \in DOMAIN Digits
NumberIn(text) == Digits[text[1]]

Prefixed(text, word) == Len(text) >= 2 /\ text[1] = word /\ text[2] = "("
Inside(text) == SubSeq(text, 3, Len(text) - 1)          \* slice(prefix, -1)

-----------------------------------------------------------------------------
(* The parametric types                                                    *)

IntSize(precision) ==
    CASE precision > 38 -> 256 [] precision \in 19..38 -> 128
      [] precision \in 10..18 -> 64 [] OTHER -> 32
ParseDecimalType(text) ==
    LET in == Inside(text)
        split == Len(in) = 4 /\ in[2] = "," /\ in[3] = "space"
    IN  IF ~split \/ ~IsNumber(<<in[1]>>) \/ ~IsNumber(<<in[4]>>) THEN Failed
        ELSE LET precision == NumberIn(<<in[1]>>)
                 scale == NumberIn(<<in[4]>>)
             IN  IF precision < 1 \/ precision > 76 \/ scale > precision THEN Failed
                 ELSE [Column("Decimal") EXCEPT !.n = precision, !.m = scale,
                                                !.values = {IntSize(precision)}]

ParseDateTimeType(text) ==
    CASE text = <<"DateTime">> -> Column("DateTime")
      [] Prefixed(text, "DateTime") /\ Len(text) > 4 ->
            [Column("DateTime") EXCEPT !.name = SubSeq(text, 4, Len(text) - 2)]
      [] OTHER -> Failed

\* Only the first digit of the precision is looked at
ParseDateTime64Type(text) ==
    IF Len(text) < 4 \/ ~IsNumber(SubSeq(text, 3, 3)) THEN Failed
    ELSE [Column("DateTime64") EXCEPT
            !.n = IF text[3] \in {"10", "16", "18"} THEN 1 ELSE NumberIn(<<text[3]>>),
            !.name = IF Len(text) > 4 THEN SubSeq(text, 7, Len(text) - 2) ELSE <<>>]

ParseFixedStringType(text) ==
    IF ~IsNumber(Inside(text)) THEN Failed
    ELSE IF NumberIn(Inside(text)) < 1 THEN Failed
    ELSE [Column("FixedString") EXCEPT !.n = NumberIn(Inside(text))]

-----------------------------------------------------------------------------
(* Enums: names between quotes, where a backslash keeps the next symbol,    *)
(* and an index from four symbols behind the quote to the next non-digit   *)

Escapes == [n |-> "newline", t |-> "tab", r |-> "return"]
UnescapeEnumName(raw) ==
    LET from[i \in 1..(Len(raw) + 1)] ==
            CASE i > Len(raw) -> <<>>
              [] i < Len(raw) /\ raw[i] = "backslash" ->
                    <<IF raw[i + 1] \in DOMAIN Escapes THEN Escapes[raw[i + 1]]
                      ELSE raw[i + 1]>> \o from[i + 2]
              [] OTHER -> <<raw[i]>> \o from[i + 1]
    IN  from[1]

\* The index of the symbol that closes a name, or 0
ClosingQuote_Unescaped(in, start) ==
    LET quotes == {i \in start..Len(in) : in[i] = "quote"}
    IN  IF quotes = {} THEN 0 ELSE CHOOSE i \in quotes : \A j \in quotes : i <= j
ClosingQuote(in, start) ==
    LET from[i \in start..(Len(in) + 2)] ==
            CASE i > Len(in) -> 0
              [] i <= Len(in) /\ in[i] = "backslash" -> from[i + 2]
              [] i <= Len(in) /\ in[i] = "quote" -> i
              [] OTHER -> from[i + 1]
    IN  from[start]
\* The first symbol behind the index that is no digit; the symbol it starts
\* with is taken unseen
EndOfIndex(in, start) ==
    LET ends == {i \in (start + 1)..Len(in) : in[i] \notin DOMAIN Digits}
    IN  IF ends = {} THEN Len(in) + 1 ELSE CHOOSE i \in ends : \A j \in ends : i <= j

RECURSIVE EnumEntries(_, _, _)
EnumEntries(in, start, entries) ==
    LET Next(all, end) ==
            IF end > Len(in) THEN all ELSE EnumEntries(in, end + 3, all)
        Entry(name, index, end) ==
            IF /\ IsNumber(index)
               /\ \A e \in entries : e.name # name /\ e.value # NumberIn(index)
            THEN Next(entries \cup {[name |-> name, value |-> NumberIn(index)]}, end)
            ELSE {}
        Between(name, first, end) == Entry(name, SubSeq(in, first, end - 1), end)
        Closed(close) ==
            IF close = 0 THEN {}
            ELSE Between(UnescapeEnumName(SubSeq(in, start, close - 1)), close + 4,
                         EndOfIndex(in, close + 4))
    IN  Closed(ClosingQuote(in, start))

ParseEnumType(text) ==
    LET Of(entries) ==
            IF entries = {} THEN Failed
            ELSE [Column("Enum") EXCEPT !.values = entries,
                                        !.n = IF text[1] = "Enum8" THEN 8 ELSE 16]
    IN  IF Inside(text) = <<>> THEN Failed ELSE Of(EnumEntries(Inside(text), 2, {}))

-----------------------------------------------------------------------------
(* Types inside types                                                      *)

\* Split at the commas outside parentheses and quotes, skipping a space
RECURSIVE Elements(_, _, _, _, _, _)
Elements(in, i, start, open, quoted, found) ==
    LET c == in[i]
        Step(o, q) == Elements(in, i + 1, start, o, q, found)
    IN  CASE i > Len(in) ->
                IF open = 0 /\ start <= Len(in)
                THEN Append(found, SubSeq(in, start, Len(in))) ELSE found
          [] i <= Len(in) /\ c = "backslash" ->
                Elements(in, i + 2, start, open, quoted, found)
          [] i <= Len(in) /\ c = "quote" -> Step(open, ~quoted)
          [] i <= Len(in) /\ c = "(" /\ ~quoted -> Step(open + 1, quoted)
          [] i <= Len(in) /\ c = ")" /\ ~quoted -> Step(open - 1, quoted)
          [] i <= Len(in) /\ c = "," /\ ~quoted /\ open = 0 ->
                Elements(in, i + 3, i + 2, open, quoted,
                         Append(found, SubSeq(in, start, i - 1)))
          [] OTHER -> Step(open, quoted)
GetElementsTypes(in) == Elements(in, 1, 1, 0, FALSE, <<>>)

AsNullableType(column) ==
    IF column.type \in {"Array", "Map", "Tuple", "Nullable", Failed.type} THEN Failed
    ELSE [Column("Nullable") EXCEPT !.sub = <<column>>]

RECURSIVE ParseColumnType(_)
Composite(type, sub) ==
    IF \E i \in 1..Len(sub) : sub[i] = Failed THEN Failed
    ELSE [Column(type) EXCEPT !.sub = sub]

NotAMapKey == {"DateTime64", "Nullable", "Array", "Map", "Decimal", "Tuple"}
ParseMapType(text) ==
    LET Of(types) ==
            IF Len(types) < 2 \/ types[1].type \in NotAMapKey THEN Failed
            ELSE Composite("Map", SubSeq(types, 1, 2))
        Parsed(texts) == [i \in 1..Len(texts) |-> ParseColumnType(texts[i])]
    IN  Of(Parsed(GetElementsTypes(Inside(text))))

ParseTupleType(text) ==
    LET Of(types) == IF types = <<>> THEN Failed ELSE Composite("Tuple", types)
        Parsed(texts) == [i \in 1..Len(texts) |-> ParseColumnType(texts[i])]
    IN  Of(Parsed(GetElementsTypes(Inside(text))))

MaxDimensions == 10
RECURSIVE Unwrapped(_, _)
Unwrapped(text, dimensions) ==
    IF Prefixed(text, "Array") THEN Unwrapped(Inside(text), dimensions + 1)
    ELSE [text |-> text, dimensions |-> dimensions]
ParseArrayType(text) ==
    LET Of(value, dimensions) ==
            IF dimensions > MaxDimensions \/ value.type \in {"Array", Failed.type} THEN Failed
            ELSE [Column("Array") EXCEPT !.sub = <<value>>, !.n = dimensions]
        Parsed(core) == Of(ParseColumnType(core.text), core.dimensions)
    IN  Parsed(Unwrapped(text, 0))

ParseCore(core, word) ==
    CASE Len(core) = 1 /\ word \in SimpleColumnTypes ->
            [Column("Simple") EXCEPT !.name = core]
      [] Prefixed(core, "Decimal") -> ParseDecimalType(core)
      [] Prefixed(core, "DateTime64") -> ParseDateTime64Type(core)
      [] word \in {"DateTime", "DateTime32"} \/ core = <<"DateTime64">> ->
            ParseDateTimeType(core)
      [] Prefixed(core, "FixedString") -> ParseFixedStringType(core)
      [] Prefixed(core, "Enum8") \/ Prefixed(core, "Enum16") -> ParseEnumType(core)
      [] Prefixed(core, "Array") -> ParseArrayType(core)
      [] Prefixed(core, "Map") -> ParseMapType(core)
      [] Prefixed(core, "Tuple") -> ParseTupleType(core)
      [] OTHER -> Failed

\* LowCardinality, then Nullable, are taken off, in this order only
ParseColumnType(text) ==
    LET Parsed(core) == ParseCore(core, IF core = <<>> THEN "" ELSE core[1])
        Mapped(column, nullable) ==
            IF nullable THEN AsNullableType(column) ELSE column
        Plain(plain, nullable) ==
            Mapped(Parsed(IF nullable THEN Inside(plain) ELSE plain), nullable)
        Bare(plain) == Plain(plain, Prefixed(plain, "Nullable"))
    IN  Bare(IF Prefixed(text, "LowCardinality") THEN Inside(text) ELSE text)
=============================================================================
