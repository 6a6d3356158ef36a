---------------------------- MODULE QueryParams ----------------------------
(***************************************************************************)
(* How query parameters become text (formatQueryParams), and how the       *)
(* server, which knows the type of each, reads the text.                   *)
(*                                                                         *)
(* A text is a sequence of symbols: "tab" and "quote" name characters. The *)
(* server's side is external: it is the text format of ClickHouse, escapes *)
(* at the top level and quoted literals inside of arrays, tuples and maps. *)
(***************************************************************************)
EXTENDS RowBinaryScalars

\* Values of JavaScript beyond those of RowBinaryScalars
NaN == Value("NaN")
Infinity(sign) == [Value("Infinity") EXCEPT !.v = sign]
TupleParam(values) == [Value("TupleParam") EXCEPT !.items = values]
EntriesValue(pairs) == [Value("Map") EXCEPT !.items = pairs]     \* or a plain object
JSDate(second, millisecond) == [Value("JSDate") EXCEPT !.v = second, !.b = <<millisecond>>]
DateOnly(day) == [Value("DateOnly") EXCEPT !.v = day]

DigitSymbols == <<"0", "1", "2", "3", "4", "5", "6", "7", "8", "9">>
TextOfNumber(n) ==
    (IF n < 0 THEN <<"-">> ELSE <<>>)
        \o [i \in 1..Len(DigitsOf(Abs(n))) |-> DigitSymbols[DigitsOf(Abs(n))[i] + 1]]
PadZeros(text, n) ==
    IF Len(text) >= n THEN text ELSE [i \in 1..(n - Len(text)) |-> "0"] \o text

Escapes == [tab |-> "t", newline |-> "n", return |-> "r", quote |-> "quote",
            backslash |-> "backslash"]
Escaped(s) ==
    FlattenSeq([i \in 1..Len(s) |-> IF s[i] \in DOMAIN Escapes
                                    THEN <<"backslash", Escapes[s[i]]>> ELSE <<s[i]>>])

\* A Unix timestamp, with the milliseconds when there are any.  The sign of an
\* early date is padded like a digit.
FormatTimestamp(date) ==
    PadZeros(TextOfNumber(date.v), 10)
        \o (IF date.b[1] = 0 THEN <<>>
            ELSE <<".">> \o PadZeros(TextOfNumber(date.b[1]), 3))

Separated(texts) ==
    FlattenSeq([i \in 1..Len(texts) |-> IF i = 1 THEN texts[i] ELSE <<",">> \o texts[i]])

\* inside: in an array, a tuple or a map, where strings are quoted, NULL is a
\* keyword and a date keeps its day only
RECURSIVE Format(_, _)
Format(value, inside) ==
    LET Each(items) == Separated([i \in 1..Len(items) |-> Format(items[i], TRUE)])
    IN CASE value.t = "null" -> IF inside THEN <<"NULL">> ELSE <<"backslash", "N">>
         [] value.t = "NaN" -> <<"nan">>
         [] value.t = "Infinity" -> <<IF value.v > 0 THEN "+" ELSE "-", "inf">>
         [] value.t = "number" -> TextOfNumber(value.v)
         [] value.t = "boolean" ->
                IF inside THEN <<IF value.v = 1 THEN "TRUE" ELSE "FALSE">>
                ELSE <<DigitSymbols[value.v + 1]>>
         [] value.t = "string" ->
                IF inside THEN <<"quote">> \o Escaped(value.s) \o <<"quote">>
                ELSE Escaped(value.s)
         [] value.t = "list" -> <<"[">> \o Each(value.items) \o <<"]">>
         [] value.t = "JSDate" ->
                IF inside
                THEN <<"quote", "day">> \o TextOfNumber(value.v \div SecondsPerDay)
                         \o <<"quote">>
                ELSE FormatTimestamp(value)
         [] value.t = "TupleParam" -> <<"(">> \o Each(value.items) \o <<")">>
         [] value.t = "Map" ->
                <<"{">> \o Separated([i \in 1..Len(value.items) |->
                     Format(value.items[i].items[1], TRUE) \o <<":">>
                         \o Format(value.items[i].items[2], TRUE)]) \o <<"}">>
formatQueryParams(value) == Format(value, FALSE)

-----------------------------------------------------------------------------
(* The server.  A type is [name, of]; reading yields a value and the place   *)
(* after it, or fails at place 0.                                            *)

Type(name, of) == [name |-> name, of |-> of]
Taken(value, p) == [value |-> value, p |-> p]
Refusal == Taken(Null, 0)

\* The next n symbols, or as many as there are
Look(text, p, n) ==
    SelectSeq([i \in 1..n |-> IF p + i - 1 <= Len(text) THEN text[p + i - 1] ELSE ""],
              LAMBDA c : c # "")
\* The number of digits at p
DigitRun(text, p) ==
    LET stop == {i \in p..Len(text) : text[i] \notin Range(DigitSymbols)}
    IN  (IF stop = {} THEN Len(text) + 1 ELSE CHOOSE i \in stop : \A j \in stop : i <= j) - p
DigitValue(c) == (CHOOSE i \in 1..10 : DigitSymbols[i] = c) - 1
WholeAt(text, p) ==
    NumberOf([i \in 1..DigitRun(text, p) |-> DigitValue(text[p + i - 1])])
Sign(text, p) == IF p <= Len(text) /\ text[p] = "-" THEN 1 ELSE 0

ReadNumber(text, p) ==
    LET s == Sign(text, p)
        n == DigitRun(text, p + s)
        value == WholeAt(text, p + s)
    IN  IF n = 0 THEN Refusal
        ELSE Taken(Num(IF s = 1 THEN -value ELSE value), p + s + n)
ReadFloatText(text, p) ==
    CASE Look(text, p, 1) = <<"nan">> -> Taken(NaN, p + 1)
      [] Look(text, p, 2) = <<"+", "inf">> -> Taken(Infinity(1), p + 2)
      [] Look(text, p, 2) = <<"-", "inf">> -> Taken(Infinity(-1), p + 2)
      [] OTHER -> ReadNumber(text, p)

\* Seconds since 1970, and a fraction of three digits
ReadTimestamp(text, p) ==
    LET whole == ReadNumber(text, p)
        fraction == whole.p > 0 /\ Look(text, whole.p, 1) = <<".">>
    IN  CASE whole.p = 0 -> Refusal
          [] fraction -> IF DigitRun(text, whole.p + 1) # 3 THEN Refusal
                         ELSE Taken(JSDate(whole.value.v, WholeAt(text, whole.p + 1)),
                                    whole.p + 4)
          [] OTHER -> Taken(JSDate(whole.value.v, 0), whole.p)
ReadDay(text, p) ==
    LET day == ReadNumber(text, p + 2)
    IN  IF Look(text, p, 2) # <<"quote", "day">> \/ day.p = 0
           \/ Look(text, day.p, 1) # <<"quote">>
        THEN Refusal ELSE Taken(DateOnly(day.value.v), day.p + 1)

\* Characters up to the end of the text, or to a quote
RECURSIVE Unescape(_, _, _)
Unescape(text, p, s) ==
    CASE p > Len(text) \/ text[p] = "quote" -> Taken(Str(s), p)
      [] text[p] = "backslash" /\ p < Len(text) ->
            LET named == {c \in DOMAIN Escapes : Escapes[c] = text[p + 1]}
            IN  Unescape(text, p + 2, Append(s, IF named = {} THEN text[p + 1]
                                                ELSE CHOOSE c \in named : TRUE))
      [] text[p] \in {"tab", "newline"} -> Taken(Str(s), p)
      [] OTHER -> Unescape(text, p + 1, Append(s, text[p]))
ReadText(text, p, inside) ==
    LET r == Unescape(text, p + 1, <<>>)
    IN  IF ~inside THEN Unescape(text, p, <<>>)
        ELSE IF Look(text, p, 1) # <<"quote">> \/ Look(text, r.p, 1) # <<"quote">>
        THEN Refusal ELSE Taken(r.value, r.p + 1)

RECURSIVE ReadParam(_, _, _, _), ReadItems(_, _, _, _, _)
\* Items of the types, in turn, up to the closing bracket
ReadItems(types, text, p, close, items) ==
    LET type == types[(Len(items) % Len(types)) + 1]
        start == IF items = <<>> THEN p ELSE p + 1
        r == ReadParam(type, text, start, TRUE)
    IN  CASE p > Len(text) -> Refusal
          [] text[p] = close -> Taken(List(items), p + 1)
          [] items # <<>> /\ text[p] \notin {",", ":"} -> Refusal
          [] r.p = 0 -> Refusal
          [] OTHER -> ReadItems(types, text, r.p, close, Append(items, r.value))
Bracketed(open, close, types, text, p) ==
    IF Look(text, p, 1) # <<open>> THEN Refusal
    ELSE ReadItems(types, text, p + 1, close, <<>>)
\* Keys and values, alternating in a text, as pairs
PairsOf(items) ==
    [i \in 1..(Len(items) \div 2) |-> List(<<items[2 * i - 1], items[2 * i]>>)]
ReadParam(type, text, p, inside) ==
    LET word == Look(text, p, 1)
        nullAt == IF inside THEN word = <<"NULL">>
                  ELSE Look(text, p, 2) = <<"backslash", "N">>
        Made(r, With(_)) == IF r.p = 0 THEN r ELSE Taken(With(r.value.items), r.p)
    IN CASE type.name = "Nullable" /\ nullAt -> Taken(Null, IF inside THEN p + 1 ELSE p + 2)
         [] type.name = "Nullable" -> ReadParam(type.of[1], text, p, inside)
         [] type.name = "Int32" -> ReadNumber(text, p)
         [] type.name = "Float64" -> ReadFloatText(text, p)
         [] type.name = "Bool" -> IF word \in {<<"TRUE">>, <<"1">>} THEN Taken(Bool(1), p + 1)
                                  ELSE IF word \in {<<"FALSE">>, <<"0">>}
                                  THEN Taken(Bool(0), p + 1) ELSE Refusal
         [] type.name = "String" -> ReadText(text, p, inside)
         [] type.name = "DateTime64" ->
                IF inside THEN ReadDay(text, p) ELSE ReadTimestamp(text, p)
         [] type.name = "Array" -> Bracketed("[", "]", type.of, text, p)
         [] type.name = "Tuple" -> Made(Bracketed("(", ")", type.of, text, p), TupleParam)
         [] type.name = "Map" ->
                Made(Bracketed("{", "}", type.of, text, p), LAMBDA items : EntriesValue(PairsOf(items)))

\* What the server has of a parameter: all of the text must be a value.
ServerValue(type, text) ==
    LET r == ReadParam(type, text, 1, FALSE)
    IN  IF r.p = Len(text) + 1 THEN <<r.value>> ELSE <<>>

\* What it should have: a date in a container is its day.
RECURSIVE Meant(_, _)
Meant(value, inside) ==
    IF value.t = "JSDate" /\ inside THEN DateOnly(value.v \div SecondsPerDay)
    ELSE IF value.t = "Map"
    THEN [value EXCEPT !.items = [i \in 1..Len(@) |->
             List(<<Meant(@[i].items[1], TRUE), Meant(@[i].items[2], TRUE)>>)]]
    ELSE [value EXCEPT !.items = [i \in 1..Len(@) |-> Meant(@[i], TRUE)]]

=============================================================================
