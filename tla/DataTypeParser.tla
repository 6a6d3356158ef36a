--------------------------- MODULE DataTypeParser ---------------------------
(***************************************************************************)
(* packages/datatype-parser: the type strings of ClickHouse to an AST and  *)
(* to JSON.                                                                *)
(*                                                                         *)
(* A text is a sequence of symbols: punctuation, quotes, backslash and     *)
(* space are one symbol each, and so is a whole run of digits or of the    *)
(* characters of a word.  Names and literals are sequences of symbols.     *)
(* The recursive descent is written with recursive operators, each of      *)
(* which returns what it parsed (or Nil), where it stopped, and the hard   *)
(* error met so far.                                                       *)
(***************************************************************************)
EXTENDS Integers, Sequences, SequencesExt

Digits == {"0", "1", "2", "3", "5", "8", "9", "10", "16", "18", "38", "64"}
Single == [p \in {"(", ")", ",", "=", "-"} |->
    CASE p = "(" -> "OpeningParen" [] p = ")" -> "ClosingParen"
      [] p = "," -> "Comma" [] p = "=" -> "Equals" [] p = "-" -> "Minus"]
Space == "space"
Backslash == "backslash"
Quotes == {"quote", "backtick"}
Special == DOMAIN Single \cup Digits \cup Quotes \cup {Space, Backslash, ".", "?"}
IsWord(c) == c \notin Special

At(s, i) == IF i \in 1..Len(s) THEN s[i] ELSE ""

-----------------------------------------------------------------------------
(* lexer.ts                                                                *)

Token(type, text, isFloat, begin) ==
    [type |-> type, text |-> text, is_float |-> isFloat, begin |-> begin]

\* What a backslash makes of the symbol after it
Controls == [b |-> "backspace", f |-> "form feed", n |-> "newline",
             r |-> "return", t |-> "tab", a |-> "bell", v |-> "vertical tab"]
Escaped(c) == IF c \in DOMAIN Controls THEN Controls[c]
              ELSE IF c = "0" THEN "NUL" ELSE c

\* A quoted literal from its opening quote: a doubled quote is a quote, a
\* backslash keeps or translates the symbol after it
RECURSIVE Decode(_, _, _, _)
Decode(s, i, quote, out) ==
    LET c == At(s, i)
    IN  CASE i > Len(s) -> [ok |-> FALSE, out |-> out, next |-> i]
          [] c = quote /\ At(s, i + 1) = quote ->
                Decode(s, i + 2, quote, Append(out, quote))
          [] c = quote /\ At(s, i + 1) # quote ->
                [ok |-> TRUE, out |-> out, next |-> i + 1]
          [] c = Backslash /\ i = Len(s) ->
                [ok |-> FALSE, out |-> out, next |-> i]
          [] c = Backslash /\ i < Len(s) ->
                Decode(s, i + 2, quote, Append(out, Escaped(s[i + 1])))
          [] OTHER -> Decode(s, i + 1, quote, Append(out, c))

DecodeQuoted_FirstQuote(s, i, quote) ==
    LET ends == {j \in (i + 1)..Len(s) : s[j] = quote}
        end == CHOOSE j \in ends : \A k \in ends : j <= k
    IN  IF ends = {} THEN [ok |-> FALSE, out |-> <<>>, next |-> i]
        ELSE [ok |-> TRUE, out |-> SubSeq(s, i + 1, end - 1), next |-> end + 1]
DecodeQuoted(s, i, quote) == Decode(s, i + 1, quote, <<>>)

\* The end of a number: digits [. digits] [e [-] digits]
NumberEnd(s, i) ==
    LET Skip(j) == IF At(s, j) \in Digits THEN j + 1 ELSE j
        a == Skip(i)
        b == IF At(s, a) = "." THEN Skip(a + 1) ELSE a
    IN  IF At(s, b) = "e"
        THEN Skip(IF At(s, b + 1) = "-" THEN b + 2 ELSE b + 1)
        ELSE b

RECURSIVE Lex(_, _, _)
Lex(s, i, tokens) ==
    LET c == At(s, i)
        number == c \in Digits \/ (c = "." /\ At(s, i + 1) \in Digits)
        end == NumberEnd(s, i)
        text == SubSeq(s, i, end - 1)
        quoted == DecodeQuoted(s, i, c)
        With(t) == Append(tokens, t)
    IN  CASE i > Len(s) -> With(Token("End", <<>>, FALSE, i))
          [] c = Space -> Lex(s, i + 1, tokens)
          [] c \in DOMAIN Single ->
                Lex(s, i + 1, With(Token(Single[c], <<c>>, FALSE, i)))
          [] c = "." /\ ~number ->
                Lex(s, i + 1, With(Token("Dot", <<c>>, FALSE, i)))
          [] number ->
                Lex(s, end, With(Token("Number", text,
                    \E j \in 1..Len(text) : text[j] \in {".", "e"}, i)))
          [] c \in Quotes /\ quoted.ok ->
                Lex(s, quoted.next,
                    With(Token(IF c = "quote" THEN "String" ELSE "QuotedIdent",
                               quoted.out, FALSE, i)))
          [] c \in Quotes /\ ~quoted.ok ->
                With(Token("Error", <<>>, FALSE, i))
          [] IsWord(c) -> Lex(s, i + 1, With(Token("Word", <<c>>, FALSE, i)))
          [] OTHER -> With(Token("Error", <<>>, FALSE, i))

Tokenize(s) == Lex(s, 1, <<>>)

-----------------------------------------------------------------------------
(* ast.ts: one fat node type                                               *)

MakeNode(kind) ==
    [kind |-> kind, name |-> <<>>, arguments |-> <<>>,
     has_argument_list |-> FALSE, values |-> <<>>, element_names |-> <<>>,
     data_type |-> <<>>, value_type |-> "", value |-> <<>>,
     is_operator |-> FALSE]
Nil == MakeNode("Nil")

DataType(name) == [MakeNode("DataType") EXCEPT !.name = name]
Apply(name, args) ==
    [DataType(name) EXCEPT !.arguments = args, !.has_argument_list = TRUE]
Literal(type, value) ==
    [MakeNode("Literal") EXCEPT !.value_type = type, !.value = value]
EqualsNode(lhs, rhs) ==
    [MakeNode("Function") EXCEPT !.name = <<"equals">>, !.is_operator = TRUE,
                                 !.arguments = <<lhs, rhs>>]
NameTypePair(name, type) ==
    [MakeNode("NameTypePair") EXCEPT !.name = name, !.data_type = <<type>>]
Identifier(name) == [MakeNode("Identifier") EXCEPT !.name = name]
EnumNode(name, values) ==
    [MakeNode("EnumDataType") EXCEPT !.name = name, !.values = values]
TupleNode(args, names) ==
    [MakeNode("TupleDataType") EXCEPT
        !.name = <<"Tuple">>, !.arguments = args, !.has_argument_list = TRUE,
        !.element_names =
            IF \A i \in 1..Len(names) : names[i] = <<>> THEN <<>> ELSE names]

-----------------------------------------------------------------------------
(* parser.ts                                                               *)

\* toUpper, for the words of the instances that it changes
Upper(text) ==
    CASE text = <<"Enum8">> -> "ENUM8" [] text = <<"Enum16">> -> "ENUM16"
      [] text = <<"Enum">> -> "ENUM" [] text = <<"null">> -> "NULL"
      [] text = <<"Null">> -> "NULL" [] text = <<"int">> -> "INT"
      [] text = <<"signed">> -> "SIGNED" [] text = <<"unsigned">> -> "UNSIGNED"
      [] text = <<"double">> -> "DOUBLE" [] text = <<"char">> -> "CHAR"
      [] text = <<"precision">> -> "PRECISION"
      [] text = <<"UInt8">> -> "UINT8" [] text = <<"Int32">> -> "INT32"
      [] text = <<"Point">> -> "POINT"
      [] OTHER -> IF Len(text) = 1 THEN text[1] ELSE ""

HasInt == {"INT", "UINT8", "INT32", "POINT"}    \* u.indexOf("INT") !== -1
EnumNames == {"ENUM", "ENUM8", "ENUM16"}
\* What the parser of column declarations claims before the type
Keywords == {"NOT", "NULL", "DEFAULT", "MATERIALIZED", "EPHEMERAL", "ALIAS",
             "AUTO", "PRIMARY", "COMMENT", "CODEC"}

Got(node, pos, hard) == [node |-> node, pos |-> pos, hard |-> hard]
OrElse(r, Otherwise(_)) == IF r.node = Nil THEN Otherwise(r) ELSE r
Then(r, Next(_)) == IF r.node = Nil THEN r ELSE Next(r)
Type(ts, p) == IF p \in 1..Len(ts) THEN ts[p].type ELSE "End"
IsIdentifier(ts, p) == Type(ts, p) \in {"Word", "QuotedIdent"}
WordCharsOnly(text) == \A i \in 1..Len(text) : IsWord(text[i]) \/ text[i] \in Digits
\* The first hard error of a parse is the one that is reported
NoError == [message |-> "", position |-> 0]
SetHardError(hard, ts, p, message) ==
    IF hard # NoError THEN hard
    ELSE [message |-> message, position |-> ts[p].begin]

MatchWords(ts, p, words) ==
    \A i \in 1..Len(words) :
        /\ p + i - 1 <= Len(ts)
        /\ Type(ts, p + i - 1) = "Word"
        /\ Upper(ts[p + i - 1].text) = words[i]

\* The suffixes of multi-word SQL names, in the order they are tried
NameSuffixes(upper) ==
    CASE upper = "NATIONAL" ->
            << <<"CHARACTER", "LARGE", "OBJECT">>, <<"CHARACTER", "VARYING">>,
               <<"CHAR", "VARYING">>, <<"CHARACTER">>, <<"CHAR">> >>
      [] upper \in {"BINARY", "CHARACTER", "CHAR", "NCHAR"} ->
            << <<"LARGE", "OBJECT">>, <<"VARYING">> >>
      [] upper = "DOUBLE" -> << <<"PRECISION">> >>
      [] upper \in HasInt -> << <<"SIGNED">>, <<"UNSIGNED">> >>
      [] OTHER -> <<>>

\* A width in parentheses before SIGNED or UNSIGNED is skipped, and stays
\* skipped when neither follows
AfterWidth(ts, p) ==
    LET q == IF Type(ts, p + 1) = "Number" THEN p + 2 ELSE p + 1
    IN  IF Type(ts, p) = "OpeningParen" /\ Type(ts, q) = "ClosingParen"
        THEN q + 1 ELSE p

TypeNameSuffix(ts, p, upper) ==
    LET Found(q) == {i \in 1..Len(NameSuffixes(upper)) :
                        MatchWords(ts, q, NameSuffixes(upper)[i])}
        From(q) ==
            IF Found(q) = {} THEN [words |-> <<>>, pos |-> q]
            ELSE LET i == CHOOSE i \in Found(q) : \A j \in Found(q) : i <= j
                 IN  [words |-> NameSuffixes(upper)[i],
                      pos |-> q + Len(NameSuffixes(upper)[i])]
    IN  IF Found(p) = {} /\ upper \in HasInt THEN From(AfterWidth(ts, p))
        ELSE From(p)

SkipTrailingComma(ts, p) ==
    IF Type(ts, p) = "Comma" /\ Type(ts, p + 1) = "ClosingParen" THEN p + 1
    ELSE p

\* 'name' = value, ...: explicit values only
RECURSIVE EnumValues(_, _, _)
EnumValues(ts, p, values) ==
    LET q == IF values = <<>> THEN p ELSE p + 1
        n == IF Type(ts, q + 1) = "Equals" /\ Type(ts, q + 2) = "Minus"
             THEN q + 3 ELSE q + 2
        value == [name |-> ts[q].text,
                  value |-> (IF n = q + 3 THEN <<"-">> ELSE <<>>) \o ts[n].text]
    IN  IF values # <<>> /\ Type(ts, p) # "Comma"
        THEN [ok |-> TRUE, pos |-> p, values |-> values]
        ELSE IF /\ Type(ts, q) = "String"
                /\ Type(ts, q + 1) = "Equals"
                /\ Type(ts, n) = "Number" /\ ~ts[n].is_float
             THEN EnumValues(ts, n + 1, Append(values, value))
             ELSE [ok |-> FALSE, pos |-> p, values |-> <<>>]

\* \d+ with an optional fraction and exponent, or .\d+: an exponent that is
\* begun needs its digits, a fraction after an integer does not
FullyParsed(token) ==
    LET s == token.text
    IN  /\ s[Len(s)] \in Digits \cup {"."}
        /\ s[1] \in Digits \/ At(s, 2) \in Digits

NumberLiteral(ts, p, hard) ==
    LET negative == Type(ts, p) = "Minus"
        q == IF negative THEN p + 1 ELSE p
    IN  CASE Type(ts, q) # "Number" -> Got(Nil, q, hard)
          [] Type(ts, q) = "Number" /\ ~FullyParsed(ts[q]) ->
                Got(Nil, q, SetHardError(hard, ts, q, "malformed numeric literal"))
          [] OTHER ->
                Got(Literal(CASE ts[q].is_float -> "Float64"
                              [] negative /\ ~ts[q].is_float -> "Int64"
                              [] OTHER -> "UInt64",
                            (IF negative THEN <<"-">> ELSE <<>>) \o ts[q].text),
                    q + 1, hard)

ScalarLiteral(ts, p, hard) ==
    IF Type(ts, p) \in {"Number", "Minus"} THEN NumberLiteral(ts, p, hard)
    ELSE IF Type(ts, p) = "String"
         THEN Got(Literal("String", ts[p].text), p + 1, hard)
         ELSE Got(Nil, p, hard)

\* name = number
EqualsArgument(ts, p, hard) ==
    IF ~IsIdentifier(ts, p) THEN Got(Nil, p, hard)
    ELSE IF Type(ts, p + 1) # "Equals" THEN Got(Nil, p + 1, hard)
    ELSE Then(NumberLiteral(ts, p + 2, hard), LAMBDA number :
             [number EXCEPT !.node = EqualsNode(Identifier(ts[p].text), @)])

Unsupported == {<<"AggregateFunction">>, <<"SimpleAggregateFunction">>,
                <<"JSON">>, <<"json">>}

NotSupported == "not supported by this parser yet"

RECURSIVE ParseType(_, _, _), TupleElements(_, _, _, _, _), Arguments(_, _, _, _, _)

\* name Type
Pair(ts, p, hard) ==
    IF ~IsIdentifier(ts, p) THEN Got(Nil, p, hard)
    ELSE Then(ParseType(ts, p + 1, hard), LAMBDA type :
             [type EXCEPT !.node = NameTypePair(ts[p].text, @)])

PairOrType(ts, p, hard) ==
    OrElse(Pair(ts, p, hard), LAMBDA pair : ParseType(ts, p, pair.hard))

\* A literal, literal = literal, or a type.  A literal that failed half way
\* leaves the position where it failed.
GenericArgument(ts, p, hard) ==
    LET After(lit) ==
            IF lit.node = Nil THEN ParseType(ts, lit.pos, lit.hard)
            ELSE IF Type(ts, lit.pos) # "Equals" THEN lit
            ELSE Then(ScalarLiteral(ts, lit.pos + 1, lit.hard), LAMBDA rhs :
                     [rhs EXCEPT !.node = EqualsNode(lit.node, @)])
    IN  After(ScalarLiteral(ts, p, hard))

\* A named element is tried before an unnamed one; what neither is ends the
\* list
TupleElements(ts, p, hard, args, names) ==
    LET q == IF args = <<>> THEN p ELSE p + 1
        With(r, type, name) ==
            TupleElements(ts, r.pos, r.hard, Append(args, type), Append(names, name))
        Ended(pos, error) == [args |-> args, names |-> names, pos |-> pos, hard |-> error]
        Unnamed(r) == IF r.node = Nil THEN Ended(r.pos, r.hard) ELSE With(r, r.node, <<>>)
        Named(r) == IF r.node = Nil THEN Unnamed(ParseType(ts, q, r.hard))
                    ELSE With(r, r.node.data_type[1], r.node.name)
    IN  IF args # <<>> /\ Type(ts, p) # "Comma" THEN Ended(p, hard)
        ELSE Named(Pair(ts, q, hard))

\* The generic list: an argument that does not parse ends it, where its
\* parser gave up
Arguments(ts, p, hard, type, args) ==
    LET q == IF args = <<>> THEN p ELSE p + 1
        arg == CASE type = <<"Dynamic">> -> EqualsArgument(ts, q, hard)
                 [] type = <<"Nested">> -> Pair(ts, q, hard)
                 [] type = <<"Tuple">> -> PairOrType(ts, q, hard)
                 [] OTHER -> GenericArgument(ts, q, hard)
        Ended(pos, error) == [args |-> args, pos |-> pos, hard |-> error]
        After(r) == IF r.node = Nil THEN Ended(r.pos, r.hard)
                    ELSE Arguments(ts, r.pos, r.hard, type, Append(args, r.node))
    IN  IF args # <<>> /\ Type(ts, p) # "Comma" THEN Ended(p, hard) ELSE After(arg)

GenericType(ts, p, hard, type) ==
    IF Type(ts, p) # "OpeningParen" THEN Got(DataType(type), p, hard)
    ELSE IF type \in Unsupported
    THEN Got(Nil, p + 1, SetHardError(hard, ts, p + 1, NotSupported))
    ELSE LET After(list) ==
                 IF Type(ts, list.pos) # "ClosingParen" THEN Got(Nil, list.pos, list.hard)
                 ELSE Got(Apply(type, list.args), list.pos + 1, list.hard)
         IN  After(Arguments(ts, p + 1, hard, type, <<>>))

EnumType(ts, p, hard, type) ==
    LET After(enum) ==
            IF enum.ok /\ Type(ts, enum.pos) = "ClosingParen"
            THEN Got(EnumNode(type, enum.values), enum.pos + 1, hard)
            ELSE GenericType(ts, p, hard, type)
    IN  After(EnumValues(ts, p + 1, <<>>))

TupleType(ts, p, hard, type) ==
    LET After(tuple) ==
            IF Type(ts, tuple.pos) = "ClosingParen" /\ tuple.args # <<>>
            THEN Got(TupleNode(tuple.args, tuple.names), tuple.pos + 1, tuple.hard)
            ELSE GenericType(ts, p, tuple.hard, type)
    IN  After(TupleElements(ts, p + 1, hard, <<>>, <<>>))

\* The enum and the tuple forms are tried before the generic list.
ParseType(ts, p, hard) ==
    LET name == ts[p].text
        upper == Upper(name)
        Typed(type, q) ==
            CASE upper \in EnumNames /\ Type(ts, q) = "OpeningParen" ->
                    EnumType(ts, q, hard, type)
              [] type = <<"Tuple">> /\ Type(ts, q) = "OpeningParen" ->
                    TupleType(ts, q, hard, type)
              [] OTHER -> GenericType(ts, q, hard, type)
        After(suffix) ==
            Typed(IF suffix.words = <<>> THEN name ELSE <<upper>> \o suffix.words,
                  SkipTrailingComma(ts, suffix.pos))
    IN  IF ~IsIdentifier(ts, p) THEN Got(Nil, p, hard)
        ELSE IF ~WordCharsOnly(name) \/ upper \in Keywords
        THEN Got(Nil, p + 1, hard)
        ELSE After(TypeNameSuffix(ts, p + 1, upper))

\* The whole text must be one type
ParseTokens(ts) ==
    LET errors == {i \in 1..Len(ts) : Type(ts, i) = "Error"}
        Failed(message, p) ==
            [ast |-> Nil, error |-> [message |-> message, position |-> ts[p].begin]]
        After(r) ==
            CASE r.node # Nil /\ Type(ts, r.pos) = "End" ->
                    [ast |-> r.node, error |-> NoError]
              [] r.node # Nil /\ Type(ts, r.pos) # "End" ->
                    Failed("unexpected trailing input", r.pos)
              [] r.node = Nil /\ r.hard # NoError -> [ast |-> Nil, error |-> r.hard]
              [] OTHER -> Failed("expected a data type", r.pos)
    IN  IF errors # {} THEN Failed("malformed token", CHOOSE i \in errors : TRUE)
        ELSE After(ParseType(ts, 1, NoError))
Parse(text) == ParseTokens(Tokenize(text))

-----------------------------------------------------------------------------
(* json.ts: an object is the sequence of its members                       *)

String(s) == [string |-> s]
WriteLiteralValue(node) ==
    IF node.value_type = "Float64" THEN [raw |-> node.value] ELSE String(node.value)

RECURSIVE Members(_)
WriteArray(nodes) == [i \in 1..Len(nodes) |-> Members(nodes[i])]
WriteStringArray(strings) == [i \in 1..Len(strings) |-> String(strings[i])]
Slot(present, key, value) == IF present THEN << <<key, value>> >> ELSE <<>>


Members(node) ==
    LET head == << <<"type", node.kind>>, <<"name", String(node.name)>> >>
        args(present) == Slot(present, "arguments", WriteArray(node.arguments))
    IN  CASE node.kind = "DataType" -> head \o args(node.has_argument_list)
          [] node.kind = "EnumDataType" ->
                head \o << <<"values", node.values>> >>
          [] node.kind = "TupleDataType" ->
                head \o args(node.has_argument_list)
                     \o Slot(node.element_names # <<>>, "element_names",
                             WriteStringArray(node.element_names))
          [] node.kind = "NameTypePair" ->
                head \o Slot(node.data_type # <<>>, "data_type",
                             WriteArray(node.data_type))
          [] node.kind = "Literal" ->
                << <<"type", node.kind>>, <<"value_type", node.value_type>>,
                   <<"value", WriteLiteralValue(node)>> >>
          [] node.kind = "Function" ->
                head \o Slot(node.is_operator, "is_operator", TRUE)
                     \o args(TRUE)
          [] OTHER -> head

ToJSON(node) == Members(node)
=============================================================================
