----------------------------- MODULE TypedRows -----------------------------
(***************************************************************************)
(* Decoding RowBinaryWithNamesAndTypes: the type texts of a response are   *)
(* resolved through an LRU cache of readers, the columns are read by       *)
(* position, and a row that starves is read again when more bytes are      *)
(* there.                                                                  *)
(*                                                                         *)
(* A stream is a header (names and type texts) and one row.  The type      *)
(* texts and the bytes are the server's: they are printed and written here *)
(* from the type and the value that the row is known to hold.              *)
(***************************************************************************)
EXTENDS RowBinaryCodec, ReaderCache

DT == INSTANCE DataTypeParser
CT == INSTANCE ColumnTypes

CONSTANTS
    Streams,        \* streams of [names, types (ASTs), row (values)]
    Recurring,      \* those of them that may follow another one
    MaxStreams      \* bound: responses decoded with one cache

VARIABLES
    stream,         \* the stream being decoded, or None
    readers,        \* columnReaders
    arrived,        \* bytes of the row received so far
    outcome,        \* what readRow made of them
    decoded         \* streams decoded so far

vars == <<cache, requested, stream, readers, arrived, outcome, decoded>>
None == [names |-> <<>>, types |-> <<>>, row |-> <<>>]

-----------------------------------------------------------------------------
(* The server's texts and bytes                                            *)

Joined(texts) ==
    FlattenSeq([i \in 1..Len(texts) |->
        IF i = 1 THEN texts[i] ELSE <<",", "space">> \o texts[i]])
Parens(texts) == <<"(">> \o Joined(texts) \o <<")">>
Quoted(name) ==
    <<"quote">> \o FlattenSeq([i \in 1..Len(name) |->
        IF name[i] \in {"quote", "backslash"} THEN <<"backslash", name[i]>>
        ELSE <<name[i]>>]) \o <<"quote">>
FieldName(name) ==
    IF IntegerLike(name) THEN <<"backtick">> \o name \o <<"backtick">> ELSE name

RECURSIVE TextOf(_)
TextsOf(nodes) == [i \in 1..Len(nodes) |-> TextOf(nodes[i])]
Words(name) ==
    FlattenSeq([i \in 1..Len(name) |->
        IF i = 1 THEN <<name[i]>> ELSE <<"space", name[i]>>])
TextOf(node) ==
    CASE node.kind = "Literal" ->
            IF node.value_type = "String" THEN Quoted(node.value) ELSE node.value
      [] node.kind = "NameTypePair" ->
            FieldName(node.name) \o <<"space">> \o TextOf(node.data_type[1])
      [] node.kind = "Identifier" -> node.name
      [] node.kind = "Function" ->
            TextOf(node.arguments[1]) \o <<"space", "=", "space">>
                \o TextOf(node.arguments[2])
      [] node.kind = "EnumDataType" ->
            node.name \o Parens([i \in 1..Len(node.values) |->
                Quoted(node.values[i].name) \o <<"space", "=", "space">>
                    \o node.values[i].value])
      [] node.kind = "TupleDataType" ->
            node.name \o Parens([i \in 1..Len(node.arguments) |->
                IF node.element_names = <<>> THEN TextOf(node.arguments[i])
                ELSE FieldName(node.element_names[i]) \o <<"space">>
                        \o TextOf(node.arguments[i])])
      [] OTHER ->
            Words(node.name) \o
                IF node.has_argument_list THEN Parens(TextsOf(node.arguments))
                ELSE <<>>

\* The columns of the row, one after the other in the order of the header
Wire(s) ==
    FlattenSeq([i \in 1..Len(s.types) |->
        IF AstToReader(s.types[i]).op \in {"Dynamic", "JSON"} THEN s.row[i].b
        ELSE Write(AstToReader(s.types[i]), s.row[i])])

-----------------------------------------------------------------------------
(* rowBinaryWithNamesAndTypes.ts                                           *)

TypeStringToReader(text) ==
    LET Compiled(ast) == IF ast = DT!Nil THEN TypeError ELSE AstToReader(ast)
    IN  Compiled(DT!Parse(text).ast)

ASSUME TypedRowsAssumption ==
    /\ Recurring \subseteq Streams
    /\ MaxSize \in Nat \ {0} /\ MaxStreams \in Nat \ {0}
    /\ TypeTexts = UNION {Range(TextsOf(s.types)) : s \in Streams}
    /\ NoReader = TypeError
    /\ \A text \in TypeTexts : ReaderFor(text) = TypeStringToReader(text)

\* The row object: every column is read, in order, and named
ReadRow(names, columnReaders, buf) ==
    Then(ReadSeq(columnReaders, buf, 0), LAMBDA list, q :
        Got([i \in 1..Len(names) |-> list.items[LastNamed(names, names[i])]], q))

Idle == NeedMoreData(0)

Init ==
    /\ CacheInit /\ decoded = 0
    /\ stream = None /\ readers = <<>> /\ arrived = 0 /\ outcome = Idle

\* compileRowBinaryWithNamesAndTypes: the types are resolved in order, up to the
\* first that does not compile
Compile ==
    /\ stream = None
    /\ decoded < MaxStreams
    /\ \E s \in IF decoded = 0 THEN Streams ELSE Recurring :
        LET texts == TextsOf(s.types)
            after[i \in 0..Len(texts)] ==
                IF i = 0 THEN cache ELSE Resolve(after[i - 1], texts[i])
            found == [i \in DOMAIN texts |-> ReaderOf(after[i - 1], texts[i])]
            wrong == {i \in DOMAIN texts : found[i] = TypeError}
            asked == IF wrong = {} THEN Len(texts) ELSE Min(wrong)
        IN  /\ readers' = SubSeq(found, 1, asked)
            /\ cache' = after[asked]
            /\ requested' = requested \o SubSeq(texts, 1, asked)
            /\ stream' = s
            /\ UNCHANGED <<arrived, outcome, decoded>>

\* A chunk arrives and readRow starts again at the beginning of the row
Receive ==
    /\ stream # None
    /\ outcome.status = "starved"
    /\ TypeError \notin Range(readers)
    /\ arrived < Len(Wire(stream))
    /\ \E n \in (arrived + 1)..Len(Wire(stream)) :
        /\ n \in {arrived + 1, Len(Wire(stream))}
        /\ arrived' = n
        /\ outcome' = ReadRow(stream.names, readers, SubSeq(Wire(stream), 1, n))
    /\ UNCHANGED <<cache, requested, stream, readers, decoded>>

\* The consumer has the row, or the error, and turns to the next response.
\* Those after a stream that cannot recur are the subject of another behaviour.
NextStream ==
    /\ stream \in Recurring
    /\ outcome.status # "starved"
    /\ stream' = None /\ readers' = <<>> /\ arrived' = 0 /\ outcome' = Idle
    /\ decoded' = decoded + 1
    /\ UNCHANGED <<cache, requested>>

Next == Compile \/ Receive \/ NextStream
Spec == Init /\ [][Next]_vars

-----------------------------------------------------------------------------
(* What a value looks like once it has been stored and read back           *)

RECURSIVE Stored(_, _)
StoredAll(r, values) == [i \in 1..Len(values) |-> Stored(r, values[i])]
Stored(r, v) ==
    CASE v = Null -> Null
      [] r.op \in {"Date", "Date32"} -> Date(v.v, 0)
      [] r.op = "DateTime64" ->
            LET tick == 10 ^ (9 - r.n)
            IN  DateTime64(v.items[1], (v.items[2].v \div tick) * tick)
      [] r.op = "BFloat16" -> Float(SubSeq(v.b, 1, 2) \o <<0, 0>>)
      [] r.op = "FixedString" ->
            Str(v.s \o [i \in 1..(r.n - Len(Encode(v.s))) |-> "NUL"])
      [] r.op = "Enum" -> EnumName(r.names, v.v)
      [] r.op = "Nullable" -> Stored(r.sub[1], v)
      [] r.op = "Array" -> List(StoredAll(r.sub[1], v.items))
      [] r.op = "Tuple" -> List([i \in 1..Len(r.sub) |-> Stored(r.sub[i], v.items[i])])
      [] r.op = "TupleNamed" ->
            ObjectOf(r.keys, [i \in 1..Len(r.sub) |-> Stored(r.sub[i], v.items[i])])
      [] r.op = "Map" -> MapOf(StoredAll(Of("Tuple", r.sub), v.items))
      [] r.op = "Variant" -> Stored(r.sub[v.v + 1], v.items[1])
      [] r.op \in {"Dynamic", "JSON"} -> v.items[1]
      [] OTHER -> v

\* The type text of a column parses to the type it was printed from: no
\* argument is dropped, no name mangled, and the JSON of the AST has a member
\* for every part it has.  The states of aggregate functions, whose arguments
\* the parser does not support, are refused with that error (datatype-parser)
AggregateStates == {<<"AggregateFunction">>, <<"SimpleAggregateFunction">>}
JSONMembers(node) ==
    {"type", "name"} \cup (IF node.has_argument_list THEN {"arguments"} ELSE {})
        \cup (IF node.kind = "EnumDataType" THEN {"values"} ELSE {})
        \cup (IF node.element_names # <<>> THEN {"element_names"} ELSE {})
PrintedTypesParse ==
    \A i \in 1..Len(stream.types) :
        LET Members(json) == {json[k][1] : k \in 1..Len(json)}
            Expected(r) ==
                IF stream.types[i].name \in AggregateStates
                THEN r.ast = DT!Nil /\ r.error.message = DT!NotSupported
                ELSE /\ r.ast = stream.types[i]
                     /\ Members(DT!ToJSON(r.ast)) = JSONMembers(r.ast)
        IN  Expected(DT!Parse(TextOf(stream.types[i])))

\* What column_types.ts can say of a type: it knows no named tuples, no
\* negative enum values and none of the newer types
RECURSIVE ColumnOf(_)
Parts(type, nodes) ==
    LET sub == [i \in 1..Len(nodes) |-> ColumnOf(nodes[i])]
    IN  IF CT!Failed \in Range(sub) THEN CT!Failed
        ELSE [CT!Column(type) EXCEPT !.sub = sub]
ArrayColumn(node) ==
    LET value == ColumnOf(Argument(node, 0))
    IN  CASE value = CT!Failed -> value
          [] value.type = "Array" -> [value EXCEPT !.n = @ + 1]
          [] OTHER -> [CT!Column("Array") EXCEPT !.n = 1, !.sub = <<value>>]
EnumColumn(node) ==
    LET names == EnumReader(node).names
    IN  IF \E i \in 1..Len(names) : names[i].value < 0 THEN CT!Failed
        ELSE [CT!Column("Enum") EXCEPT !.values = Range(names),
                !.n = IF node.name = <<"Enum8">> THEN 8 ELSE 16]
ColumnOf(node) ==
    LET name == IF node.name = <<>> THEN "" ELSE node.name[1]
        Size(i) == IntOf(Argument(node, i).value)
        zone == IF node.arguments = <<>> THEN <<>>
                ELSE IF Last(node.arguments).value_type = "String"
                THEN Last(node.arguments).value ELSE <<>>
    IN  CASE name = "LowCardinality" -> ColumnOf(Argument(node, 0))
          [] name = "Nullable" -> CT!AsNullableType(ColumnOf(Argument(node, 0)))
          [] name \in CT!SimpleColumnTypes /\ Len(node.name) = 1 ->
                [CT!Column("Simple") EXCEPT !.name = node.name]
          [] name = "Decimal" ->
                [CT!Column(name) EXCEPT !.n = Size(0), !.m = Size(1),
                    !.values = {8 * DecimalWidths[DecimalReader(node).op]}]
          [] name = "DateTime" -> [CT!Column(name) EXCEPT !.name = zone]
          [] name = "DateTime64" ->
                [CT!Column(name) EXCEPT !.n = Size(0), !.name = zone]
          [] name = "FixedString" -> [CT!Column(name) EXCEPT !.n = Size(0)]
          [] node.kind = "EnumDataType" -> EnumColumn(node)
          [] name = "Array" /\ node.arguments # <<>> -> ArrayColumn(node)
          [] name = "Map" -> Parts(name, node.arguments)
          [] name = "Tuple" /\ node.element_names = <<>> ->
                Parts(name, node.arguments)
          [] OTHER -> CT!Failed

\* The two parsers of type texts agree: column_types.ts finds in the text what
\* the AST says, and fails on nothing but what it does not support
ColumnTypesAgree ==
    \A i \in 1..Len(stream.types) :
        CT!ParseColumnType(TextOf(stream.types[i])) = ColumnOf(stream.types[i])

\* However the bytes of a row are cut, a part of them starves and all of them
\* yield the values that were written, under their names, with the cursor at
\* the end of the row (readers, writers, compileRowBinaryWithNamesAndTypes)
DecodesWhatWasWritten ==
    LET n == Len(Wire(stream))
        Expected(i) == Stored(AstToReader(stream.types[i]), stream.row[i])
    IN  arrived > 0 =>
            IF arrived < n THEN outcome.status = "starved"
            ELSE /\ outcome.status = "ok"
                 /\ outcome.pos = n
                 /\ \A i \in 1..Len(stream.types) :
                        outcome.value[i] = Expected(LastNamed(stream.names, stream.names[i]))

\* A decoded value formatted as text parses to the value again: decimals,
\* times, UUIDs (both formatters) and IPv6 addresses
TextsReadBack ==
    \A i \in 1..Len(stream.types) : outcome.status = "ok" =>
        LET v == outcome.value[i]
            type == stream.types[i].name
        IN  CASE v.t = "decimal" /\ type = <<"Time64">> ->
                    ParseTime64(FormatTime64(v), v.b[1]) = v
              [] v.t = "decimal" /\ type # <<"Time64">> ->
                    ParseDecimal(FormatDecimal(v), v.b[1]) = v
              [] type = <<"Time">> -> ParseTime(FormatTime(v)) = v
              [] type = <<"UUID">> -> /\ ParseUUID(FormatUUID(v)) = v
                                      /\ FormatUUIDTable(v) = FormatUUID(v)
              [] type = <<"IPv6">> -> ParseIPv6(FormatIPv6(v)) = v
              [] OTHER -> TRUE

=============================================================================
