---------------------------- MODULE MCTypedRows ----------------------------
(* Types and values for TypedRows: every scalar at its edges, the wrappers  *)
(* around some of them, and Dynamic values of the types around those        *)
EXTENDS TypedRows

T(name) == DT!DataType(<<name>>)
App(name, args) == DT!Apply(<<name>>, args)
Lit(n) == DT!Literal("UInt64", <<n>>)
LitStr(s) == DT!Literal("String", <<s>>)
Enum(name, values) == DT!EnumNode(<<name>>, values)
Entry(name, value) == [name |-> name, value |-> value]
Tuple(args) == DT!TupleNode(args, [i \in 1..Len(args) |-> <<>>])
NamedTuple(names, args) == DT!TupleNode(args, names)
Pair(name, type) == DT!NameTypePair(name, type)
Of16(k) == [i \in 1..16 |-> IF i \in k THEN i ELSE 0]

Integers == { <<T("UInt8"), Num(255)>>, <<T("UInt16"), Num(65535)>>,
    <<T("UInt32"), Num(70000)>>, <<T("UInt128"), Num(258)>>, <<T("Int8"), Num(-128)>>,
    <<T("Int16"), Num(-32768)>>, <<T("Int32"), Num(-70000)>>, <<T("Int64"), Num(-1)>>,
    <<T("Int256"), Num(-257)>>, <<T("IntervalDay"), Num(-3)>>, <<T("Time"), Num(-3661)>>,
    <<T("Bool"), Bool(1)>> }
Numbers == { <<T("Float32"), Float(<<63, 128, 0, 1>>)>>,
    <<T("Float64"), Float([i \in 1..8 |-> i])>>,
    <<T("BFloat16"), Float(<<63, 129, 7, 9>>)>>,
    <<App("Decimal", <<Lit("9"), Lit("2")>>), Scaled(-5, 2)>>,
    <<App("Decimal", <<Lit("10"), Lit("3")>>), Scaled(12345, 3)>>,
    <<App("Decimal", <<Lit("38"), Lit("1")>>), Scaled(-10, 1)>>,
    <<App("Decimal256", <<Lit("0")>>), Scaled(7, 0)>> }
Instants == { <<T("Date"), Date(65535, 5)>>, <<T("Date32"), Date(-1, 86399)>>,
    <<T("DateTime"), Date(1, 1)>>,
    <<App("DateTime", <<LitStr("UTC")>>), Date(0, 59)>>,
    <<App("DateTime64", <<Lit("9")>>), DateTime64(Date(-1, 86399), 999999999)>>,
    <<App("DateTime64", <<Lit("3"), LitStr("UTC")>>),
      DateTime64(Date(-1, 86398), 250999999)>>,
    <<App("DateTime64", <<Lit("0")>>), DateTime64(Date(0, 1), 0)>>,
    <<App("Time64", <<Lit("3")>>), Scaled(-3661007, 3)>> }
Texts == { <<T("String"), Str(<<"a", "e_acute">>)>>, <<T("String"), Str(<<>>)>>,
    <<T("String"), Str([i \in 1..65 |-> "e_acute"])>>,
    <<App("FixedString", <<Lit("3")>>), Str(<<"e_acute">>)>>,
    <<T("UUID"), Bytes([i \in 1..16 |-> i])>>, <<T("IPv4"), Bytes(<<1, 2, 3, 4>>)>>,
    <<T("IPv6"), Bytes(Of16({1, 16}))>>, <<T("IPv6"), Bytes(Of16({3, 10}))>>,
    <<T("IPv6"), Bytes([i \in 1..16 |-> IF i < 11 THEN 0 ELSE 255])>>,
    <<T("IPv6"), Bytes(Of16({}))>>,
    <<App("LowCardinality", <<T("String")>>), Str(<<"b">>)>> }
Names == <<Entry(<<"a">>, <<"1">>), Entry(<<"b", "quote", "a">>, <<"-", "2">>)>>
NamesUp == <<Entry(<<"a", "quote">>, <<"3">>), Entry(<<"b">>, <<"10">>)>>
Enums == { <<Enum("Enum8", Names), Num(1)>>, <<Enum("Enum8", Names), Num(-2)>>,
    <<Enum("Enum16", NamesUp), Num(3)>> }
Scalars == Integers \cup Numbers \cup Instants \cup Texts \cup Enums

At(x, y) == List(<<Float(x), Float(y)>>)
P1 == At([i \in 1..8 |-> 1], [i \in 1..8 |-> 2])
Variant(d, v) == [Value("variant") EXCEPT !.v = d, !.items = <<v>>]
Geometries == { <<T("Point"), P1>>, <<T("Ring"), List(<<P1, P1>>)>>,
    <<T("Geometry"), Variant(0, List(<<P1>>))>>, <<T("Geometry"), Variant(3, P1)>>,
    <<T("Geometry"), Variant(2, List(<< List(<< List(<<P1>>) >>) >>))>>,
    <<T("Geometry"), Null>> }

Inners == { <<T("UInt8"), Num(255)>>, <<T("String"), Str(<<"a", "e_acute">>)>>,
    <<App("DateTime64", <<Lit("9")>>), DateTime64(Date(-1, 86399), 999999999)>>,
    <<Enum("Enum8", Names), Num(-2)>> }
MapValue(entries) == [Value("Map") EXCEPT !.items = entries]
A == <<"a">>
B == <<"b">>
Wrapped == UNION { { <<App("Nullable", <<i[1]>>), i[2]>>, <<App("Nullable", <<i[1]>>), Null>>,
        <<App("Array", <<i[1]>>), List(<<i[2], i[2]>>)>>,
        <<App("Array", <<App("Array", <<App("Nullable", <<i[1]>>)>>)>>),
          List(<< List(<<Null, i[2]>>), List(<<>>) >>)>>,
        <<Tuple(<<i[1], T("UInt8")>>), List(<<i[2], Num(7)>>)>>,
        <<NamedTuple(<<B, A>>, <<i[1], T("Int8")>>), List(<<i[2], Num(-7)>>)>>,
        <<App("Map", <<T("UInt8"), i[1]>>),
          MapValue(<<List(<<Num(1), i[2]>>), List(<<Num(2), i[2]>>)>>)>>,
        <<App("Variant", <<T("Int32"), i[1]>>), Variant(1, i[2])>>,
        <<App("Nested", <<Pair(A, i[1]), Pair(B, T("UInt16"))>>),
          List(<<List(<<i[2], Num(258)>>)>>)>>,
        <<App("LowCardinality", <<App("Nullable", <<i[1]>>)>>), i[2]>> } : i \in Inners }
  \cup { <<App("QBit", <<T("Float32"), Lit("2")>>), List(<<Float(<<1, 2, 3, 4>>)>>)>>,
         <<App("Map", <<T("String"), T("UInt8")>>),
           MapValue(<<List(<<Str(A), Num(1)>>), List(<<Str(B), Num(2)>>),
                      List(<<Str(A), Num(3)>>)>>)>>,
         <<App("Array", <<T("Nothing")>>), List(<<>>)>> }

\* The binary type encoding that the server writes before a Dynamic value
RECURSIVE TypeBytes(_)
EachType(nodes) == FlattenSeq([i \in 1..Len(nodes) |-> TypeBytes(nodes[i])])
EachField(names, nodes) ==
    FlattenSeq([i \in 1..Len(nodes) |-> WriteString(Str(names[i])) \o TypeBytes(nodes[i])])
Arg(node, i) == WriteUVarint(IntOf(Argument(node, i).value))
TypeBytes(node) ==
    LET name == node.name[1] IN
    CASE node.kind = "EnumDataType" ->
            LET width == IF name = "Enum16" THEN 2 ELSE 1 IN
            <<22 + width, Len(node.values)>> \o FlattenSeq([i \in 1..Len(node.values) |->
                WriteString(Str(node.values[i].name))
                    \o ToLE(IntOf(node.values[i].value), width)])
      [] node.kind = "TupleDataType" ->
            IF node.element_names = <<>>
            THEN <<31, Len(node.arguments)>> \o EachType(node.arguments)
            ELSE <<32, Len(node.arguments)>> \o EachField(node.element_names, node.arguments)
      [] name = "DateTime" -> IF node.arguments = <<>> THEN <<17>>
                              ELSE <<18>> \o WriteString(Str(A))
      [] name = "DateTime64" ->
            IF Len(node.arguments) = 1 THEN <<19>> \o Arg(node, 0)
            ELSE <<20>> \o Arg(node, 0) \o WriteString(Str(B))
      [] name = "FixedString" -> <<22>> \o Arg(node, 0)
      [] name = "Decimal" ->
            <<DecimalTags[DecimalReader(node).op]>> \o Arg(node, 0) \o Arg(node, 1)
      [] name = "Array" -> <<30>> \o EachType(node.arguments)
      [] name = "Nullable" -> <<35>> \o EachType(node.arguments)
      [] name = "LowCardinality" -> <<38>> \o EachType(node.arguments)
      [] name = "Map" -> <<39>> \o EachType(node.arguments)
      [] name = "Variant" -> <<42, Len(node.arguments)>> \o EachType(node.arguments)
      [] name = "Nested" -> <<47, Len(node.arguments)>> \o
            EachField([i \in 1..Len(node.arguments) |-> node.arguments[i].name],
                      [i \in 1..Len(node.arguments) |-> node.arguments[i].data_type[1]])
      [] OTHER -> <<Tags[name]>>

DynamicBytes(pair) == TypeBytes(pair[1]) \o Write(AstToReader(pair[1]), pair[2])
Dyn(bytes, value) == [Value("dynamic") EXCEPT !.b = bytes, !.items = <<value>>]
DynamicOf(pair) == Dyn(DynamicBytes(pair), Stored(AstToReader(pair[1]), pair[2]))
Encodable == {p \in Scalars \cup Wrapped :
    p[1].name[1] \in DOMAIN Tags \cup {"Enum8", "Enum16", "Tuple", "DateTime", "DateTime64",
        "FixedString", "Decimal", "Array", "Nullable", "LowCardinality", "Map", "Variant",
        "Nested"} /\ p[1] # App("Array", <<T("Nothing")>>)}
JSONHeader == <<48, 0, 1, 2, 0, 1, 1, 97, 0>>
JSONBody == <<2, 1, 97, 1, 9, 1, 98, 0>>
JSONValue == MapOf(<<List(<<Str(A), Num(9)>>), List(<<Str(B), Null>>)>>)
Dynamics == { <<T("Dynamic"), DynamicOf(p)>> : p \in Encodable }
  \cup { <<T("Dynamic"), Dyn(<<0>>, Null)>>, <<T("JSON"), Dyn(JSONBody, JSONValue)>>,
         <<T("Dynamic"), Dyn(JSONHeader \o JSONBody, JSONValue)>>,
         <<T("Dynamic"), Dyn(<<43, 5, 1, 9>>, Num(9))>>,
         <<T("Dynamic"), Dyn(<<34, 6>> \o ToLE(-3, 8),
                             List(<<Num(-3), Str(<<"Day">>)>>))>> }

Single(pair) == [names |-> <<A>>, types |-> <<pair[1]>>, row |-> <<pair[2]>>]
Two(n1, p1, n2, p2) ==
    [names |-> <<n1, n2>>, types |-> <<p1[1], p2[1]>>, row |-> <<p1[2], p2[2]>>]
Byte(n) == <<T("UInt8"), Num(n)>>
Word(n) == <<T("UInt16"), Num(n)>>
Pairs == { Two(A, Byte(1), A, Word(258)), Two(<<"2">>, Byte(1), <<"1">>, Word(258)),
           Two(A, Byte(1), B, Word(258)) }
MCRecurring == { Single(Byte(1)), Single(Word(258)), Single(<<T("Int8"), Num(-1)>>),
                 Two(A, Word(1), B, Byte(2)) }
\* Types without a reader: they parse, or fail, and no row is read
Unreadable == { Single(<<t, Null>>) : t \in {DT!DataType(<<"INT", "SIGNED">>),
    DT!DataType(<<"DOUBLE", "PRECISION">>),
    App("Dynamic", <<DT!EqualsNode(DT!Identifier(<<"max_types">>), Lit("5"))>>),
    App("AggregateFunction", <<T("sum"), T("UInt8")>>), App("Array", <<>>),
    App("Foo", <<DT!Literal("Int64", <<"-", "5">>), DT!Literal("Float64", <<"1", ".", "5">>),
        DT!EqualsNode(LitStr("a"), Lit("1"))>>)} }
MCStreams == Unreadable \cup { Single(p) : p \in Scalars \cup Geometries \cup Wrapped \cup Dynamics }
             \cup Pairs \cup MCRecurring
MCTypeTexts == UNION {Range(TextsOf(s.types)) : s \in MCStreams}
=============================================================================
