--------------------------- MODULE RowBinaryCodec ---------------------------
(***************************************************************************)
(* The type-driven half of the RowBinary skill: an AST of the data type    *)
(* parser is folded into a reader, readers and writers of the composite    *)
(* types call those of the types inside, and a Dynamic value carries its   *)
(* own type in a binary encoding.                                          *)
(*                                                                         *)
(* A reader is data here: the operation, the width, precision or scale,    *)
(* the readers inside, and the names of fields or enum values.  Read and   *)
(* Write interpret it.                                                     *)
(***************************************************************************)
EXTENDS RowBinaryScalars

Reader(op) == [op |-> op, n |-> 0, sub |-> <<>>, keys |-> <<>>, names |-> <<>>]
Sized(op, n) == [Reader(op) EXCEPT !.n = n]
Of(op, sub) == [Reader(op) EXCEPT !.sub = sub]
TypeError == Reader("RowBinaryTypeError")

\* A combinator is built from its parts before it is returned: one that throws
\* throws for all
Compose(op, sub) ==
    IF \E i \in 1..Len(sub) : sub[i] = TypeError THEN TypeError ELSE Of(op, sub)

-----------------------------------------------------------------------------
(* Named fields live in a JS object: one reader per name, the last given,   *)
(* and Object.keys lists integer-like names first                          *)

Numerals == "0" :> 0 @@ "1" :> 1 @@ "2" :> 2 @@ "3" :> 3 @@ "5" :> 5 @@ "8" :> 8
            @@ "9" :> 9 @@ "10" :> 10 @@ "16" :> 16 @@ "18" :> 18 @@ "38" :> 38
            @@ "64" :> 64
IntOf(text) ==
    IF text[1] = "-" THEN -Numerals[text[2]] ELSE Numerals[text[1]]

IntegerLike(name) == Len(name) = 1 /\ name[1] \in DOMAIN Numerals
ObjectKeys(names) ==
    LET first == {i \in 1..Len(names) : \A j \in 1..(i - 1) : names[j] # names[i]}
        Before(i, j) ==
            CASE IntegerLike(names[i]) /\ IntegerLike(names[j]) ->
                    Numerals[names[i][1]] < Numerals[names[j][1]]
              [] IntegerLike(names[i]) # IntegerLike(names[j]) ->
                    IntegerLike(names[i])
              [] OTHER -> i < j
        order == SetToSortSeq(first, Before)
    IN  [k \in 1..Len(order) |-> names[order[k]]]
LastNamed(names, name) ==
    CHOOSE i \in 1..Len(names) :
        names[i] = name /\ \A j \in (i + 1)..Len(names) : names[j] # name

NamedFields(op, names, sub) ==
    LET keys == ObjectKeys(names)
    IN  [Compose(op, [k \in 1..Len(keys) |-> sub[LastNamed(names, keys[k])]])
            EXCEPT !.keys = keys]

-----------------------------------------------------------------------------
(* compile.ts: the fold of the AST                                         *)

Float64Reader == Sized("Float", 8)
Point == Of("Tuple", <<Float64Reader, Float64Reader>>)
Ring == Of("Array", <<Point>>)
Polygon == Of("Array", <<Ring>>)
MultiPolygon == Of("Array", <<Polygon>>)
Geometry == Of("Variant", <<Ring, Polygon, MultiPolygon, Point, Polygon, Ring>>)

NULLARY ==
    LET Each(types, op) == [t \in DOMAIN types |-> Sized(op, types[t])]
        Same(types) == [t \in types |-> Reader(t)]
    IN  Each(Unsigned, "Unsigned") @@ Each(Signed, "Signed") @@ Each(Floats, "Float")
        @@ Same({"BFloat16", "Bool", "String", "UUID", "IPv4", "IPv6", "Date",
                 "Date32", "Time", "Nothing", "JSON", "Dynamic"})
        @@ "Point" :> Point @@ "Ring" :> Ring @@ "LineString" :> Ring
        @@ "Polygon" :> Polygon @@ "MultiLineString" :> Polygon
        @@ "MultiPolygon" :> MultiPolygon @@ "Geometry" :> Geometry

Intervals == {"IntervalSecond", "IntervalDay"}
Argument(node, i) == node.arguments[i + 1]
HasArg(node, i) == i + 1 <= Len(node.arguments)

LiteralInt(op, node, i) ==
    IF HasArg(node, i) /\ Argument(node, i).kind = "Literal"
    THEN Sized(op, IntOf(Argument(node, i).value)) ELSE TypeError

DecimalByPrecision(precision) ==
    CASE precision <= 9 -> "Decimal32" [] precision \in 10..18 -> "Decimal64"
      [] precision \in 19..38 -> "Decimal128" [] OTHER -> "Decimal256"
DecimalReader(node) ==
    LET precision == LiteralInt("", node, 0)
        scale == LiteralInt("", node, 1)
    IN  IF TypeError \in {precision, scale} THEN TypeError
        ELSE [scale EXCEPT !.op = DecimalByPrecision(precision.n)]

EnumReader(node) ==
    [Sized("Enum", IF node.name = <<"Enum16">> THEN 2 ELSE 1) EXCEPT !.names =
        [i \in 1..Len(node.values) |->
            [name |-> node.values[i].name, value |-> IntOf(node.values[i].value)]]]

RECURSIVE AstToReader(_)
Inner(node, i) ==
    IF HasArg(node, i) THEN AstToReader(Argument(node, i)) ELSE TypeError
Readers(nodes) == [i \in 1..Len(nodes) |-> AstToReader(nodes[i])]

TupleReader(node) ==
    LET named == /\ Len(node.element_names) = Len(node.arguments)
                 /\ \A i \in 1..Len(node.element_names) :
                        node.element_names[i] # <<>>
    IN  IF named
        THEN NamedFields("TupleNamed", node.element_names, Readers(node.arguments))
        ELSE Compose("Tuple", Readers(node.arguments))

NestedReader(node) ==
    LET pairs == node.arguments
    IN  IF \E i \in 1..Len(pairs) :
                pairs[i].kind # "NameTypePair" \/ pairs[i].data_type = <<>>
        THEN TypeError
        ELSE Compose("Array", <<NamedFields("TupleNamed",
                [i \in 1..Len(pairs) |-> pairs[i].name],
                [i \in 1..Len(pairs) |-> AstToReader(pairs[i].data_type[1])])>>)

DataTypeReader(node) ==
    LET name == node.name[1]
    IN  CASE Len(node.name) > 1 -> TypeError
          [] name = "Nullable" -> Compose("Nullable", <<Inner(node, 0)>>)
          [] name = "LowCardinality" -> Inner(node, 0)
          [] name \in {"Array", "QBit"} -> Compose("Array", <<Inner(node, 0)>>)
          [] name = "Map" -> Compose("Map", <<Inner(node, 0), Inner(node, 1)>>)
          [] name = "Variant" -> Compose("Variant", Readers(node.arguments))
          [] name = "Nested" -> NestedReader(node)
          [] name \in {"FixedString", "Time64"} \cup DOMAIN DecimalWidths ->
                LiteralInt(name, node, 0)
          [] name \in {"DateTime", "DateTime32"} -> Reader("DateTime")
          [] name = "DateTime64" ->
                IF node.arguments = <<>> THEN Sized(name, 3)
                ELSE LiteralInt(name, node, 0)
          [] name = "Decimal" -> DecimalReader(node)
          [] name \in {"Enum8", "Enum16"} -> EnumReader(node)
          [] name \in Intervals -> Reader("Interval")
          [] name \in DOMAIN NULLARY -> NULLARY[name]
          [] OTHER -> TypeError

AstToReader(node) ==
    CASE node.kind = "EnumDataType" -> EnumReader(node)
      [] node.kind = "TupleDataType" -> TupleReader(node)
      [] node.kind = "DataType" -> DataTypeReader(node)
      [] OTHER -> TypeError

-----------------------------------------------------------------------------
(* The readers                                                             *)

RECURSIVE Read(_, _, _), ReadDynamicType(_, _)

ReadScalar(r, buf, p) ==
    CASE r.op = "Unsigned" -> ReadUnsigned(r.n, buf, p)
      [] r.op = "Signed" -> ReadSigned(r.n, buf, p)
      [] r.op = "Float" -> ReadFloat(r.n, buf, p)
      [] r.op = "BFloat16" -> ReadBFloat16(buf, p)
      [] r.op = "Bool" -> ReadBool(buf, p)
      [] r.op = "String" -> ReadString(buf, p)
      [] r.op = "FixedString" -> ReadFixedString(r.n, buf, p)
      [] r.op \in {"UUID", "IPv6"} -> Read16(buf, p)
      [] r.op = "IPv4" -> ReadIPv4(buf, p)
      [] r.op = "Date" -> ReadDate(buf, p)
      [] r.op = "Date32" -> ReadDate32(buf, p)
      [] r.op = "DateTime" -> ReadDateTime(buf, p)
      [] r.op = "DateTime64" -> ReadDateTime64(r.n, buf, p)
      [] r.op = "Time" -> ReadTime(buf, p)
      [] r.op = "Time64" -> ReadTime64(r.n, buf, p)
      [] r.op = "Enum" -> ReadEnum(r.n, r.names, buf, p)
      [] r.op = "Interval" -> ReadSigned(8, buf, p)
      [] r.op \in DOMAIN DecimalWidths ->
            ReadDecimal(DecimalWidths[r.op], r.n, buf, p)
      [] OTHER -> RangeError(p)                     \* Nothing throws

\* One after another, until one starves or throws
ReadSeq(readers, buf, p) ==
    FoldLeft(LAMBDA acc, r :
                Then(acc, LAMBDA list, q :
                    Then(Read(r, buf, q), LAMBDA v, e :
                        Got(List(Append(list.items, v)), e))),
             Got(List(<<>>), p), readers)
Times(n, r) == [i \in 1..n |-> r]

ReadNullable(value, buf, p) ==
    Then(ReadUnsigned(1, buf, p), LAMBDA flag, q :
        IF flag.v # 0 THEN Got(Null, q) ELSE Read(value, buf, q))
ReadArray(element, buf, p) ==
    Then(ReadUVarint(buf, p), LAMBDA n, q : ReadSeq(Times(n.v, element), buf, q))
ReadTuple(readers, buf, p) == ReadSeq(readers, buf, p)
ObjectOf(keys, values) ==
    [Value("object") EXCEPT !.items =
        [k \in 1..Len(keys) |-> List(<<Str(keys[k]), values[k]>>)]]
ReadTupleNamed(readers, keys, buf, p) ==
    Then(ReadSeq(readers, buf, p), LAMBDA list, q :
        Got(ObjectOf(keys, list.items), q))

\* A later entry replaces an earlier one with its key, in the earlier's place
MapSet(entries, key, value) ==
    LET same == {i \in 1..Len(entries) : entries[i].items[1] = key}
        entry == List(<<key, value>>)
    IN  IF same = {} THEN Append(entries, entry)
        ELSE [i \in 1..Len(entries) |-> IF i \in same THEN entry ELSE entries[i]]
MapOf(entries) ==
    [Value("Map") EXCEPT !.items =
        FoldLeft(LAMBDA acc, e : MapSet(acc, e.items[1], e.items[2]), <<>>, entries)]
ReadMap(key, value, buf, p) ==
    Then(ReadUVarint(buf, p), LAMBDA n, q :
        Then(ReadSeq(Times(n.v, Of("Tuple", <<key, value>>)), buf, q),
             LAMBDA list, e : Got(MapOf(list.items), e)))

ReadVariant(readers, buf, p) ==
    Then(ReadUnsigned(1, buf, p), LAMBDA d, q :
        CASE d.v = 255 -> Got(Null, q)
          [] d.v < Len(readers) -> Read(readers[d.v + 1], buf, q)
          [] OTHER -> RangeError(q))

ReadDynamic(buf, p) ==
    Then(ReadDynamicType(buf, p), LAMBDA type, q : Read(type, buf, q))
ReadJSON(buf, p) ==
    ReadMap(Reader("String"), Reader("Dynamic"), buf, p)

Read(r, buf, p) ==
    CASE r.op = "Nullable" -> ReadNullable(r.sub[1], buf, p)
      [] r.op = "Array" -> ReadArray(r.sub[1], buf, p)
      [] r.op = "Tuple" -> ReadTuple(r.sub, buf, p)
      [] r.op = "TupleNamed" -> ReadTupleNamed(r.sub, r.keys, buf, p)
      [] r.op = "Map" -> ReadMap(r.sub[1], r.sub[2], buf, p)
      [] r.op = "Variant" -> ReadVariant(r.sub, buf, p)
      [] r.op = "Dynamic" -> ReadDynamic(buf, p)
      [] r.op = "JSON" -> ReadJSON(buf, p)
      [] r.op = "Null" -> Got(Null, p)
      [] r.op = "IntervalUnit" ->
            Then(ReadSigned(8, buf, p), LAMBDA n, q :
                Got(List(<<n, Str(r.keys)>>), q))
      [] OTHER -> ReadScalar(r, buf, p)

-----------------------------------------------------------------------------
(* dynamic.ts: the binary type encoding before a Dynamic value             *)

Tags == [UInt8 |-> 1, UInt16 |-> 2, UInt32 |-> 3, UInt64 |-> 4, UInt128 |-> 5,
         UInt256 |-> 6, Int8 |-> 7, Int16 |-> 8, Int32 |-> 9, Int64 |-> 10,
         Int128 |-> 11, Int256 |-> 12, Float32 |-> 13, Float64 |-> 14,
         Date |-> 15, Date32 |-> 16, String |-> 21, UUID |-> 29, IPv4 |-> 40,
         IPv6 |-> 41, Bool |-> 45]
DecimalTags == [Decimal32 |-> 25, Decimal64 |-> 26, Decimal128 |-> 27,
                Decimal256 |-> 28]
TagName(tags, tag) == CHOOSE t \in DOMAIN tags : tags[t] = tag
INTERVAL_UNITS == <<"Nanosecond", "Microsecond", "Millisecond", "Second",
    "Minute", "Hour", "Day", "Week", "Month", "Quarter", "Year">>

\* n readers, or n names each with its reader: then the composite they make
TypesThen(n, buf, p, Make(_)) ==
    Then(FoldLeft(LAMBDA acc, i :
            Then(acc, LAMBDA types, q :
                Then(ReadDynamicType(buf, q), LAMBDA t, e : Got(Append(types, t), e))),
            Got(<<>>, p), Times(n, 0)),
         LAMBDA types, q : Got(Make(types), q))
FieldsThen(n, buf, p, Make(_, _)) ==
    Then(FoldLeft(LAMBDA acc, i :
            Then(acc, LAMBDA fields, q :
                Then(ReadString(buf, q), LAMBDA name, m :
                    Then(ReadDynamicType(buf, m), LAMBDA t, e :
                        Got([names |-> Append(fields.names, name.s),
                             types |-> Append(fields.types, t)], e)))),
            Got([names |-> <<>>, types |-> <<>>], p), Times(n, 0)),
         LAMBDA fields, q : Got(Make(fields.names, fields.types), q))
EnumNames(width, n, buf, p) ==
    Then(FoldLeft(LAMBDA acc, i :
            Then(acc, LAMBDA names, q :
                Then(ReadString(buf, q), LAMBDA name, m :
                    Then(ReadSigned(width, buf, m), LAMBDA value, e :
                        Got(Append(names, [name |-> name.s, value |-> value.v]), e)))),
            Got(<<>>, p), Times(n, 0)),
         LAMBDA names, q : Got([Sized("Enum", width) EXCEPT !.names = names], q))
SkipStrings(n, buf, p) ==
    FoldLeft(LAMBDA acc, i : Then(acc, LAMBDA v, q : ReadString(buf, q)),
             Got(Null, p), Times(n, 0))

JSONType(buf, p) ==
    Then(ReadUnsigned(1, buf, p), LAMBDA version, p1 :
    Then(ReadUVarint(buf, p1), LAMBDA maxPaths, p2 :
    Then(ReadUnsigned(1, buf, p2), LAMBDA maxTypes, p3 :
    Then(ReadUVarint(buf, p3), LAMBDA typed, p4 :
        IF typed.v # 0 THEN RangeError(p4)
        ELSE Then(ReadUVarint(buf, p4), LAMBDA paths, p5 :
             Then(SkipStrings(paths.v, buf, p5), LAMBDA v, p6 :
             Then(ReadUVarint(buf, p6), LAMBDA regexps, p7 :
             Then(SkipStrings(regexps.v, buf, p7), LAMBDA w, p8 :
                Got(Reader("JSON"), p8)))))))))

TypeAfter(tag, buf, p) ==
    LET Number(Make(_)) == Then(ReadUVarint(buf, p), LAMBDA n, q : Got(Make(n.v), q))
        Count(Make(_, _)) == Then(ReadUVarint(buf, p), LAMBDA n, q : Make(n.v, q))
        Zone(at, r) == Then(ReadString(buf, at), LAMBDA zone, q : Got(r, q))
        One(op) == TypesThen(1, buf, p, LAMBDA t : Of(op, t))
        Named(n, q) == FieldsThen(n, buf, q, LAMBDA names, types :
                            NamedFields("TupleNamed", names, types))
    IN  CASE tag = 0 -> Got(Reader("Null"), p)
          [] tag \in Range(Tags) -> Got(NULLARY[TagName(Tags, tag)], p)
          [] tag = 17 -> Got(Reader("DateTime"), p)
          [] tag = 18 -> Zone(p, Reader("DateTime"))
          [] tag = 19 -> Number(LAMBDA n : Sized("DateTime64", n))
          [] tag = 20 -> Count(LAMBDA n, q : Zone(q, Sized("DateTime64", n)))
          [] tag = 22 -> Number(LAMBDA n : Sized("FixedString", n))
          [] tag = 23 -> Count(LAMBDA n, q : EnumNames(1, n, buf, q))
          [] tag = 24 -> Count(LAMBDA n, q : EnumNames(2, n, buf, q))
          [] tag \in Range(DecimalTags) ->
                Count(LAMBDA precision, q : Then(ReadUVarint(buf, q), LAMBDA scale, e :
                    Got(Sized(TagName(DecimalTags, tag), scale.v), e)))
          [] tag = 30 -> One("Array")
          [] tag = 31 -> Count(LAMBDA n, q :
                            TypesThen(n, buf, q, LAMBDA types : Of("Tuple", types)))
          [] tag = 32 -> Count(Named)
          [] tag = 34 -> Then(ReadUnsigned(1, buf, p), LAMBDA kind, q :
                            IF kind.v < Len(INTERVAL_UNITS)
                            THEN Got([Reader("IntervalUnit") EXCEPT !.keys =
                                        <<INTERVAL_UNITS[kind.v + 1]>>], q)
                            ELSE RangeError(q))
          [] tag = 35 -> One("Nullable")
          [] tag = 38 -> ReadDynamicType(buf, p)
          [] tag = 39 -> TypesThen(2, buf, p, LAMBDA types : Of("Map", types))
          [] tag = 42 -> Count(LAMBDA n, q :
                            TypesThen(n, buf, q, LAMBDA types : Of("Variant", types)))
          [] tag = 43 -> Then(ReadUnsigned(1, buf, p), LAMBDA maxTypes, q :
                            Got(Reader("Dynamic"), q))
          [] tag = 47 -> Then(Count(Named), LAMBDA tuple, q : Got(Of("Array", <<tuple>>), q))
          [] tag = 48 -> JSONType(buf, p)
          [] OTHER -> RangeError(p)
ReadDynamicType(buf, p) ==
    Then(ReadUnsigned(1, buf, p), LAMBDA tag, q : TypeAfter(tag.v, buf, q))

-----------------------------------------------------------------------------
(* The writers                                                             *)

RECURSIVE Write(_, _)
WriteAll(writer, values) ==
    FlattenSeq([i \in 1..Len(values) |-> Write(writer, values[i])])

WriteScalar(r, v) ==
    CASE r.op \in {"Unsigned", "Signed"} -> WriteInteger(r.n, v)
      [] r.op = "Float" -> WriteFloat(v)
      [] r.op = "BFloat16" -> WriteBFloat16(v)
      [] r.op = "Bool" -> WriteBool(v)
      [] r.op = "String" -> WriteString(v)
      [] r.op = "FixedString" -> WriteFixedString(r.n, v)
      [] r.op \in {"UUID", "IPv6"} -> Write16(v)
      [] r.op = "IPv4" -> WriteIPv4(v)
      [] r.op = "Date" -> WriteDate(2, v)
      [] r.op = "Date32" -> WriteDate(4, v)
      [] r.op = "DateTime" -> WriteDateTime(v)
      [] r.op = "DateTime64" -> WriteDateTime64(r.n, v)
      [] r.op = "Time" -> WriteInteger(4, v)
      [] r.op \in {"Time64", "Interval"} -> WriteInteger(8, v)
      [] r.op = "Enum" -> WriteEnum(r.n, v)
      [] r.op \in DOMAIN DecimalWidths -> WriteDecimal(DecimalWidths[r.op], v)

WriteNullable(writer, v) == IF v = Null THEN <<1>> ELSE <<0>> \o Write(writer, v)
WriteArray(writer, v) == WriteUVarint(Len(v.items)) \o WriteAll(writer, v.items)
WriteTuple(writers, v) ==
    FlattenSeq([i \in 1..Len(writers) |-> Write(writers[i], v.items[i])])
WriteMap(key, value, v) ==
    WriteUVarint(Len(v.items)) \o WriteAll(Of("Tuple", <<key, value>>), v.items)
WriteVariant(writers, v) ==
    IF v = Null THEN <<255>> ELSE <<v.v>> \o Write(writers[v.v + 1], v.items[1])

Write(r, v) ==
    CASE r.op = "Nullable" -> WriteNullable(r.sub[1], v)
      [] r.op = "Array" -> WriteArray(r.sub[1], v)
      [] r.op \in {"Tuple", "TupleNamed"} -> WriteTuple(r.sub, v)
      [] r.op = "Map" -> WriteMap(r.sub[1], r.sub[2], v)
      [] r.op = "Variant" -> WriteVariant(r.sub, v)
      [] OTHER -> WriteScalar(r, v)
=============================================================================
