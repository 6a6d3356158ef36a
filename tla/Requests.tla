------------------------------ MODULE Requests ------------------------------
(***************************************************************************)
(* From a call of a client to the HTTP request: the settings, the session, *)
(* the role, the user and the headers of the call over those of the client,*)
(* the statement, the query parameters in the URL or in multipart parts,   *)
(* and the values of an insert.                                            *)
(*                                                                         *)
(* Settings and headers of a client are read from its configuration with   *)
(* every request.                                                           *)
(***************************************************************************)
EXTENDS ClientConfig, QueryParams

CONSTANTS
    Calls,                      \* calls of operations, see Call
    MAX_URL_BIND_PARAM_LENGTH,
    SendingClients              \* bound: clients created before requests are sent

ASSUME RequestsAssumption ==
    /\ MAX_URL_BIND_PARAM_LENGTH \in Nat
    /\ SendingClients \in Nat

VARIABLES
    call,           \* the last call, and the creation of its client
    request         \* what became of it

requestVars == <<objects, creations, call, request>>

-----------------------------------------------------------------------------
(* Calls.  A setting and a parameter are JavaScript values, a text is a     *)
(* sequence, a header is a sequence of words; role <<>> is undefined.       *)

Undefined == Value("undefined")
NoAuth == [kind |-> "none", username |-> "", password |-> "", token |-> ""]
Credentials(username, password) ==
    [NoAuth EXCEPT !.kind = "credentials", !.username = username, !.password = password]
Token(token) == [NoAuth EXCEPT !.kind = "token", !.token = token]
Param(name, value, type) == [name |-> name, value |-> value, type |-> type]
NoValues == [kind |-> "undefined", rows |-> <<>>]
Call(op, text) ==
    [op |-> op, text |-> text, format |-> "JSON", settings |-> Empty, params |-> <<>>,
     query_id |-> "", session_id |-> "undefined", role |-> <<>>, auth |-> NoAuth,
     http_headers |-> Empty, multipart |-> "undefined", auto |-> "undefined",
     values |-> NoValues, columns |-> <<"all">>, select |-> FALSE]

NoCall == Call("none", <<>>)
NoRequest == [status |-> "none"]
Refused == [status |-> "refused"]       \* an error before anything is sent
NotExecuted == [status |-> "not executed"]
Sent(method, path, entries, headers, body) ==
    [status |-> "sent", method |-> method, path |-> path, entries |-> entries,
     headers |-> headers, body |-> body]
Body(kind, text) == [kind |-> kind, text |-> text, parts |-> <<>>, rows |-> <<>>, codec |-> "undefined"]

Only(key, value) == [k \in {key} |-> value]

-----------------------------------------------------------------------------
(* client.ts                                                               *)

ClientSettings(client) ==
    [k \in DOMAIN objects[client.clickhouse_settings] |->
        Str(<<objects[client.clickhouse_settings][k]>>)]
withClientQueryParams(client, c) ==
    [c EXCEPT !.settings = Overlay(ClientSettings(client), @),
              !.session_id = OrElse(@, client.session_id),
              !.role = IF @ = <<>> /\ client.role # "undefined" THEN <<<<client.role>>>> ELSE @]

Blank == {"space", "newline"}
\* The text between its first and last symbol that is not in the set
From(text, Kept(_)) ==
    LET at == {i \in 1..Len(text) : Kept(text[i])}
    IN  IF at = {} THEN <<>> ELSE SubSeq(text, CHOOSE i \in at : \A j \in at : i <= j, Len(text))
Trim(text) ==
    Reverse(From(Reverse(From(text, LAMBDA c : c \notin Blank)), LAMBDA c : c \notin Blank))
\* A text of nothing but semicolons is left alone.
removeTrailingSemi(text) ==
    LET stripped == Reverse(From(Reverse(text), LAMBDA c : c # "semicolon"))
    IN  IF stripped = <<>> THEN text ELSE stripped
formatQuery(c) == removeTrailingSemi(Trim(c.text)) \o <<"FORMAT", c.format>>

\* columns: all, a list of names, or all except a list of names
getInsertQuery(c) ==
    LET names == Tail(c.columns)
        part == CASE c.columns[1] = "all" \/ names = <<>> -> <<>>
                  [] c.columns[1] = "some" -> <<"(">> \o names \o <<")">>
                  [] OTHER -> <<"(", "EXCEPT">> \o names \o <<")">>
    IN  <<"INSERT INTO">> \o Trim(c.text) \o part \o <<"FORMAT", c.format>>

-----------------------------------------------------------------------------
(* formatter.ts, encoder.ts                                                *)

StreamableJSONFormats == {"JSONEachRow", "JSONStringsEachRow", "JSONCompactEachRow",
    "JSONCompactStringsEachRow", "JSONCompactEachRowWithNames",
    "JSONCompactEachRowWithNamesAndTypes", "JSONCompactStringsEachRowWithNames",
    "JSONCompactStringsEachRowWithNamesAndTypes", "JSONEachRowWithProgress"}
SupportedJSONFormats == StreamableJSONFormats \cup {"JSONObjectEachRow", "JSON",
    "JSONStrings", "JSONCompact", "JSONCompactStrings", "JSONColumnsWithMetadata"}
SupportedRawFormats == {"CSV", "CSVWithNames", "CSVWithNamesAndTypes", "TabSeparated",
    "TabSeparatedRaw", "TabSeparatedWithNames", "TabSeparatedWithNamesAndTypes",
    "CustomSeparated", "CustomSeparatedWithNames", "CustomSeparatedWithNamesAndTypes",
    "Parquet"}

StreamKinds == {"stream", "object stream"}
validateInsertValues(values, format, platform) ==
    CASE values.kind \in {"array", "object"} -> TRUE
      [] values.kind \in StreamKinds /\ platform = "node" ->
            (values.kind = "stream") = (format \in SupportedRawFormats)
      [] OTHER -> FALSE

\* A stream of bytes is the body as it is; anything else is a line of JSON per
\* value, in a format that has such lines.
encodable(values, format) ==
    values.kind = "stream" \/ format \in SupportedJSONFormats
encodeValues(values) ==
    [Body(IF values.kind = "stream" THEN "bytes" ELSE "lines", <<>>)
        EXCEPT !.rows = values.rows]

-----------------------------------------------------------------------------
(* url.ts, multipart.ts, format_query_settings.ts                          *)

\* A map is printed with its keys and values in quotes, as they are.
SettingsMapText(value) ==
    <<"{">> \o Separated([i \in 1..Len(value.items) |->
        <<"quote">> \o value.items[i].items[1].s \o <<"quote", ":", "quote">>
            \o value.items[i].items[2].s \o <<"quote">>]) \o <<"}">>
formatQuerySettings(value) ==
    CASE value.t = "boolean" -> <<DigitSymbols[value.v + 1]>>
      [] value.t = "number" -> TextOfNumber(value.v)
      [] value.t = "string" -> value.s
      [] value.t = "Map" -> SettingsMapText(value)
SupportedSetting(value) == value.t \in {"boolean", "number", "string", "Map", "undefined"}

\* Percent-encoding triples what is not a letter, a digit or one of *-._ and
\* the space; a symbol that stands for a word counts as one character.
Tripled == {"tab", "newline", "return", "quote", "backslash", ",", ":", "(", ")", "[", "]",
            "{", "}", "+", "/"}
EncodedSize(text) ==
    FoldLeft(LAMBDA n, c : n + IF c = "e_acute" THEN 6 ELSE IF c \in Tripled THEN 3 ELSE 1,
             0, text)
ParamEntries(params) ==
    [i \in 1..Len(params) |->
        <<<<"param_">> \o params[i].name, formatQueryParams(params[i].value)>>]
EncodedLength(entries) ==
    FoldLeft(LAMBDA n, e : n + EncodedSize(e[1]) + EncodedSize(e[2]) + 1,
             Len(entries) - 1, entries)
RawLength(entries) == FoldLeft(LAMBDA n, e : n + Len(e[1]) + Len(e[2]), 0, entries)
\* Null as soon as the raw length is beyond the budget, or the encoded one is
FitsURL_Raw(entries) == RawLength(entries) <= MAX_URL_BIND_PARAM_LENGTH
FitsURL(entries) ==
    /\ RawLength(entries) <= MAX_URL_BIND_PARAM_LENGTH
    /\ EncodedLength(entries) <= MAX_URL_BIND_PARAM_LENGTH

\* query is in the URL only when it is not in the body
toSearchParams(database, c, paramEntries, query) ==
    LET settings == SetToSeq({k \in DOMAIN c.settings : c.settings[k] # Undefined})
        Part(key, text) == IF text = <<>> THEN <<>> ELSE <<<<<<key>>, text>>>>
        roles == IF c.role = <<>> THEN <<>> ELSE c.role[1]
    IN  <<<<<<"query_id">>, <<IF c.query_id = "" THEN "generated" ELSE c.query_id>>>>>>
            \o paramEntries
            \o [i \in 1..Len(settings) |->
                   <<<<settings[i]>>, formatQuerySettings(c.settings[settings[i]])>>]
            \o Part("database", IF database = "default" THEN <<>> ELSE <<database>>)
            \o Part("query", query)
            \o Part("session_id", IF c.session_id \in {"", "undefined"} THEN <<>>
                                  ELSE <<c.session_id>>)
            \o [i \in 1..Len(roles) |-> <<<<"role">>, <<roles[i]>>>>]

SafePartName(name) == name # <<>> /\ Range(name) \cap (Tripled \cup Blank \cup {"e_acute"}) = {}
buildMultipartBody(query, entries) ==
    [Body("multipart", <<>>) EXCEPT !.parts = <<<<<<"query">>, query>>>> \o entries]

Encoding(codec) == IF codec = "undefined" THEN Empty ELSE Only("Accept-Encoding", <<codec>>)
withCompressionHeaders(headers, requestCodec, responseCodec) ==
    Overlay(Overlay(headers, Encoding(responseCodec)),
            IF requestCodec = "undefined" THEN Empty
            ELSE Only("Content-Encoding", <<requestCodec>>))
withHttpSettings(client, settings) ==
    Overlay(IF client.response = "undefined" THEN Empty
            ELSE Only("enable_http_compression", Num(1)), settings)

-----------------------------------------------------------------------------
(* Headers of the connections                                              *)

AuthOf(client) ==
    IF client.access_token # "undefined" THEN Token(client.access_token)
    ELSE Credentials(client.username, client.password)
HeaderOf(auth) ==
    IF auth.kind = "token" THEN <<"Bearer", auth.token>>
    ELSE <<"Basic", auth.username, ":", auth.password>>

ClientHeaders(client) ==
    [k \in DOMAIN objects[client.http_headers] |-> <<objects[client.http_headers][k]>>]
defaultHeadersWithOverride(client, c) ==
    LET custom == Overlay(ClientHeaders(client), c.http_headers)
        default == [h \in {"Connection", "User-Agent"} |->
            IF h = "User-Agent" THEN <<"clickhouse-js", client.application>>
            ELSE IF client.enabled = "true" THEN <<"keep-alive">> ELSE <<"close">>]
    IN  IF client.platform = "web" THEN custom ELSE Overlay(custom, default)

\* NodeHttpsConnection with certificates; an agent of the caller's takes no
\* notice of them.
UsesTLS(client) ==
    /\ client.platform = "node" /\ client.protocol = "https:"
    /\ client.http_agent = "undefined" /\ client.tls # "undefined"
TLSHeaders(client, c) ==
    LET auth == IF c.auth.kind = "credentials" THEN c.auth ELSE AuthOf(client)
        user == [h \in {"X-ClickHouse-User", "X-ClickHouse-Key"} |->
                    IF h = "X-ClickHouse-User" THEN <<auth.username>> ELSE <<auth.password>>]
    IN  IF client.tls = "Basic" THEN user
        ELSE Overlay(user, Only("X-ClickHouse-SSL-Certificate-Auth", <<"on">>))
AuthHeaders(client, c) ==
    LET auth == IF c.auth.kind = "none" THEN AuthOf(client) ELSE c.auth
    IN  IF UsesTLS(client) THEN TLSHeaders(client, c)
        ELSE IF client.platform = "web" \/ client.set_basic_auth_header = "true"
                \/ c.auth.kind = "token"
        THEN Only("Authorization", HeaderOf(auth)) ELSE Empty
buildRequestHeaders(client, c) ==
    Overlay(defaultHeadersWithOverride(client, c), AuthHeaders(client, c))
HeadersRefused(client) == UsesTLS(client) /\ client.access_token # "undefined"

-----------------------------------------------------------------------------
(* compression.ts: how a response is decompressed, and a request compressed *)

decompressResponse(encoding) ==
    CASE encoding = "undefined" -> "as it is"
      [] encoding \in {"gzip", "br"} -> encoding
      [] encoding = "zstd" /\ ZstdAvailable -> encoding
      [] OTHER -> "error"
createRequestCompressor(body, codec) == [body EXCEPT !.codec = codec]

-----------------------------------------------------------------------------
(* The operations                                                          *)

SettingsRefused(c) == \E k \in DOMAIN c.settings : ~SupportedSetting(c.settings[k])

\* What the call says, else what the client does
Preferred(own, default) == IF own = "undefined" THEN default = "true" ELSE own = "true"
\* In parts on demand, or, in auto mode, when the URL would be too long
UseMultipart(client, c) ==
    /\ c.params # <<>>
    /\ \/ Preferred(c.multipart, client.use_multipart_params)
       \/ /\ Preferred(c.auto, client.use_multipart_params_auto)
          /\ ~FitsURL(ParamEntries(c.params))

query(client, c0) ==
    LET c == [withClientQueryParams(client, c0) EXCEPT
                 !.settings = withHttpSettings(client, @)]
        multipart == UseMultipart(client, c)
        entries == ParamEntries(c.params)
        text == formatQuery(c)
        asked == /\ "enable_http_compression" \in DOMAIN c.settings
                 /\ c.settings["enable_http_compression"] = Num(1)
        codec == IF client.platform = "web" THEN client.response
                 ELSE IF asked THEN OrElse(client.response, "gzip") ELSE "undefined"
        headers == IF multipart
                   THEN Overlay(buildRequestHeaders(client, c),
                                Only("Content-Type", <<"multipart/form-data">>))
                   ELSE buildRequestHeaders(client, c)
        unsafe == multipart /\ \E i \in 1..Len(entries) : ~SafePartName(entries[i][1])
    IN  IF unsafe \/ SettingsRefused(c) \/ HeadersRefused(client) THEN Refused
        ELSE Sent("POST", <<client.pathname>>,
                  toSearchParams(client.database, c, IF multipart THEN <<>> ELSE entries, <<>>),
                  withCompressionHeaders(headers, "undefined", codec),
                  IF multipart THEN buildMultipartBody(text, entries) ELSE Body("text", text))

\* exec and command.  Only the Node.js client compresses what it sends, and
\* only it sends values, with the statement in the URL.
runExec(client, c0) ==
    LET c1 == withClientQueryParams(client, c0)
        onNode == client.platform = "node"
        c == IF onNode THEN [c1 EXCEPT !.settings = withHttpSettings(client, @)] ELSE c1
        text == removeTrailingSemi(Trim(c.text))
        inURL == onNode /\ c.op = "exec" /\ c.values # NoValues
        codec == IF onNode THEN client.request ELSE "undefined"
        body == IF inURL THEN [Body("bytes", <<>>) EXCEPT !.rows = c.values.rows]
                ELSE Body("text", text)
    IN  IF SettingsRefused(c) \/ HeadersRefused(client) THEN Refused
        ELSE Sent("POST", <<client.pathname>>,
                  toSearchParams(client.database, c, ParamEntries(c.params),
                                 IF inURL THEN text ELSE <<>>),
                  withCompressionHeaders(buildRequestHeaders(client, c), codec, client.response),
                  createRequestCompressor(body, codec))

insert(client, c0) ==
    LET c == withClientQueryParams(client, c0)
        onNode == client.platform = "node"
        codec == IF onNode THEN client.request ELSE "undefined"
    IN  IF c.values.kind = "array" /\ c.values.rows = <<>> THEN NotExecuted
        ELSE IF ~validateInsertValues(c.values, c.format, client.platform)
                \/ ~encodable(c.values, c.format)
                \/ SettingsRefused(c) \/ HeadersRefused(client)
        THEN Refused
        ELSE Sent("POST", <<client.pathname>>,
                  toSearchParams(client.database, c, ParamEntries(c.params), getInsertQuery(c)),
                  withCompressionHeaders(buildRequestHeaders(client, c), codec,
                                         IF onNode THEN "undefined" ELSE client.response),
                  createRequestCompressor(encodeValues(c.values), codec))

\* With the client's own settings left out; a SELECT proves the credentials.
ping(client, c) ==
    LET select == client.platform = "web" \/ c.select
        path == IF select THEN <<client.pathname>>
                ELSE IF client.pathname = "/" THEN <<"/ping">>
                ELSE <<client.pathname, "/ping">>
        id == IF client.platform = "web" THEN "" ELSE c.query_id
    IN  IF HeadersRefused(client) THEN Refused
        ELSE Sent("GET", path,
                  IF select THEN toSearchParams("default", [NoCall EXCEPT !.query_id = id], <<>>,
                                                <<"SELECT", "ping">>)
                  ELSE <<>>,
                  withCompressionHeaders(buildRequestHeaders(client, NoCall), "undefined",
                      IF client.platform = "web" THEN client.response ELSE "undefined"),
                  Body("none", <<>>))

Operation(client, c) ==
    CASE c.op = "query" -> query(client, c)
      [] c.op \in {"exec", "command"} -> runExec(client, c)
      [] c.op = "insert" -> insert(client, c)
      [] c.op = "ping" -> ping(client, c)

\* A request leaves nothing behind that the next one would see.
Send ==
    /\ request = NoRequest
    /\ Len(creations) <= SendingClients
    /\ \E i \in DOMAIN creations, c \in Calls : \E client \in creations[i].client :
           /\ call' = <<i, c>>
           /\ request' = Operation(client, c)
    /\ UNCHANGED configVars

RequestsInit == ConfigInit /\ call = <<>> /\ request = NoRequest
\* After a request no client is created: those are the subject of other behaviours.
RequestsNext ==
    \/ call = <<>> /\ CreateClient /\ UNCHANGED <<call, request>>
    \/ Send
RequestsSpec == RequestsInit /\ [][RequestsNext]_requestVars

-----------------------------------------------------------------------------
(* Properties, of a request that has been sent                             *)

Valued(key) ==
    LET all == SelectSeq(request.entries \o request.body.parts, LAMBDA e : e[1] = key)
    IN  [i \in 1..Len(all) |-> all[i][2]]
StringMap == Type("Map", <<Type("String", <<>>), Type("String", <<>>)>>)
HasQuote(value) ==
    \E i \in 1..Len(value.items), j \in 1..2 :
        Range(value.items[i].items[j].s) \cap {"quote", "backslash"} # {}

\* Every parameter of the call is in the request once, in the URL or in a part
\* of the body, and the server reads the value that was meant; the timestamp of
\* an early date, below, it does not (formatQueryParams, serializeQueryParamsForUrl)
EarlyDate(value) ==
    value.t = "JSDate" /\ value.v < 0
        /\ (Len(TextOfNumber(value.v)) < 10 \/ value.b[1] # 0)
ParamsArrive(c) ==
    \A i \in 1..Len(c.params) :
        LET p == c.params[i]
            texts == Valued(<<"param_">> \o p.name)
        IN  /\ Len(texts) = 1
            /\ ~EarlyDate(p.value) => ServerValue(p.type, texts[1]) = <<Meant(p.value, FALSE)>>

\* In auto mode the parameters of a query are in the URL when, and only when,
\* their encoded length is within the budget
WithinBudget(client, c) ==
    LET entries == SelectSeq(request.entries, LAMBDA e : e[1][1] = "param_")
    IN  c.op = "query" /\ Preferred(c.auto, client.use_multipart_params_auto)
            /\ ~Preferred(c.multipart, client.use_multipart_params)
        => (entries = ParamEntries(c.params)) =
               (EncodedLength(ParamEntries(c.params)) <= MAX_URL_BIND_PARAM_LENGTH)

\* The statement is in one place, in its format, and nothing ends it earlier
StatementArrives(c) ==
    LET texts == Valued(<<"query">>)
                    \o (IF request.body.kind = "text" THEN <<request.body.text>> ELSE <<>>)
        n == Len(texts[1]) - (IF c.op \in {"query", "insert"} THEN 2 ELSE 0)
    IN  /\ Len(texts) = 1
        /\ c.op \in {"query", "insert"} => SubSeq(texts[1], n + 1, n + 2) = <<"FORMAT", c.format>>
        /\ Range(c.text) \subseteq {"semicolon"} \cup Blank \/ texts[1][n] # "semicolon"

\* Settings, session and roles are those of the call, and otherwise what the
\* client's configuration says now; a call can also take them away.  A quote in
\* a map of settings is not escaped.
SettingRead(value, text) ==
    CASE value.t = "Map" -> HasQuote(value) \/ ServerValue(StringMap, text) = <<value>>
      [] value.t = "number" -> ReadNumber(text, 1).value = value
      [] value.t = "boolean" -> text = <<IF value.v = 1 THEN "1" ELSE "0">>
      [] OTHER -> text = value.s
CallWins(client, c) ==
    LET own == ClientSettings(client)
        session == OrElse(c.session_id, client.session_id)
        roles == IF c.role # <<>> THEN c.role[1]
                 ELSE IF client.role = "undefined" THEN <<>> ELSE <<client.role>>
        all == [k \in DOMAIN own \cup DOMAIN c.settings |->
                    IF k \in DOMAIN c.settings THEN c.settings[k] ELSE own[k]]
    IN  /\ \A k \in DOMAIN all :
               LET texts == Valued(<<k>>)
               IN  IF all[k] = Undefined THEN texts = <<>>
                   ELSE Len(texts) = 1 /\ SettingRead(all[k], texts[1])
        /\ Valued(<<"session_id">>) =
               IF session \in {"", "undefined"} THEN <<>> ELSE <<<<session>>>>
        /\ Valued(<<"role">>) = [i \in 1..Len(roles) |-> <<roles[i]>>]

\* The request is made as the user of the call, and otherwise as the user of
\* the client, however the connection sends the name.  Two things are not so.
\* A token is not heard by a connection that has certificates.  And where
\* set_basic_auth_header is false in Node.js nobody is named, by a name or by
\* the client's own access_token, but by the token of a call: the headers that
\* the configuration lists are then all there are.
\* The headers of the call replace those of the client.
Reserved == {"Connection", "User-Agent", "Authorization", "Accept-Encoding",
             "Content-Encoding", "Content-Type", "X-ClickHouse-User", "X-ClickHouse-Key"}
Anonymous(client, c) ==
    /\ ~UsesTLS(client) /\ client.platform = "node"
    /\ client.set_basic_auth_header # "true" /\ c.auth.kind # "token"
UserArrives(client, c) ==
    LET auth == IF c.auth.kind = "none" \/ c.op = "ping" THEN AuthOf(client) ELSE c.auth
        h == request.headers
        own == ClientHeaders(client)
        given == IF c.op = "ping" THEN Empty ELSE c.http_headers
        identity == {"Authorization", "X-ClickHouse-User", "X-ClickHouse-Key"}
    IN  /\ \/ UsesTLS(client) /\ auth.kind = "token"
           \/ Anonymous(client, c)
                  /\ DOMAIN h \cap identity \subseteq DOMAIN own \cup DOMAIN given
           \/ "Authorization" \in DOMAIN h /\ h["Authorization"] = HeaderOf(auth)
           \/ /\ {"X-ClickHouse-User", "X-ClickHouse-Key"} \subseteq DOMAIN h
              /\ h["X-ClickHouse-User"] = <<auth.username>>
              /\ h["X-ClickHouse-Key"] = <<auth.password>>
        /\ \A k \in (DOMAIN own \cup DOMAIN given) \ Reserved :
               h[k] = IF k \in DOMAIN given THEN given[k] ELSE own[k]

\* A body says how it is compressed, and the encoding that is asked for is one
\* that this platform decompresses
Readable(client) ==
    LET asked == IF "Accept-Encoding" \in DOMAIN request.headers
                 THEN request.headers["Accept-Encoding"] ELSE <<"undefined">>
    IN  /\ client.platform = "node" => decompressResponse(asked[1]) # "error"
        /\ request.body.codec # "undefined" =>
               request.headers["Content-Encoding"] = <<request.body.codec>>

\* The values of an insert are bytes in a format of bytes and lines of JSON in
\* a format of JSON, and all of them
ValuesFit(c) ==
    c.op = "insert" =>
        /\ request.body.rows = c.values.rows
        /\ (request.body.kind = "bytes") = (c.format \in SupportedRawFormats)

RequestSaysTheCall ==
    request.status = "sent" =>
        LET client == CHOOSE c \in creations[call[1]].client : TRUE
            c == call[2]
        IN  /\ UserArrives(client, c) /\ Readable(client) /\ ValuesFit(c)
            /\ c.op # "ping" =>
                   /\ ParamsArrive(c) /\ WithinBudget(client, c)
                   /\ StatementArrives(c) /\ CallWins(client, c)

=============================================================================
