----------------------------- MODULE MCRequests -----------------------------
(* Configurations, URLs and calls for Requests                              *)
EXTENDS Requests, TLC

Ref(name) == <<0, name>>
MCContents ==
    Ref("settings") :> [a |-> "base", b |-> "base"] @@ Ref("headers") :> [c |-> "base"]
    @@ Ref("compression") :> [request |-> "br", response |-> "true"]
    @@ Ref("zstd") :> [request |-> "zstd"] @@ Ref("log") :> [level |-> "ERROR"]

Plain == [application |-> "own", session_id |-> "own", username |-> "own", pathname |-> "/own"]
MCConfigs == { [plain |-> Empty, nested |-> Empty],
    [plain |-> Plain @@ [role |-> "own"],
     nested |-> [clickhouse_settings |-> Ref("settings"), http_headers |-> Ref("headers"),
                 log |-> Ref("log")]],
    [plain |-> [access_token |-> "own", database |-> "own", tls |-> "Basic"],
     nested |-> [compression |-> Ref("compression"),
                 clickhouse_settings |-> Ref("settings")]],
    [plain |-> [tls |-> "Mutual", use_multipart_params_auto |-> "true"],
     nested |-> [http_headers |-> Ref("headers")]],
    [plain |-> [tls |-> "Basic", http_agent |-> "own", use_multipart_params |-> "true",
                set_basic_auth_header |-> "false"],
     nested |-> Empty],
    [plain |-> Empty, nested |-> [compression |-> Ref("zstd"), http_headers |-> Ref("headers")]] }

Url(params) ==
    [protocol |-> "http:", username |-> "", password |-> "", path |-> "", params |-> params]
Option(name, value) == [prefix |-> "", name |-> name, value |-> value]
Prefixed(prefix, name, value) == [prefix |-> prefix, name |-> name, value |-> value]
MCURLs == { Url(<<>>), [Url(<<>>) EXCEPT !.protocol = "https:"],
    [Url(<<>>) EXCEPT !.protocol = "ftp:"],
    [Url(<<Option("application", "url")>>) EXCEPT !.username = "url", !.password = "url",
        !.path = "url"],
    Url(<<Prefixed("ch_", "a", "url1")>>),
    Url(<<Prefixed("clickhouse_setting_", "a", "url2"), Prefixed("ch_", "a", "url3"),
          Prefixed("http_header_", "c", "url")>>),
    Url(<<Prefixed("http_header_", "c", "url4"), Prefixed("ch_", "b", "url4"),
          Prefixed("ch_", "a", "url4"), Option("application", "url"),
          Prefixed("ch_", "a", "url4"), Prefixed("http_header_", "d", "url4")>>),
    Url(<<Option("session_id", "url")>>), Url(<<Option("unknown", "1")>>),
    Url(<<Option("access_token", "url"), Prefixed("ch_", "b", "url5")>>),
    Url(<<Option("request_timeout", "blank"), Option("max_open_connections", "one"),
          Option("pathname", "/url")>>),
    Url(<<Option("max_open_connections", "zero")>>), Url(<<Option("request_timeout", "n90000")>>),
    Url(<<Option("compression_request", "1"), Option("compression_response", "true"),
          Option("log_level", "TRACE")>>),
    Url(<<Option("compression_request", "false"), Option("keep_alive_enabled", "0")>>),
    Url(<<Option("keep_alive_idle_socket_ttl", "one"), Option("log_level", "loud")>>),
    Url(<<Option("keep_alive_idle_socket_ttl", "one"),
          Option("keep_alive_idle_socket_ttl", "n90000")>>) }

-----------------------------------------------------------------------------
String == Type("String", <<>>)
Int32 == Type("Int32", <<>>)
Moment == Type("DateTime64", <<>>)
Optional(type) == Type("Nullable", <<type>>)
Awkward == Str(<<"a", "quote", "backslash", "tab", "newline", "return", "N", "e_acute">>)
ParamValues == { <<Awkward, String>>, <<Str(<<>>), String>>, <<Null, Optional(String)>>,
    <<Str(<<"backslash", "N">>), Optional(String)>>, <<Num(-70), Int32>>,
    <<NaN, Type("Float64", <<>>)>>, <<Infinity(1), Type("Float64", <<>>)>>,
    <<Infinity(-1), Type("Float64", <<>>)>>, <<Bool(1), Type("Bool", <<>>)>>,
    <<List(<<Null, Str(<<"quote", ",", "]">>), Str(<<>>)>>), Type("Array", <<Optional(String)>>)>>,
    <<List(<<List(<<>>), List(<<Num(-5), Num(12)>>)>>), Type("Array", <<Type("Array", <<Int32>>)>>)>>,
    <<TupleParam(<<Num(3), Str(<<")">>), Bool(0), JSDate(86400 * 3 + 5, 250)>>),
      Type("Tuple", <<Int32, String, Type("Bool", <<>>), Moment>>)>>,
    <<EntriesValue(<<List(<<Str(<<"a">>), JSDate(-5, 0)>>), List(<<Str(<<"b", ":">>), Null>>)>>),
      Type("Map", <<String, Optional(Moment)>>)>>,
    <<JSDate(1000, 0), Moment>>, <<JSDate(1659081134, 42), Moment>>, <<JSDate(-5, 0), Moment>>,
    <<JSDate(-1000000001, 0), Moment>> }
P(name, pair) == Param(name, pair[1], pair[2])
Short == P(<<"n">>, <<Num(7), Int32>>)
Spaced == P(<<"p", "space">>, <<Str(<<"x", "space", "quote">>), String>>)

Select == <<"space", "SELECT", "semicolon", "1", "semicolon", "semicolon", "newline">>
Q == Call("query", Select)
Ops == {Q, [Q EXCEPT !.op = "exec"], [Q EXCEPT !.op = "command"]}
Insert == [Call("insert", <<"t">>) EXCEPT !.format = "JSONEachRow",
              !.values = [kind |-> "array", rows |-> <<"r1", "r2">>]]
AsMap(key, value) == EntriesValue(<<List(<<Str(key), Str(value)>>)>>)
Settings == [a |-> Num(-3), b |-> Undefined, c |-> Bool(1),
             d |-> AsMap(<<"t">>, <<"n", ",", "1">>)]
FewSettings == [a |-> Str(<<"own">>), d |-> AsMap(<<"quote">>, <<"x">>)]

ParamCalls ==
    {[Q EXCEPT !.params = <<P(<<"p">>, v)>>] : v \in ParamValues}
    \cup {[Q EXCEPT !.params = <<P(<<"p">>, v), Short>>, !.auto = "true",
              !.multipart = "false"] : v \in ParamValues}
    \cup {[c EXCEPT !.params = <<Short, Spaced>>, !.query_id = "own"] : c \in Ops}
    \cup {[Q EXCEPT !.params = <<Short>>, !.multipart = m, !.auto = a] :
              m \in {"undefined", "true", "false"}, a \in {"undefined", "true", "false"}}
    \cup {[Q EXCEPT !.params = <<Spaced>>, !.multipart = "true"]}
SettingCalls ==
    {[c EXCEPT !.settings = Settings, !.session_id = "", !.role = <<<<"r", "s">>>>,
               !.http_headers = [c |-> <<"call">>]] : c \in Ops \cup {Insert}}
    \cup {[Q EXCEPT !.settings = FewSettings, !.role = <<<<>>>>, !.session_id = "call"],
          [Q EXCEPT !.settings = [enable_http_compression |-> Num(1)]],
          [Q EXCEPT !.settings = [enable_http_compression |-> Str(<<"1">>)]],
          [Q EXCEPT !.settings = [a |-> Null]]}
AuthCalls ==
    {[c EXCEPT !.auth = a] : c \in {Q, Insert}, a \in {Credentials("call", "key"), Token("call")}}
PingCalls == {[Call("ping", <<>>) EXCEPT !.select = s] : s \in BOOLEAN}
Statements == { Call("query", <<"semicolon", "semicolon">>), Call("query", <<>>),
                Call("query", <<"SHOW">>),
                [Call("exec", Select) EXCEPT !.values = [kind |-> "stream", rows |-> <<"r1">>]] }
InsertCalls ==
    {[Insert EXCEPT !.values.kind = k, !.format = f] :
        k \in {"array", "object", "stream", "object stream", "scalar"},
        f \in {"JSONEachRow", "JSONObjectEachRow", "CSV", "Parquet"}}
    \cup {[Insert EXCEPT !.values.rows = <<>>], [Insert EXCEPT !.columns = <<"some", "x", "y">>],
          [Insert EXCEPT !.columns = <<"except", "x">>]}
MCCalls == ParamCalls \cup SettingCalls \cup AuthCalls \cup PingCalls \cup Statements
               \cup InsertCalls
BothPlatforms == {"node", "web"}

=============================================================================
