---------------------------- MODULE ClientConfig ----------------------------
(***************************************************************************)
(* createClient: how the caller's options, the URL and the defaults become *)
(* the parameters of a connection.                                         *)
(*                                                                         *)
(* An option is named by its path, <<"application">> or <<"log", "level">>.*)
(* The caller's configuration has plain options and, for the five nested   *)
(* ones, references to objects, which the code neither copies nor freezes: *)
(* two clients may share them, and merging the URL writes into them.       *)
(* Values are strings; "undefined" is an option that is absent.            *)
(***************************************************************************)
EXTENDS Integers, Sequences

CONSTANTS
    Configs,        \* configurations of callers: [plain, nested]
    Contents,       \* what their nested objects hold at first
    URLs,           \* [protocol, username, password, path, params]
    Platforms,      \* "node", "web"
    ZstdAvailable,  \* zlib of this Node.js has zstd
    MaxCreations    \* bound: calls of createClient

Nested == {"clickhouse_settings", "http_headers", "compression", "log", "keep_alive"}
UrlPrefixes == [clickhouse_setting_ |-> "clickhouse_settings",
             ch_ |-> "clickhouse_settings", http_header_ |-> "http_headers"]

\* A nested object is shared under one name: as the settings of two clients,
\* say, and never as the settings of one and the headers of another.  The
\* objects that the code makes, <<n, name>>, are none of the callers'.
ASSUME ConfigAssumption ==
    /\ Platforms \subseteq {"node", "web"}
    /\ ZstdAvailable \in BOOLEAN
    /\ MaxCreations \in Nat
    /\ \A config \in Configs : \A name \in DOMAIN config.nested :
           name \in Nested /\ config.nested[name] \in DOMAIN Contents
    /\ \A config1, config2 \in Configs :
           \A name1 \in DOMAIN config1.nested, name2 \in DOMAIN config2.nested :
               config1.nested[name1] = config2.nested[name2] => name1 = name2
    /\ \A n \in 1..MaxCreations, name \in Nested : <<n, name>> \notin DOMAIN Contents

VARIABLES
    objects,        \* contents of the nested objects, by reference
    creations       \* calls of createClient, with the client or an error

configVars == <<objects, creations>>

Empty == [key \in {} |-> "undefined"]
Get(f, key) == IF key \in DOMAIN f THEN f[key] ELSE "undefined"
Overlay(f, g) ==
    [k \in DOMAIN f \cup DOMAIN g |-> IF k \in DOMAIN g THEN g[k] ELSE f[k]]
OrElse(value, default) == IF value = "undefined" THEN default ELSE value

-----------------------------------------------------------------------------
(* loadConfigOptionsFromURL.  A parameter is [prefix, name, value].         *)

Known == [application |-> <<"application">>, pathname |-> <<"pathname">>,
    session_id |-> <<"session_id">>, access_token |-> <<"access_token">>,
    request_timeout |-> <<"request_timeout">>,
    max_open_connections |-> <<"max_open_connections">>,
    compression_request |-> <<"compression", "request">>,
    compression_response |-> <<"compression", "response">>,
    log_level |-> <<"log", "level">>, keep_alive_enabled |-> <<"keep_alive", "enabled">>]
\* handle_specific_url_params of the Node.js client
NodeOnly == [keep_alive_idle_socket_ttl |-> <<"keep_alive", "idle_socket_ttl">>]

PathOf(param) ==
    IF param.prefix # "" THEN <<UrlPrefixes[param.prefix], param.name>>
    ELSE IF param.name \in DOMAIN Known THEN Known[param.name]
    ELSE IF param.name \in DOMAIN NodeOnly THEN NodeOnly[param.name]
    ELSE <<"unknown">>
IsKnown(param, platform) ==
    \/ param.prefix # ""
    \/ param.name \in DOMAIN Known
    \/ platform = "node" /\ param.name \in DOMAIN NodeOnly

NumericValues == [blank |-> 0, minus1 |-> -1, zero |-> 0, one |-> 1, n90000 |-> 90000]
booleanConfigURLValue(value) ==
    CASE value \in {"true", "1"} -> "true"
      [] value \in {"false", "0"} -> "false"
      [] OTHER -> "invalid"
numberConfigURLValue(value, min) ==
    IF value \in DOMAIN NumericValues /\ NumericValues[value] >= min THEN value ELSE "invalid"
enumConfigURLValue(value) ==
    IF value \in {"TRACE", "DEBUG", "INFO", "WARN", "ERROR", "OFF"} THEN value
    ELSE "invalid"

\* The second of two parameters with one key finds the first one deleted: the
\* value is null, which the parsers cannot trim.  The handler of the Node.js
\* client deletes nothing, and gets the first one's value again.
ValueOf(params, i) ==
    LET path == PathOf(params[i])
        same == {j \in 1..i : params[j].prefix = params[i].prefix /\ params[j].name = params[i].name}
        value == params[CHOOSE j \in same : \A k \in same : j <= k].value
    IN  IF same # {i} /\ path # <<"keep_alive", "idle_socket_ttl">> THEN "null" ELSE
        CASE path = <<"keep_alive", "idle_socket_ttl">> -> numberConfigURLValue(value, 0)
          [] path = <<"request_timeout">> -> numberConfigURLValue(value, 0)
          [] path = <<"max_open_connections">> -> numberConfigURLValue(value, 1)
          [] path \in {<<"compression", "request">>, <<"compression", "response">>,
                       <<"keep_alive", "enabled">>} -> booleanConfigURLValue(value)
          [] path = <<"log", "level">> -> enumConfigURLValue(value)
          [] OTHER -> value

\* The options of a URL, by path; of two spellings of a setting the later wins.
UserOptions == {<<"username">>, <<"password">>, <<"database">>}
PartOf(url, path) ==
    CASE path = <<"username">> -> url.username
      [] path = <<"password">> -> url.password
      [] path = <<"database">> -> url.path
loadConfigOptionsFromURL(url) ==
    LET params == url.params
        At(path) == {i \in 1..Len(params) : PathOf(params[i]) = path}
        Last(path) == CHOOSE i \in At(path) : \A j \in At(path) : j <= i
    IN  [path \in {p \in UserOptions : PartOf(url, p) # ""}
                     \cup {PathOf(params[i]) : i \in 1..Len(params)} |->
            IF path \in UserOptions THEN PartOf(url, path)
            ELSE ValueOf(params, Last(path))]

URLRefused(url, platform) ==
    \/ url.protocol \notin {"http:", "https:"}
    \/ \E i \in 1..Len(url.params) :
           \/ ValueOf(url.params, i) = "invalid"
           \/ ~IsKnown(url.params[i], platform)
           \/ ValueOf(url.params, i) = "null" /\ PathOf(url.params[i]) \in
                  {<<"request_timeout">>, <<"max_open_connections">>, <<"log", "level">>,
                   <<"compression", "request">>, <<"compression", "response">>,
                   <<"keep_alive", "enabled">>}

-----------------------------------------------------------------------------
(* mergeConfigs: plain options are written to a copy of the configuration,  *)
(* nested ones to the caller's own objects.                                 *)

\* When a parameter makes its key: the handler of the Node.js client runs last.
Turn(params, i) ==
    IF params[i].name \in DOMAIN NodeOnly /\ params[i].prefix = "" THEN Len(params) + i ELSE i

\* The order of Object.keys: of two nested objects that come first whose first
\* key was made first, and within an object its keys by themselves.
Precedes(params, path1, path2) ==
    LET Within(i, path) == IF path1[1] = path2[1] THEN PathOf(params[i]) = path
                           ELSE PathOf(params[i])[1] = path[1]
    IN  \E i \in 1..Len(params) :
            /\ Within(i, path1)
            /\ \A j \in 1..Len(params) :
                   Within(j, path2) => Turn(params, i) < Turn(params, j)

\* The options that are merged: a null ends that with a TypeError.
BeforeNull(url) ==
    LET options == loadConfigOptionsFromURL(url)
    IN  [path \in {p \in DOMAIN options : \A q \in DOMAIN options : options[q] = "null" =>
                       p \in UserOptions \/ Precedes(url.params, p, q)} |-> options[path]]

PlainNames ==
    {"username", "password", "database", "application", "pathname", "session_id",
     "access_token", "request_timeout", "max_open_connections"}
PlainOptions(options) ==
    [name \in {k \in PlainNames : <<k>> \in DOMAIN options} |-> options[<<name>>]]
NestedOptions(options, name) ==
    [key \in {p[2] : p \in {q \in DOMAIN options : Len(q) = 2 /\ q[1] = name}} |->
        options[<<name, key>>]]

\* The object of a nested option, or the one that call n makes for it.
RefOrNew(nested, name, n) == IF name \in DOMAIN nested THEN nested[name] ELSE <<n, name>>
MergedNested(nested, options, n) ==
    [name \in DOMAIN nested \cup {k \in Nested : NestedOptions(options, k) # Empty} |->
        RefOrNew(nested, name, n)]
MergedObjects(nested, options, n) ==
    LET merged == MergedNested(nested, options, n)
        NameOf(ref) == CHOOSE name \in DOMAIN merged : merged[name] = ref
        refs == {merged[name] : name \in DOMAIN merged}
        Old(ref) == IF ref \in DOMAIN objects THEN objects[ref] ELSE Empty
    IN  [ref \in DOMAIN objects \cup refs |->
            IF ref \in refs THEN Overlay(Old(ref), NestedOptions(options, NameOf(ref)))
            ELSE objects[ref]]

mergeConfigs_BaseWins(config, options, n) ==
    [plain |-> Overlay(PlainOptions(options), config.plain),
     nested |-> MergedNested(config.nested, options, n),
     objects |-> MergedObjects(config.nested, options, n)]
mergeConfigs(config, options, n) ==
    [plain |-> Overlay(config.plain, PlainOptions(options)),
     nested |-> MergedNested(config.nested, options, n),
     objects |-> MergedObjects(config.nested, options, n)]

-----------------------------------------------------------------------------
(* getConnectionParams and make_connection                                  *)

\* Of a merged configuration, a nested option
NestedOption(m, name, key) ==
    IF name \in DOMAIN m.nested THEN Get(m.objects[m.nested[name]], key) ELSE "undefined"

BothAuth(plain) ==
    /\ Get(plain, "access_token") # "undefined"
    /\ Get(plain, "username") # "undefined" \/ Get(plain, "password") # "undefined"

\* true is gzip, and anything else is the codec of that name
Codec(value) ==
    CASE value \in {"undefined", "false"} -> "undefined"
      [] value = "true" -> "gzip"
      [] OTHER -> value
CodecSupported(codec, platform) ==
    IF platform = "web" THEN codec # "zstd"
    ELSE codec \in {"undefined", "gzip", "br"} \cup (IF ZstdAvailable THEN {"zstd"} ELSE {})

\* The settings and the headers stay the objects they are.
getConnectionParams(m, url, platform, n) ==
    [platform |-> platform,
     username |-> OrElse(Get(m.plain, "username"), "default"),
     password |-> OrElse(Get(m.plain, "password"), ""),
     access_token |-> Get(m.plain, "access_token"),
     database |-> OrElse(Get(m.plain, "database"), "default"),
     pathname |-> OrElse(Get(m.plain, "pathname"), "/"),
     protocol |-> url.protocol,
     application |-> Get(m.plain, "application"),
     request_timeout |-> OrElse(Get(m.plain, "request_timeout"), "n30000"),
     max_open_connections |-> OrElse(Get(m.plain, "max_open_connections"), "n10"),
     request |-> Codec(NestedOption(m, "compression", "request")),
     response |-> Codec(NestedOption(m, "compression", "response")),
     level |-> OrElse(NestedOption(m, "log", "level"), "WARN"),
     enabled |-> OrElse(NestedOption(m, "keep_alive", "enabled"), "true"),
     idle_socket_ttl |-> OrElse(NestedOption(m, "keep_alive", "idle_socket_ttl"), "n2500"),
     tls |-> Get(m.plain, "tls"),
     http_agent |-> Get(m.plain, "http_agent"),
     set_basic_auth_header |-> OrElse(Get(m.plain, "set_basic_auth_header"), "true"),
     use_multipart_params |-> OrElse(Get(m.plain, "use_multipart_params"), "false"),
     use_multipart_params_auto |->
         OrElse(Get(m.plain, "use_multipart_params_auto"), "false"),
     clickhouse_settings |-> RefOrNew(m.nested, "clickhouse_settings", n),
     http_headers |-> RefOrNew(m.nested, "http_headers", n)]

-----------------------------------------------------------------------------
ConfigInit == objects = Contents /\ creations = <<>>

Creation(config, url, platform, failed, client) ==
    [config |-> config, url |-> url, platform |-> platform, failed |-> failed,
     client |-> client]

\* The URL is malformed, or has a parameter that is unknown or does not parse.
CreationRefused(config, url, platform) ==
    /\ URLRefused(url, platform)
    /\ creations' = Append(creations, Creation(config, url, platform, TRUE, {}))
    /\ UNCHANGED objects

\* The merge or what follows it throws: the caller's objects stay as they are
\* by then.  Otherwise session_id and role are those of the caller's own
\* configuration, from before the merge.
CreationMerged(config, url, platform) ==
    LET n == Len(creations) + 1
        options == BeforeNull(url)
        m == mergeConfigs(config, options, n)
        params == getConnectionParams(m, url, platform, n)
        failed == \/ DOMAIN options # DOMAIN loadConfigOptionsFromURL(url)
                  \/ BothAuth(m.plain)
                  \/ ~CodecSupported(params.request, platform)
                  \/ ~CodecSupported(params.response, platform)
        client == Overlay(params, [session_id |-> Get(config.plain, "session_id"),
                                   role |-> Get(config.plain, "role")])
        used == {client.clickhouse_settings, client.http_headers}
    IN  /\ ~URLRefused(url, platform)
        /\ creations' = Append(creations,
               Creation(config, url, platform, failed, IF failed THEN {} ELSE {client}))
        /\ objects' = IF failed THEN m.objects
                      ELSE Overlay([ref \in used |-> Empty], m.objects)

CreateClient ==
    /\ Len(creations) < MaxCreations
    /\ \E config \in Configs, url \in URLs, platform \in Platforms :
           \/ CreationRefused(config, url, platform)
           \/ CreationMerged(config, url, platform)

ConfigSpec == ConfigInit /\ [][CreateClient]_configVars

-----------------------------------------------------------------------------
(* Properties *)

\* What a client uses for an option
Effective(client, path) ==
    IF Len(path) = 1 THEN client[path[1]]
    ELSE IF path[1] \in {"clickhouse_settings", "http_headers"}
         THEN Get(objects[client[path[1]]], path[2])
    ELSE client[path[2]]

\* The creations that have written a nested option where client i reads it.
\* Settings and headers are read with every request, the others once.
Writers(i, path) ==
    {j \in DOMAIN creations :
        /\ Len(path) = 2
        /\ path[1] \in DOMAIN creations[i].config.nested
        /\ path[1] \in DOMAIN creations[j].config.nested
        /\ creations[i].config.nested[path[1]] = creations[j].config.nested[path[1]]
        /\ j <= i \/ path[1] \in {"clickhouse_settings", "http_headers"}
        /\ ~URLRefused(creations[j].url, creations[j].platform)
        /\ path \in DOMAIN BeforeNull(creations[j].url)}

Given(i, path) ==
    IF Len(path) = 1 THEN Get(creations[i].config.plain, path[1])
    ELSE IF path[1] \notin DOMAIN creations[i].config.nested THEN "undefined"
    ELSE Get(Contents[creations[i].config.nested[path[1]]], path[2])

Expected(i, path) ==
    LET own == loadConfigOptionsFromURL(creations[i].url)
        last == CHOOSE j \in Writers(i, path) : \A k \in Writers(i, path) : k <= j
    IN  CASE Writers(i, path) # {} -> loadConfigOptionsFromURL(creations[last].url)[path]
          [] Writers(i, path) = {} /\ path \in DOMAIN own -> own[path]
          [] OTHER -> Given(i, path)

\* The keys of settings and headers that occur in an object or a URL
Keys ==
    UNION {DOMAIN Contents[ref] : ref \in DOMAIN Contents}
    \cup UNION {{url.params[i].name : i \in {j \in 1..Len(url.params) :
                                              url.params[j].prefix # ""}} : url \in URLs}
AllPaths ==
    {Known[name] : name \in DOMAIN Known} \cup {NodeOnly[name] : name \in DOMAIN NodeOnly}
    \cup UserOptions \cup {"clickhouse_settings", "http_headers"} \X Keys
DefaultOf(path) ==
    CASE path \in {<<"username">>, <<"database">>} -> "default"
      [] path = <<"password">> -> ""
      [] path = <<"pathname">> -> "/"
      [] path = <<"request_timeout">> -> "n30000"
      [] path = <<"max_open_connections">> -> "n10"
      [] path = <<"log", "level">> -> "WARN"
      [] path = <<"keep_alive", "enabled">> -> "true"
      [] path = <<"keep_alive", "idle_socket_ttl">> -> "n2500"
      [] OTHER -> "undefined"
Normal(path, value) == IF path[1] = "compression" THEN Codec(value) ELSE value

\* Every option of every client, at all times, is what its URL says, else what
\* the caller gave, else the default (mergeConfigs, getConnectionParams) - but
\* of clients made from one nested object, the URL that was merged last speaks
\* for all of them.  session_id is never taken from the URL.
OptionsInEffect ==
    \A i \in DOMAIN creations : \A client \in creations[i].client :
        \A path \in AllPaths \ {<<"session_id">>} :
            Effective(client, path) = Normal(path, OrElse(Expected(i, path), DefaultOf(path)))

\* examples/node/coding/url_configuration.ts: "URL parameters will _always_
\* override the rest of the configuration object"
URLParametersOverride ==
    \A i \in DOMAIN creations : \A client \in creations[i].client :
        LET options == loadConfigOptionsFromURL(creations[i].url)
        IN  \A path \in DOMAIN options :
                Effective(client, path) = Normal(path, options[path])

=============================================================================
