# A TLA+ verification of clickhouse-js

This directory models the ClickHouse JavaScript clients (`@clickhouse/client` for
Node.js, `@clickhouse/client-web` for browsers) in TLA+. TLC checks the models on
small instances, TLAPS proves the theorems for every value of the constants.
`PROJECT.json` is the index: components, runs, mutants, the source lines behind
every definition, hazards, findings and theorems. Paths below are relative to the
repository.

Run a model with `tlc -config X.cfg M`, check proofs with `tlapm M.tla`.

## 1. The system

### Components

| Component | State it keeps | Operations | What is hard |
|---|---|---|---|
| Node.js socket pool, `client-node/src/connection/socket_pool.ts` | per `SocketPool`: the sockets it knows, their idle timer and `freed_at`; per request: listeners, the socket's inactivity timer | `request`, with listeners for `socket`, `response`, `error`, `close`, `abort`, `timeout`; the `free` and `close` listeners of a socket | the agent, the sockets and the requests emit events in their own order; timers fire late; a socket changes owner between two events |
| Node.js operations, `node_base_connection.ts`, `stream.ts` | one `AbortController` per operation | `query`, `exec`, `command`, `insert`, `ping`, `close`; draining of a response | user aborts at any await; catch and finally clauses that tear down a request that may be over |
| Row streaming, `result_set.ts` of both clients and `client-common/src/utils/stream.ts` | incomplete chunks, position in the chunk | the transform of `ResultSet.stream()`, `extractErrorAtTheEndOfChunk` | the network cuts rows and exception blocks anywhere |
| ResultSet life cycle, `result_set.ts` of both clients | consumed flag, span and its counters | `text`, `json`, `stream`, `close` | calls in any order while the response arrives, breaks or is left |
| Web connection, `client-web/src/connection/web_connection.ts` | per request: timer, `isTimedOut`, `isAborted`, `AbortController` | `query`, `exec`, `command`, `insert`, `ping` | timer, abort, network error and headers race |
| Client facade, `client-common/src/client.ts`, `tracing.ts` | request span | `query`, `command`, `exec`, `insert`, `ping`, `close` | hand-over of spans; an empty insert sends nothing |
| Configuration and requests, `config.ts`, `utils/url.ts`, `utils/connection.ts`, both `config.ts` of the platforms | the options of a client, which share nested objects with those of others | parsing and merging of URL and options, defaults; search parameters, headers and body of every operation | precedence, aliasing, URL budget |
| Formatting, `data_formatter/*`, `utils/multipart.ts`, both `utils/encoder.ts` | none | query parameters, setting values, insert bodies | nested escaping, values at the edge of their type |
| Type parsers, `parse/column_types.ts`, `packages/datatype-parser` | cursor of the lexer | tokenise, parse, print | nesting, quoted names, alternatives that fail |
| RowBinary streams, `skills/clickhouse-js-node-rowbinary/src/{readers,writers}` | one pull, one timer, the bytes held back, the carry, the `Sink` | `writeRows`, `coalesceChunks`, `streamRowBatches`, the columnar reader | two generators, a deadline and a consumer that may leave; rows cut anywhere |
| RowBinary values, the same directories | cursor; cache of compiled readers | a reader and a writer per type, `compileRowBinaryWithNamesAndTypes` | restart of a row at any byte, dynamic types, LRU order |
| Settings, type names, logger, errors | none | declarations, log levels | - |

### Interactions

A user calls a method of the client; the client opens a span and calls the
connection. In Node.js the connection wraps the user's `abort_signal` in an
`AbortController`, lets `SocketPool.request` make an HTTP request through the
`http.Agent` (which may be shared), and returns when the headers are there (query,
exec) or when the response has been drained (command, insert, ping). The agent
gives a request a kept socket, a new one, or a place in its queue; when a response
ends, the socket emits `free` and goes to the next request of the queue or is kept,
with an idle timer that the pool's listener starts. The inactivity timer of the
socket is the request timeout. In the browser all this is one `fetch` with a timer
and a signal. The stream of a query goes into a `ResultSet`, which the user reads,
leaves or closes.

Before that, `createClient` merges the parameters of the URL into the options it was
given, fills in defaults and computes credentials and headers; each call adds its own
settings, session, roles, headers and parameters, which go into the URL, into headers
or into a multipart body. The RowBinary library works on the response stream of a
query, or makes the stream of an insert: type texts from the header are parsed,
compiled to readers and cached, bytes are coalesced and decoded in batches.

One JavaScript thread runs everything. A *macrotask* (a timer, a socket event) runs
only when no `nextTick` callback and no promise continuation is waiting; user code
may run between any two of them.

### What makes it correct

* Sockets: one request at a time; none is taken from a request that is not over; a
  stale or closed connection is not used again; the idle timer never fires under a
  request; a rejected operation leaves nothing in use.
* Outcomes: every operation settles, errors are heard, success means that the
  response arrived whole (in Node.js: as far as the server sent it), the reported cause
  is the true one.
* Results: rows are the lines of the body however it was cut, an exception in the
  middle of a stream is reported, nobody reads a response twice.
* Spans: they end once, and say what happened.
* Requests: the server reads the statement, the parameters, the settings and the user
  that the call and the configuration mean, from one place each.
* RowBinary: what is written is what is read, in order and in whole rows, wherever the
  bytes are cut and whenever a timer wins.

The `hazards` of `PROJECT.json` list where each of these can go wrong.

## 2. Modules

| Module | What it is |
|---|---|
| `SocketPool` | pool, operations and, as external parts, agent, `ClientRequest`, server and event loop |
| `ConnectionLease` | what users of a connection pool rely on: the abstract specification |
| `SocketPoolLease` | `SocketPool` as a `ConnectionLease` (refinement mapping) |
| `MCSocketPool` | which client runs which operation, for TLC |
| `SocketPoolProofs`, `SocketPoolOutcomeProofs` | types, leases, idle timers, freshness; what operations are told, timers and timeouts of sockets in use, the refinement of `ConnectionLease` |
| `RowStream`, `MCRowStream`, `RowStreamProofs` | the row splitter and the exception extractor |
| `ResultSet` | the methods of a result set, and its span |
| `ClientFacade`, `MCClient` | the methods of the client around one connection call each, composed with the `ResultSet` of a query |
| `SpanProtocol` | what a tracer is promised: the abstract specification of both kinds of span |
| `ClientFacadeProofs` | the `ResultSet`, alone and within a client, operations, and the refinement of `SpanProtocol` |
| `WebConnection`, `MCWebConnection`, `WebConnectionProofs` | the web client's HTTP layer |
| `ClientConfig`, `ClientConfigProofs` | `createClient`: URL parameters, merge, defaults, credentials, for clients that share objects |
| `QueryParams` | the text of a query parameter, and the server's reading of it (external) |
| `Requests`, `MCRequests` | from a call of a created client to the HTTP request |
| `DataTypeParser` | lexer, parser and AST of type texts |
| `ColumnTypes` | the other parser of type texts, of `client-common` |
| `RowBinaryScalars`, `RowBinaryCodec` | readers and writers of scalars; of composite, dynamic and JSON values |
| `ReaderCache`, `ReaderCacheProofs` | the LRU cache of readers, for any type texts and any reader of them |
| `TypedRows`, `MCTypedRows` | type texts to readers through that cache, and the rows they read |
| `MCWireForms` | `TypedRows` and `Requests` side by side, in one run |
| `RowWire` | the body as offsets of rows |
| `RowWriter` | `writeRows` and its `Sink` |
| `RowBinaryStream` | `coalesceChunks`, `streamRowBatches` and the consumer |
| `RowBinaryPipe`, `MCRowBinary`, `RowBinaryProofs` | both ends of the wire together |

`SocketPool` and `WebConnection` end where the response stream is handed to the
user; `ResultSet` begins there and takes the stream as a source that may arrive,
end, break or be destroyed; `RowStream` is the inside of its `stream()`.
`ClientFacade` extends `ResultSet` and takes the connection as something that answers
or fails. `Requests` extends `ClientConfig` and `QueryParams`: it says what the request
contains whose fate the other modules follow. `RowBinaryPipe` extends writer and reader
streams and knows a row by its length only; `TypedRows` is about what is in one row.

### SocketPool

A request is its `phase`: `idle`, `sleeping` (the `sleep(0)` before the request is
created), `waiting` (created, in the agent's queue or just given a socket), `sent`,
`body` or `errbody`, `ended` or `failed`. `outcome` is how the promise of
`SocketPool.request` settled, `op` the promise of the operation around it.
`listeners` says who hears the request's `error` (the pool, the no-op listener
`onAbort` puts there, or nobody), `onTimeout` who listens to the socket's `timeout`,
`armed` which sockets have their inactivity timer. `handle` is the deadline of the
timer in `idle_timeout_handle`; a timer that runs but that no handle refers to is in
`orphans`. A socket is `unborn`, `busy`, `free`, `closing` or `dead`; `httpMessage`
is the agent's `socket._httpMessage`, by which it tells whether a destroyed socket
is in use.

| Action | Code |
|---|---|
| `Call` | an operation up to its `SocketPool.request` and the `sleep(0)` in it |
| `WakeUp` | the rest of `request`: eager check, `createClientRequest`, listeners, and the agent's `addRequest`; the clock may advance between the check and the choice of a socket |
| `OnSocket`, `OnSocketTooLate` | `onSocket` in the `nextTick` callback, or the agent taking the socket of a destroyed request back |
| `Response`, `BodyEnd` | `onResponse`; the end of a response, `free`, `onClose` |
| `SourceError` | a request stream, of an insert or of `exec` with values, that fails (`pipeStream`) |
| `RequestTimeout` | `onTimeout` |
| `Continue`, `Drained` | what the await of the operation resumes with: catch and finally, drains |
| `UserAbort`, `ConsumerDestroy`, `CloseClient` | the user |
| `IdleTimeout`, `OrphanTimeout` | the callback the `free` listener set |
| `PeerReset`, `ServerIdleClose`, `NoticeClose`, `SocketClose`, `Tick` | network, server and clock |

`Drain` is the set of ways in which the drain of a response can end. One that got its
`end` fulfils. One that broke off either rejects, when `error` is heard, or fulfils, when
the response is closed without it: `drainStreamInternal` resolves on a `close` that came
first and on a stream that is closed already, and its comment (`stream.ts:225`) and tests
mean it to when the server closes the connection. So `DoneMeansReceived` says of a
fulfilled command or insert that its response began, and that it came to its end or was
cut by the server, never by this side.

The comment at `socket_pool.ts:134` says that the eager check is racy when the process is
descheduled after it. `WakeUp` has that race: it checks at `now` and hands out a socket at
`now'`. `OverdueOnlyByStall` says what is left of the guarantee: a socket that is past
its TTL when it is reused is so by less than that delay, whatever else was late.

Abstractions: a destroyed socket leaves the free list at once; the agent may pick any
free socket; the keep-alive hint of newer Node.js agents is left out; `nextTick` and
promise queues are not ordered with each other (more interleavings than the runtime
has); the `timeout` option of the request, which arms the socket without a listener,
is part of `GiveSocket` and `Freed`; time passes in whole units, between macrotasks and
within `WakeUp`; a response is `ok`, `error`, `undecodable` or `close` (`Connection: close`).

### RowStream

A position is an offset in the body, a chunk the interval `[start, sent)`, a row the
list of the intervals its text is pieced together from, with the size of the array
the web client allocates for it. `Row`, `Exception` and `ChunkDone` are the branches
of the loop of the transform, `Extract` is `extractErrorAtTheEndOfChunk`. Both clients
share this control; only the web client counts lengths itself. The exception block
keeps its layout and its bytes `\r`, `\n`, space and digit; its three words are one
byte each. `stuck` is the state of a loop that never ends.

### ResultSet

`CallText`, `CallJson`, `CallStream`, `CloseNode`, `CloseWeb` are the methods up to
their first await, on either platform; `BodyRead`, `BodyLost`, `TooLong` the rest of
`text()` and of `json()` for documents; `PipeFlush`, `PipeDone`, `PipeBreak`, `PipeFail`,
`ConsumerLeaves`, `BadRow` what ends the pipe of `stream()`, read by the user or by
`json()`. The platforms differ where the code or the streams differ: Node.js
validates the format before it consumes, the web client after; a web stream with a
reader is locked; Node.js destroys a stream whose iteration is left.

They differ most in who ends the span of a pipe. In the browser `flush`, `cancel` and the
`catch` of `json()` do, before the reader hears of it: `PipeFlush`, `PipeFail` and
`BadRow` settle and end in one step. In Node.js `pipelineCb` does, a callback that runs
when the transform has finished or was destroyed, before the rows are read or after the
call has settled. It is a step of its own, `PipelineCb`; `pipelineCb` is what it is going
to be told once the pipe has been flushed, broken or left. It takes an `AbortError` for no
error, and that is what leaving a `for await` makes, whether the user breaks out of it or
a row of `json()` is not JSON (`LeftAs`): these calls reject, or go on, with a span that
ends without an error. `SpanTellsOutcome` therefore says nothing of a reader that leaves.

TLC runs the module within `ClientFacade`.

### ClientFacade

| Action | Code |
|---|---|
| `Call` | `query`, `command`, `exec`, `insert` or `ping` up to the call of the connection, with the span and its attributes |
| `InsertNothing`, `InsertUnencodable` | an insert without values (no request), and one whose values are refused |
| `QueryAnswer` | the rest of `query()`: its span ends, the stream span starts, the `ResultSet` is made |
| `Answer`, `PingAnswer`, `Fail` | the answer of the others, a ping that reports failure without rejecting, the catch clauses |
| `ResultSetStep` | a step of the `ResultSet` once the user has it |

One operation is the query whose `ResultSet` is followed; any number run beside it, of
any method. `attributes` records for each key of a span whose value it has, the user's
(`span_attributes`) or the client's.

### ClientConfig, QueryParams and Requests

Options are `[plain, nested]`: values, and references to nested objects
(`clickhouse_settings`, `http_headers`, `compression`, `log`) in `objects`, the heap the
clients share. `CreateClient` is `createClient` of either platform up to the connection
parameters: `loadConfigOptionsFromURL` with its refusals, `mergeConfigs`, which writes into nested
objects, the defaults with `??`, the checks, `AuthOf`. The options of a URL are a function
from paths such as `<<"log", "level">>` to values, and the loops over them are closed forms:
the last parameter of a path gives its value (`loadConfigOptionsFromURL`), and a merge
that meets a null has done what precedes it in the order of `Object.keys` (`Precedes`,
`BeforeNull`), in which the parameter of the Node.js handler makes its key last (`Turn`).
`ConfigAssumption` has one condition on callers: an object is shared under one name only
(nobody passes one object as the settings and as the headers). `Send` is one call of a created
client and yields the `request`: method, URL entries in order, headers, body with its
parts and its compression. A text is a sequence of symbols, one for each character the
code treats specially and one for those of two bytes; percent-encoding is a length.
`ServerValue` in `QueryParams` is the server's reader of text values: it is external, and
written from the format rather than from the formatter, so that `RequestSaysTheCall`
compares two things.

### DataTypeParser and ColumnTypes

`Tokenize` and the recursive descent of `parser.ts` as recursive operators, with every
alternative that fails and gives its tokens back; nodes of the AST are records of one
shape. `ColumnTypes` is `parseColumnType` with its own scanning of parentheses and
quotes. Both read the same texts, printed by `TextOf` in `TypedRows`.

### RowBinaryScalars, RowBinaryCodec, ReaderCache and TypedRows

A buffer is a sequence of bytes. A reader is data (an operation, a size and the readers
of its parts), which `Read` applies to a buffer at a position and which yields a value,
starves or fails, the same for `Write`; `AstToReader` is the compilation of an AST. A value is a record of one shape
(`t` names its JavaScript type, `v` is its number, `b` its bytes, `s` its text, `items`
its parts). `ReaderCache` is the resolver: `Resolve` what a call does to the map, `ReaderOf`
what it returns; the type texts and their readers are its constants, which the
configuration gives and `TypedRowsAssumption` ties to `TypeStringToReader`. `TypedRows` has
the actions `Compile` (a header has arrived; its types go through the cache, in order, up to
the first that does not compile), `Receive` (one more byte of the row, or all of it, has
arrived and `readRow` runs from the first byte) and `NextStream`. TLC's integers have 32 bits, so wide integers hold
small numbers in all of their bytes, and instants a day and a second.

### RowWriter, RowBinaryStream and RowBinaryPipe

Rows are the offsets at which they end. `RowWriter` fills a `Sink` row by row: a row
that overflows leaves its part behind, is rewound, and either the batch goes out or the
buffer is doubled. The reader has two async generators, each suspended at one point of
its code: `gen` (unstarted, block, race, yielded, tail, returning, closed) and `driver`
(idle, pulling, reading, ended). `pull` is the promise of the one `next()` outstanding,
`parts` the bytes held back, `left` and `age` the time to the deadline and since the first
byte. The source hands over any part of what has been written, also none, stalls, ends
or fails; the consumer asks, leaves or stops. The columnar reader is the driver of the
same carry where all rows have one length.

### WebConnection

`Call` is `request` up to its `await fetch`, `Continue` what comes after it with what
the operation does with the response, `ErrorText` and `Drained` the later awaits,
`Timeout` and `UserAbort` the two callbacks. A missing response body is left out: it
only skips a cancel or a drain.

## 3. Runs

| Run | Instance | Distinct states | Shows |
|---|---|---|---|
| `pool_general` | a query and an insert, two sockets, every reply, aborts, resets, lag 1 | 1,001,302 | errors heard and true, no socket leaked, success is a response that this side did not cut, no stale connection reused, `KeepsLeases` |
| `pool_contention` | query, insert and command, one open connection, eager check, lag 2, server TTL = idle TTL | 1,274,899 | queue hand-over, timers that follow the owner, `OverdueOnlyByStall` in a starved process |
| `pool_liveness` | query and insert, one open connection, silent server, `close()` | 51,282 | every operation settles, abandoned responses are released |
| `row_stream` | bodies of up to 4 bytes over {x, CR, LF}, with or without a 17-byte exception, up to 5 chunks cut anywhere | 532,572 | rows are lines, nothing withheld, exceptions reported |
| `client` | a query with 2 calls on its response of 3 rows, one more operation, 2 platforms, 3 kinds of format, attributes that collide | 254,808 | complete results, spans that end and tell the outcome, `SpansKept` |
| `web_requests` | 2 operations of any of the 4 kinds, a signal each | 28,175 | causes, timers, drains, aborts, liveness |
| `row_binary` | 3 rows of lengths 1-3-2, 2-2-2 or 3-1-1, buffers of 1, 2 or 4 bytes, `minSize` 2, deadline 2 | 40,251 | bytes in order, whole rows, one carry, truncation is an error, rows that arrived are delivered |
| `wire_forms` | a header and a row of each type, up to 3 responses; up to 2 clients from 6 configurations and 17 URLs, or one client and any of `MCCalls` | 54,222 | what is written is what is read: types, rows, texts, parameters, options, requests |
| `orphan_timer`, `lost_timeout`, `cut_exception`, `url_session` | the smallest instance of each | | the findings of section 6 (expected violations) |

The slowest runs, `row_stream` and `wire_forms`, take less than three minutes on two
workers; the pool runs take a minute and a half each.

Bounds and why they are enough:

* *Requests.* Everything the pool does about a socket involves its owner, the next
  owner and one waiting request, so two or three operations reach every hand-over.
  Each request runs once: a second one by the same user is another request.
* *Sockets* are as many as requests, the most a run can open, since every request
  uses one; sockets are never reused as identifiers.
* *Time.* `IdleTTL` 1 or 2, `ServerTTL` at or one above it, `MaxTime` 3 to 5 let a
  socket be freed, idle past its TTL, and be reused or closed; `MaxLag` is how late a
  timer may fire. The server's TTL exceeds `IdleTTL + MaxLag - 1` in `pool_general`,
  where timers alone must prevent the reuse of a closed connection, and does not in
  `pool_contention`, where the eager check must. The last clock value stops `Tick`, not
  the actions.
* *Bodies.* Four bytes and five chunks give rows that span three chunks, empty rows,
  a newline alone in a chunk, and an exception cut at every byte.
* *Calls.* One call that reads and one that is refused or closes: whatever a third one
  does, one of these two has already done to the response. Three rows can be at once one
  taken, one in the pipe and one still to come. (Three calls on two rows pass as well, in
  four minutes.) The proofs are for any number of both.
* *`pool_liveness`* lets only the first operation be aborted: with more, the defect of
  the `lost_timeout` run makes `AbandonedStreamReleased` fail, as that run shows.
* *`row_binary`.* A row longer than the first buffer (it grows), one that fits, one that
  fits only after a flush; a minimum size below and above a row, so that the deadline
  and the size both end batches; a source that can hand over nothing.
* *`wire_forms`.* Every type a schema can name occurs, at the edges of its values, the
  wrappers around four inner types of fixed, variable, signed and named kind, and
  Dynamic around all of these. The cache holds 2 readers and sees 3 responses. Two
  creations are what aliasing takes. One of the configurations is refused
  (`zstd`, which this Node.js lacks), and one has `set_basic_auth_header` false, which
  with the `access_token` of a URL is a client that names nobody. `MAX_URL_BIND_PARAM_LENGTH` is scaled from 4096 to
  24, so that the parameters of `MCRequests` lie on both sides of it. The two halves
  share no state: a behaviour does one or the other (`MCWireForms`).

`CHECK_DEADLOCK FALSE` is given throughout because users stop calling, streams end
and time is bounded.

Every property of a passing run has a mutant: a plausible bug of the code (a timer
that is not cleared, an off-by-one, a missing drain), written next to the definition
it changes with a suffix that names it, under which TLC finds the property violated.
Those variants take no part in the specifications.

## 4. Fairness

`SocketPool`: the event loop runs what is due, which is weak fairness of `WakeUp`,
`OnSocket`, the continuations, `RequestTimeout`, `SocketClose` and the idle timers.
`WebConnection`: continuations run and the timer fires. Nothing is assumed of users,
of the server or of the network, and not even that time passes: timers that are due
fire in the untimed part as well, because `RequestTimeout` and the web `Timeout` are
enabled whenever their timer runs. That matches Node.js and browsers, where a timer
or a readable socket is served in every turn of the loop.

That `RequestTimeout` happens at all is an assumption about the peer as well: the
inactivity timer starts again with every byte, and the model has no peer that keeps a
response open for ever with one byte after another.

`ClientFacade` (`ClientFairSpec`): what the streams and the promises do by themselves
once the response is over (`Settling`): a pipe whose rows have been taken is flushed, a
broken one breaks, `pipelineCb` is called, `json()` takes the rows of its pipe, `text()`
resumes. Nothing is assumed of the user, who need not read (`Held`: untaken rows hold a pipe
back), or of the server, whose response need never be over.

`RowBinaryPipe`: the steps of the generators (`CodeStep`) and `Tick` are weakly fair:
promise continuations run, and a `setTimeout` counts down. The source may stall for ever
after any byte, the consumer may stop asking, and neither is assumed to end: that
`ArrivedRowsAreDelivered` holds all the same is what the deadline is for.

No safety property uses fairness.

## 5. Proofs

All theorems are about the specification of their module, for any number of requests,
sockets, clients, rows, calls, operations and signals and any configuration that the
`ASSUME`s of the modules allow.

* `SocketPoolProofs`: `TypeCorrect`; the inductive invariant
  `LeaseInv`, on which all the others rest: queued requests are distinct, `waiting` and
  hold nothing (`QueueOK`);
  holders are distinct and have been created (`HoldersOK`). That no socket has two
  requests is how the agent behaves, and is not inductive alone: the hand-over in `Freed`
  needs that a queued request has no socket, and a
  call needs that a new request is in no queue. The lemmas `HeadGetsSocket`,
  `HeadGetsOther`, `SocketReleased` and `LeasesKept` are the four things an action does
  to leases; each action is one of them.
  In the same module `KeptExpire`, `SocketsFreshWhenCalled` and
  `EagerCheckBounds` come from `IdleInv`, which adds that sockets in use are known to some
  pool (else `free` would start no timer). `SocketsFreshWhenCalled` needs idle timers
  (`Managed`); `EagerCheckBounds` also the eager check and an agent of one client.
  The three are why `sleep(0)` and the eager check exist. `EagerCheckBounds` is about a
  process that may be descheduled within the check: nothing but that delay makes a
  reused socket overdue.
* `SocketPoolOutcomeProofs`: `OutcomeInv` says, request by request (`Fits`), which
  listeners, which socket, which outcome and which state of the operation go with each
  phase, and of each socket that the agent's book-keeping agrees with its holder. None
  of the properties is inductive without it: that an error is heard depends on the
  listeners of requests that have not failed yet, and that a drained response was
  received, or cut by the server, on how the request ended before the drain resumed
  (`DoneInv`, `DrainTold`). It gives, without any condition,
  `NoErrorUnheard` (no error event without a listener, at any step),
  `DoneReceived`, `RejectedReleased`, `AbortsReject` and `TimeoutsOwned` (whoever
  listens to a socket's timeout holds that socket).

  The other properties are false of the code in general; the findings and hazards of
  section 6 show where. Their theorems name the circumstance as a condition:
  `TimersSpareRequests` (`NoTimerOnBusySocket`) holds of clients with an agent each, in
  every behaviour without an abort of a queued request (`orphan_timer`), such as those
  of users without abort signals (`OnlyUsersAbortWaiting`). `ErrorsAreTrue` and
  `PoolKeepsLeases` hold in every behaviour in which no idle timer runs on a socket in
  use, if nobody calls `client.close()`: a timer or the agent's `destroy()` is the only
  way in which the client itself cuts a request that it then reports as `reset`.
  `PoolKeepsLeases` is the refinement of `ConnectionLease`, each action a step of a
  lease or a stutter. `TimeoutsHeard` needs that no request fails while its socket lives
  (`lost_timeout`): no aborts, no error replies. `UndisturbedPool` puts them together
  for users without abort signals who keep their clients.
* `RowStreamProofs`: `StreamsLines` from `SplitInv`: what is carried is a chain of
  pieces from the end of the last row to the position, without a newline, of the
  length that was counted. `NoticedUnlessSplit` from `NoticeInv`: every line end of the
  exception protocol before the position was cut. `RowsNotWithheld` counts: the rows
  handed out, with those of the chunk in progress, are as many as there are newlines
  before the position (`WithheldInv`; `OneMoreNewline` is the step of the count, from the
  library's facts on cardinalities). `WholeExceptionsReported` from `WholeInv`: with the
  exception in the chunk in progress the position is never past its first line end, so
  the transform comes to it; `MessageExtracted` shows that reading the block backwards
  from the end, tag, length, message, then yields the server's message, whatever its
  text and length.
* `ClientFacadeProofs`, of a result set alone: types and counters,
  `ReadersExclusive`, `FulfilledComplete`, `SpansEnd` and `ResponsesNotLost`, from `RSInv`, which ties the reader to the
  consumed flag, the source to what was read, and the span and the callback that is to
  end it to the pipe and the reader's status.
  `SpansTellOutcome` needs more (`OutcomeInv`): the span of an unread response is open, a
  span that has succeeded with rows belongs to a pipe that has had them all, and what
  `pipelineCb` has been told, or will be, agrees with how the pipe ended. It says the same
  of the span whichever of the call and the callback came first.
  Of the client: `ClientKeepsResultSet`: every step of the client is a step of the
  `ResultSet` or leaves it alone, so the theorems about a result set hold of the
  response of a query within a client (`QueryFulfilledComplete`, `QuerySpanEnds`,
  `QueryNotLost`, `QuerySpanTellsOutcome`). `OperationInv` relates an operation's span, its outcome and the
  hand-over; `SpanSaysOutcome` follows from it. `TracerProtocol` shows that client and
  result set together implement `SpanProtocol`: initial states map to initial states,
  and each action to one step of the protocol or to a stutter. The invariant is needed
  because `SpanProtocol` opens a stream span only together with the end of the
  operation's: a `ResultSet` that ran before it was handed over could end a span that
  was never opened.
* `WebConnectionProofs`: types, `TimersSpareResponses`, `InsertsReceived`,
  `SettledLeftNothing` from `WebInv`; with one signal per operation (`Unshared`) also
  `OwnSignalsReach` and `CausesAreTrue`.
* `RowBinaryProofs`: one inductive invariant `Inv` for both ends: the writer
  (`WriterInv`), which points of their code the two generators can be at together
  (`Control`), the one promise (`Promise`), the order of offsets (`Bounds`), the carry
  (`Carry`), the end (`Ending`) and the deadline. `WrittenWhole`, `NoByteLost`,
  `OnePull`, `DeadlineFromFirstByte`, `CarryHoldsOneRow` and `EndIsComplete` are
  consequences. `BytesInOrder` alone is not inductive: a second pull would lose a chunk,
  so it needs `Promise`; `DoneIsDecoded` needs that the tail has been decoded before the
  generator closes (`Control`, `Ending`). `LayoutFacts` states that offsets of rows
  increase, `Quotient` and `Factors` the division in the columnar reader.
* `ReaderCacheProofs`: `KeepsRecent` and `CacheAnswersRight` from `CacheInv`, for any type
  texts, any compilation of them and any `maxSize`. `Renewed` is the one step: the
  entries kept stay in their order, the text asked for comes last, and an entry dropped
  was the first of a full cache; a hit, a miss and a miss with an eviction are its three
  instances. `TypedRows` calls the cache several times in one action, each of them a
  step of `CacheSpec`.
* `ClientConfigProofs`: `OptionsStayInEffect`, for any configurations, objects shared
  between them, URLs and number of clients, from `ConfigInv`, which
  describes the heap rather than the clients: a caller's object holds under each key what
  the last creation that refers to it and whose URL names the key has written
  (`LastWriteInv`), or else what it held at first (`UntouchedInv`); an object that a client
  made for itself holds its URL's options (`OwnObjectsInv`); a client was made only if its
  URL was merged to the end (`CompleteInv`). `OptionsInEffect` is not inductive without
  them: it only speaks of clients, but a `createClient` that throws after its merge has
  written to the shared objects too. Options that are read once
  are right when the client is made and later writers do not count (`ReadOnceInv`).
  `RefsDiffer`, the one use of the assumption on callers, keeps the objects of a client
  apart; `MergedObjects` writes each object once.
  `OthersOptionsAreKept` is the isolation of clients as an action property
  (`OptionsIsolated`): a `createClient` changes what an existing client uses only for a
  setting or header, in an object both configurations refer to, that the new URL names.
  `URLOverridesTheRest` is the sentence of `url_configuration.ts` ("URL parameters will
  _always_ override") with its two exceptions, `session_id` and a later client with the
  same object. TLC checked `ConfigInv`, `OptionsIsolated` and `OwnURLOverrides` on
  the configurations of `wire_forms`, for up to three clients, before they were proved.
  `Requests` takes `CreateClient` as it is and its `Send` leaves `objects` and `creations`
  alone, so what is proved of `ConfigSpec` holds there.
  Three faults of the model came up that way: which value a doubled
  `keep_alive_idle_socket_ttl` has, how much of a URL is merged before a null, and arms
  of `CASE` that overlapped.

The type invariants and `ReadersExclusive`, `TimersSpareResponses`, `OnePull`,
`DeadlineFromFirstByte`, `NoErrorUnheard`, `TimeoutsOwned`, `CacheAnswersRight`,
`OptionsIsolated` and `OwnURLOverrides` are
proved and not run: a theorem covers the instances.

Only model-checked:

* the liveness properties `EveryOpSettles`, `AbandonedStreamReleased`, `FetchSettles`,
  `SpanEndsWithResponse` and `ArrivedRowsAreDelivered`: the prover has no liveness under fairness;
* `PrintedTypesParse`, `DecodesWhatWasWritten`, `TextsReadBack`, `ColumnTypesAgree` and
  `RequestSaysTheCall` of `wire_forms`: they are about recursive operators over data,
  which the provers cannot do induction on.

## 6. Findings

Four runs are expected to fail; each quotes what the repository says.

* `orphan_timer`: a request aborted in the agent's queue makes its socket emit `free`
  twice; the second idle timer overwrites the handle of the first, which then destroys
  the socket under a later request.
* `lost_timeout`: the cleanup of a failed request switches off the timeout of a socket
  that already belongs to the next request.
* `cut_exception`: the extraction of an exception loops for ever when its chunk was cut
  before the length hint.
* `url_session`: a `session_id` in the URL is parsed, accepted and then not used, because
  the constructor reads it from the configuration before the merge.

Other divergences, modelled as the code has them and listed among the hazards:

* Two clients on one `http_agent` do not clear each other's idle timers
  (`socket_pool.ts:545`), although `docs/clickhouse-docs/index.mdx:1299` says that the
  management of idle sockets still works with a custom agent.
* In Node.js an `abort_signal` has no effect if it fired before the call or after the
  headers (`node_base_connection.ts:287`, `500`).
* In the browser a second operation with the same `abort_signal` takes the handler of
  the first (`web_connection.ts:237`).

* In Node.js a `json()` that rejects because a row is not JSON leaves a stream span
  without an error (`result_set.ts:288`, `LeftAs`), although `docs/howto/tracing.md:161`
  says that the span of a result set that fails has the error recorded on it. The web
  client records it.

Passing runs leave out the circumstances that would refute their properties, and to keep
them small some more:

* `pool_contention` has one client, no aborts, only good replies and no `client.close()`.
  `NoTimerOnBusySocket` and `TimeoutHeardByOwner` fail with an abort in the queue
  (`orphan_timer`), two clients on one agent, or error replies (`lost_timeout`); the
  theorems `TimersSpareRequests` and `TimeoutsHeard` have just these conditions.
* `pool_general` has as many sockets as requests, so that the agent's queue stays empty,
  and no `client.close()`; `pool_liveness` has one abort and no error replies.
* `web_requests` has a signal for each operation: with a shared one `AbortReaches` and
  `CauseIsTrue` fail.
* `OptionsInEffect` is not about `session_id`. `RequestSaysTheCall` is not about timestamps
  before 1970 of fewer than ten characters or with a fraction (`EarlyDate`) and quotes in
  maps of settings (`HasQuote`). It knows two users who are not sent: a token, where the
  connection has certificates, and, where `set_basic_auth_header` is false in Node.js,
  everybody but the token of a call (`Anonymous`), the client's own `access_token`
  included; of the latter it says that the request names nobody else instead.

Behaviour met while modelling, for which no document says otherwise. The models do the
same as the code:

* Configuration: `mergeConfigs` writes URL parameters into the caller's nested objects, so
  clients made later from the same objects have them too. An option that occurs twice in
  a URL where a number is expected becomes null and fails with a TypeError. A blank
  `request_timeout` is 0.
* Credentials: the token of a call is ignored where the connection has certificates; where
  `set_basic_auth_header` is false so are the name of a call and the `access_token` of the
  client, which the name of the option does not suggest.
* Parameters and settings: a timestamp before 1970 gets its zeros before its sign;
  `SettingsMap` does not escape quotes; the setting `enable_http_compression` as the text
  "1" asks for no encoding; multipart refuses names of parameters that URL mode accepts;
  `removeTrailingSemi` stops at a blank between two semicolons.
* Type texts: an argument that fails to parse is dropped (`Array(-)`, `Nested(a)`);
  `.5` and `5.` become invalid JSON; `column_types.ts` supports neither negative enum
  values nor named tuples; fields of a named tuple whose names are integers are read in
  the order of `Object.keys`; an octet of an IPv4 address may be empty.
* RowBinary streams: when the source fails, rows that are held back are dropped; a
  read-ahead that rejects while the consumer is busy has no handler yet; leaving a
  stream, or a row that cannot be decoded, waits for a source that is silent.
* Spans: a ping that fails ends its span without an error.

## 7. Not modelled

* *Settings, type names, logger, errors*: declarations, constants and one regular
  expression; nothing changes state. They are the largest files of `client-common`
  (`settings.ts` alone has 2,182 lines).
* *Tests, benchmarks, demo, examples, docs* and the test runner: read for what they
  promise.
* Within modelled components: host and port of the URL, deprecated names of options and
  their warnings, the `json` option, log wording, diagnostics channels, the compression
  codecs and TLS themselves, UTF-8 decoding, the bits of floating-point numbers, the
  BigInt and high/low variants of the UUID writers, positions in error messages.
* The runs of several clients on one agent and of shared signals, beyond the hazards
  that describe them.

What remains to prove is under "Only model-checked" in section 5: liveness and what is
computed by recursion over data, both out of the prover's reach.
