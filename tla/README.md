# acp-transport: TLA+ models, checks and proofs

`acp-transport` carries ACP, a JSON-RPC 2.0 protocol, between a client and an
agent: over stdio, over an in-memory pipe, and over a streamable HTTP endpoint
(POSTs towards the agent, server-sent events back). This directory holds models
of its core written from the Go sources, TLC configurations that check them on
small instances, and TLAPS proofs of the most important results for all
instances.

## The system

| part | source | state | operations | who it talks to |
|---|---|---|---|---|
| `connState` | `streamhttp/state.go` | scopes (`nextID`, `queue`, `ch` per session id), registered sessions, pending scope and method per request id, `initKey`/`initCh`, `closed` | `run`, `routeFromBackend`, `emit`, `attachStream` and its `detach`, `sendToBackend`, `waitInit`, `closeWith` | backend connection below, HTTP handlers above, all under `c.mu` |
| `Server` | `streamhttp/server.go` | table of connections under `s.mu` | `handlePost`, `handleInitialize`, `handleGet`, `handleDelete`, `Close` | creates and looks up `connState`s |
| `Client` | `streamhttp/client.go` | connection id, a stream loop per scope, `lastEventID` and `responseScope`, the `recv` channel | `Send`, `Receive`, `Close`, `streamLoop` | the server, over HTTP/2 |
| `Peer` | `jsonrpc/peer.go` | pending calls | `Call`, `Notify`, `Serve`, `Close` | any `MessageConn` |
| `Bridge` | `jsonrpc/bridge.go` | none | copies both ways until one side fails | two `MessageConn`s |
| `channelConn`, `Pipe` | `jsonrpc/conn.go` | two buffered channels and `done` | `Send`, `Receive`, `Close` | its other end |
| `stdio.Conn` | `stdio/stdio.go` | `msgs`, `done`, first close error | `Send`, `Receive`, `Close`, `readLoop` | a reader and a writer |
| `processConn`, `tailBuffer` | `cmd/acp-transport/main.go` | exit status of the agent, tail of its stderr | wraps `stdio.Conn` | the agent process |
| framing, messages, ids | `internal/wire`, `jsonrpc/{message,id,session}.go` | none | pure functions | everyone |

What is hard in it:

* **Concurrency in `connState`.** One goroutine routes what the agent sends;
  every HTTP request is a goroutine of its own. They share scopes under `c.mu`,
  but channels are closed, handlers wait and the backend is called outside it.
  The comment at `state.go:13` names the hazard: a channel closed twice, or sent
  on after it was closed, panics.
* **Streams come and go.** A client may reconnect while its old stream is still
  there, may be too slow (the channel overflows), and resumes with
  `Last-Event-Id` from a bounded history.
* **Answers are routed by id**, recorded before the request is sent because the
  agent may answer before `Send` returns; `initialize` has a path of its own.
* **Closing** can start at five places (DELETE, `Server.Close`, end of the agent,
  failed or abandoned `initialize`) and has to release every waiting goroutine.
* **Sessions** are registered and unregistered by what the agent sends, and
  looked at by handlers without holding a lock across check and use.
* **The client** has a goroutine per scope that dials, reads, remembers and dials
  again; it hands messages to the application through one bounded channel, and
  `Close` runs beside all of that.
* **Peers call each other at the same time**, over a channel that may be full, and
  handlers call back before they answer; calls are given up while their answer is
  on its way, and `Serve` may end under them.

`PROJECT.json` lists these hazards with their lines, the properties that would
catch them, and those no property covers yet.

## Modules

| module | what it is |
|---|---|
| `EventHistory` | pure operators: how `emit` bounds a scope's queue (`Trimmed`), which part `attachStream` replays (`EventsAfter`) and when it answers 410 (`HistoryGone`) |
| `ConnState` | one connection: `connState` and the server goroutines that work on it, its properties and its fairness |
| `MCConnState` | instances for TLC: ids of requests, symmetry |
| `EventLog` | abstract specification: per scope, a log of numbered messages that the application receives in order until the client is closed |
| `StreamClient` | `Client`, extending `ConnState`: the client, a network that loses connections, and the server; implements `EventLog` |
| `MCStreamClient` | instances for TLC: symmetry, and a connection that is already established |
| `Peer` | two `Peer`s over a `Pipe` |
| `MCPeer` | three calls between two peers, one of them nested |
| `StdioConn` | one `stdio.Conn` between the two pipes of a process |
| `ProcessConn` | `processConn`, extending `StdioConn`: the agent process, the goroutine that waits for it, `Receive` with the exit status |
| `Server` | the table of connections: how `handleInitialize`, `run`, `handleDelete` and `Server.Close` create, close and forget them |
| `ConnLifecycle` | `ConnState` as one entry of `Server`'s table: the refinement mapping |
| `Bridge` | `Bridge` and its two pumps, between two connections |
| `EventStream` | pure operators: the lines `handleGet` writes, and `readSSE` on any beginning of them |
| `Messages` | pure operators: decoding and validating a message, writing it, the keys of ids |
| `Framing` | pure operators: `wire.ReadLine` over a `bufio.Reader`, `tailBuffer.Write` |
| `MCMessages` | the arguments on which TLC evaluates them |
| `MCParts` | `MCMessages`, `Bridge` and `Server`, one of them in each behaviour |
| `ConnStateProofs` | of `ConnState`: type correctness, the history as a window of consecutive ids, channel safety, no lost stream, gapless delivery, replays that never block, every answer to the scope of its request; lemmas about the operators of `EventHistory` |
| `StreamClientProofs` | of `StreamClient`: type correctness, no event lost end to end, 410 ends the client, usable session streams, the refinement of `EventLog` |
| `ProcessConnProofs` | of `ProcessConn` and its `StdioConn`: type correctness, order of the lines, nothing buffered is lost, what `io.EOF` means |
| `PeerProofs` | type correctness of `Peer`, safety of the response channels, own answers, no caller forgotten |
| `ConnLifecycleProofs` | `ConnState` implements an entry of `Server`, and inherits what is proved of the table |
| `ServerProofs` | no agent is lost, whatever happens to the table, and what an ended connection leaves behind is attended to |
| `BridgeProofs` | a bridge forwards everything once and in order, and its goroutines are never stuck on each other |
| `MessageProofs` | of `Messages`, `Framing` and `EventStream`, for inputs of any size: keys identify ids; what is accepted can be relayed and answered; lines, event streams and the tail of stderr are exact |

### How ConnState corresponds to the code

A step is one critical section under `c.mu` (or `s.mu`), or one channel operation
or backend call outside the locks. Goroutines are the actors:

* `Initializer` is the POST that created the connection: `put` → `send` → `wait`
  → `answered`, or `close` when `backend.Send` or `waitInit` fails.
* `Runner` is the goroutine of `run`: `receive`, then for each message `scope`
  (`scopeFor`), `register` (`registerSession`), `emit`, `unregister`. When
  `Receive` fails it closes the connection and takes it out of the table.
* a member of `Posts` is one later POST with one message: table lookup, checks,
  `sendToBackend`. `Posts` also name the requests, `KeyOf` their JSON-RPC ids.
* a member of `Streams` is one GET and the channel `attachStream` makes for it:
  `buf` is the channel's content, `cap` its capacity, `closes` how often it was
  closed, `last` the id of the last event written (or resumed from).
* `Deletes` and `Shutdowns` are DELETE handlers and calls of `Server.Close`.

`nextID`, `queue` and `ch` are the fields of a `streamScope`, as functions of the
session id; a scope that does not exist yet is one with the zero values, which is
what `scopeLocked` creates. `toClose[a]` is the local variable (`old`, `streams`)
with which goroutine `a` leaves the lock, and `CloseStream` the `close()` after it.
`listed` is the connection's entry in the table. `toBackend` and `fromBackend` are
the agent's side: it answers each request at most once, in any order, with or
without an error, and only `session/new` answers with a session id; it sends
notifications at will; it may die at any time. When it has died `Receive` may fail
although messages are left, because a pipe chooses between two ready cases and
`cmd.Wait` closes the output of a process that has ended; `Send` on a dead backend
may still succeed for the same reason.

History variables: `closes` (the channel's "closed" flag, as a counter), `told`
(sessions whose close a stream has shown to the client), `retired` (sessions
ever unregistered) and `clashed` (POSTs that had an id in common while both were in
flight, which the server does not refuse).

Abstracted: payloads (a message is what it answers, its session id and whether it
is an error), HTTP status codes and header syntax, heartbeats, and the blocking of
`backend.Send` (a POST in `send` may wait, succeed, fail or be hung up on, and when it
fails the agent may have the message all the same).

### How StreamClient corresponds to the code

`StreamClient` extends `ConnState` and takes its server actions as they are
(`ServerSide`), without the free client of `ConnState`: a GET is dialled by a stream
loop, a POST sent by `Send`, a handler hangs up because its connection is gone.

* `opening` is the caller of `Send(initialize)` after the server has answered:
  `connID` is set, the first stream started, the answer enqueued; or it has `failed`,
  which may happen although the server has answered (`OpenFails`).
* `loop[s]` is the goroutine `streamLoop(s)`: `dial`, `wait` (for the response),
  `read`, `enqueue`, `sleep` (the 200 ms), `close` (it calls `Close` after 410),
  `ended`. A loop exists once `startStream` has been called for its scope.
* `lastEventID` and `recv` are the fields; `recv` holds the scope and event id of a
  message, which the code does not see but the properties speak of.
* `closing` is the caller of `Close`: it cancels the streams it finds
  (`cancelled`), sends the DELETE, and closes `c.done`.
* The network: `cur[s]` is the handler a loop's GET went to, `asked` the
  `Last-Event-Id` it carried, `wire[st]` what handler `st` has written and the
  client has not read, `cut` the handlers whose connection is gone. What is written
  to a connection that is gone is lost until the handler notices.
* `Receive` is the application. `received` is the history of what it got.

Abstracted: the syntax of server-sent events (an event is read as a whole;
`EventStream` has the lines), `responseScope`, and authentication.

`EventLog` has three variables: how much of each scope was emitted, how much was
received, and whether the client is closed. The refinement mapping takes `nextID`,
`received` and `c.done` for them; the streams, buffers, replays and losses between
them are what it hides.

### How Peer corresponds to the code

Two peers, each with `nextID` and `pending`, and a goroutine in `Serve`. A member of
`Calls` is one `Call`, with its goroutine (`call`), its response channel (`answer`,
and `sends` and `closes` for the operations on it) and, on the other side, the
goroutine of `handleRequest` (`handler`). `Nested[c]` is the call the handler of `c`
makes before it answers. `inbox` is what each peer has not received from the pipe.
`Put` waits for room; once the pipe is closed `SendFails` and `ReceiveFails` are
possible too, because `select` takes any case that is ready. Notifications are the
cancel notices; their handler runs in `Serve` and returns.

### How StdioConn and ProcessConn correspond

`reader` and `line` are the goroutine of `readLoop`: it reads a line (`read`) and
offers the message to `msgs` (`offer`). `receiver` is the one goroutine that calls
`Receive`: `wait` is the outer `select`, `drain` the inner one after `done` was
chosen. `sender[s]` is one `Send`, `closer[x]` one `Close`, which closes the
connection and then our ends of the two pipes. `done` and `err` are the fields, set
together by `closeWith`, under `once`. `in` is what the other side has written and
`readLoop` has not read: it is the pipe and the `bufio.Reader` together, so that
after our end is closed any part of it may still be read.

`proc` is the agent process and `waiter` the goroutine of `newProcessConn`: `Wait`
returns (which closes our ends of the pipes), the result is stored, `waitDone` closed,
and the connection closed. `Owner` is the server, which may call `Close` as well.
`Report` is the end of `processConn.Receive`; the 250 ms it gives the exit status may
be over at any moment.

History variables: `written`, `enqueued`, `received` (the number of the newest line
the other side wrote, `readLoop` buffered, `Receive` returned) and `before` (`enqueued`
when the connection was closed).

Abstracted: a line is its number and whether it holds a message; what `Send` writes is
not kept, since `writeMu` makes writes one after the other; the wording of the error.

### How Server and ConnLifecycle correspond

`table` is `s.connections`, `backend[c]` the agent of connection `c`, `closed` the flag
of its `connState`. The actors are goroutines: the POST that creates `c` (named `c`
too), its `run` (`RunnerOf[c]`), DELETE handlers and calls of `Server.Close`. `at` is how
far each has come, `conn` the connection it works on, `left[x]` the ones `Server.Close`
has taken out of the table under `s.mu` and still has to close. A connection is created
in three steps, each of which may fail: `s.Backend` starts the agent, an id is found,
`putConnection` enters it. In between the agent runs and the table does not know it.

Everything a connection does apart from that is left out, so any step that needs it
(`SendInitialize`, `AwaitInitialize`) may end either way. `ConnLifecycle` maps
`ConnState`, which has it all, to one entry of the table: the runner's labels between
two calls of `Receive` become one, and streams and POSTs become stutters.

### How Bridge corresponds

A pump is `bridgeOneWay`, named after the connection it receives from: `pump` is how far
it has come, `hand` the message between `Receive` and `Send`, `errCh` the channel of the
same name. A connection is what its caller sees: `arrived` is what `Receive` has not
returned, `over` how its other side has ended, `shut` whether `Bridge` has closed it.
`Drains` are the connections that return all they hold before they report `io.EOF`
(`stdio.Conn` does: `BufferedDelivered` of `ProcessConn`, and `PipelineComplete` of its
proofs; a `Client` need not). `taken` is history: what each connection's `Send` has accepted. A `Send` that
is refused reports an error of its own, with both sides open.

### How EventStream corresponds

A body is a sequence of lines (`Framing` is about the lines): an event is the lines `id`,
`event`, `data` and a blank one, a heartbeat a comment and a blank one. `Written` is what
`handleGet` has sent after each number of writes: events have consecutive ids, and
`beats` says which writes are heartbeats. `Reading` is the loop of `readSSE`, a recursive
function of the number of lines that have been read, and `ReadSSELine` its body. `Bodies`
are what may arrive: any number of whole lines and a piece of the next one, which
`ReadLine` returns like a line.

### How Messages and Framing correspond

A text is what a line holds, a message what `ParseMessage` makes of it: the same
members, but a null id or error is a nil pointer, like one that is not there, while a
null result is a result. `Accepted` is `ParseMessage`, `LineOf` is `MarshalJSONLine`,
`IDKey` the key under which ids are compared. A numeric id is an integer and an
exponent, a string id a text and one of its spellings. `Pow10` is what `big.Rat`
multiplies or divides by, and `TooLarge` are the exponents it refuses (beyond 1e6, except
those of zero): such an id has no key, and a request with it is not accepted. `ReadLine`
is the loop of `wire.ReadLine` as a recursive function of the number of bytes in `line`,
`Iteration` one round of it, over the chunks that `ReadSlice` returns (`Slice`,
`SliceError`). `TailAfter` is what `tailBuffer` holds after each of a sequence of writes.

`Reply` is `handleRequest` from what the handler has returned (`Handled`) to the response
it sends. The bytes of a result or of an error's data come from the application: `Validate`
asks whether there are any, `json.Marshal`, in `MarshalJSONLine`, whether they are JSON
(`Writable`). A `channelConn` encodes nothing, so over a `Pipe` a response that is not
`Writable` arrives as it is; `Messages` is about the transports that write lines, bodies
and events.

Abstracted: params, versions other than one wrong one, and the
syntax of JSON: `Texts` are objects with the members the code looks at. Strings with
halves of surrogate pairs, which decoding replaces by one character, are left out.

A definition introduced by `fault:` is not part of the model. It is a mistake one
could make in the definition after it (a detach that unlinks any channel, an
overflow that drops the event, an id kept too long) and is there to show that the
properties notice.

## Properties and runs

The `client_` runs are of `MCStreamClient`, `peer` is of `MCPeer`, `process` of
`ProcessConn` itself, `parts` of `MCParts`, the others of `MCConnState`. `CHECK_DEADLOCK FALSE` everywhere: handlers serve one request each and
end, calls return, and when all have ended the system has stopped.

| run | checks | instance |
|---|---|---|
| `channels` | `SafeChannels`, `NoOrphanStream`, `GaplessStream`, `HistoryWindow`, `ReplayFits`, `LivesAsEntry` | two streams of the connection scope, a DELETE and a `Server.Close`, three notifications, `MaxQueued` 2, `SSEBuffer` 1 (about 900,000 states) |
| `routing` | `TypeOK`, `AnswerRouting` | one session, three POSTs (`session/new`, `session/close`) that all have the id of `initialize`, no streams or notifications (about 3.4 million states) |
| `closing` | `WaiterReleased`, `ClosedIsForgotten`, `UnlinkedIsClosed`, `AnswerRecorded` | two streams, a POST with the id of `initialize`, a DELETE, fair goroutines (about 116,000 states) |
| `late_attach` | `EachChannelClosed`, violated | one stream, one DELETE |
| `late_post` | `ClosedSessionRefused`, violated | one session, one stream, two POSTs |
| `client_order` | `ClientTypeOK`, `EndToEnd`, `GoneEndsClient`, `OrderedLog` | from `initialize` on: the connection's scope, two GETs, three notifications, `MaxQueued` 1, one lost connection (about 2 million states) |
| `client_sessions` | `SessionStreamUsable` | an established connection, one session that a POST opens, two GETs, a `Server.Close` (about 3.5 million states) |
| `client_progress` | `EventuallyReceived`, `CancelledLoopsEnd` | an established connection, two GETs, two notifications, a DELETE, fair goroutines (about 90,000 states) |
| `client_gap` | `ReconnectMissesNothing`, violated | two GETs, one lost connection |
| `peer` | `TypeOK`, `ResponseChannelSafe`, `OwnAnswer`, `CallReturns`, `PendingReleased` | three calls, a pipe with room for one message each way (about 190,000 states) |
| `process` | `TypeOK`, `InOrder`, `BufferedDelivered`, `EOFMeansEnd`, `ReceiverReleased`, `ReadLoopEnds` | an agent that writes three lines, `MsgBuffer` 1, one `Send`, both closers, fair goroutines (about 370,000 states) |
| `parts` | `KeysIdentify`, `RelayKeepsMessage`, `AnswersFindCalls`, `FramesExact`, `TailIsEnd`, `BodiesExact` | every pair of ids and every text over five integers and exponents from -2 to 2, of which -1 to 1 are accepted; every input of up to five bytes; up to three writes of up to two bytes; every cut of every body of up to four events and heartbeats |
| | `Forwarded`, `BridgeEnds` | a bridge between a connection that drains and one that does not, two messages each way, fair pumps |
| | `NoneForgotten`, `EndsAreComplete` | two connections, a DELETE and a `Server.Close`, fair goroutines (about 130,000 states in all) |

What they say:

* `SafeChannels`: no channel is closed twice or sent on after its close, and no
  two goroutines are about to close the same one.
* `NoOrphanStream`: a streaming handler on an open connection is linked, closed or
  about to be closed. A detach of the previous handler must not cut off the next.
* `GaplessStream`: what a stream writes continues its last event without gap or
  duplicate; a linked channel lacks nothing the scope has numbered. Overflow and
  resume are the interesting cases.
* `HistoryWindow`, `ReplayFits`: the arithmetic the replay relies on, and that
  filling the new channel under `c.mu` cannot block.
* `AnswerRouting`, `AnswerRecorded`: an answer goes to the scope its request was
  posted in, and is not swallowed by the special path of `initialize`. A request may use
  an id again: that of `initialize`, of a request that was answered, or of one whose
  `Send` failed and left its record in `pendingScope`. The server does not refuse a
  request whose id is in flight, and then it can mix the two up; their answers still go
  to a scope in which that id was used, or to the connection's.
* `WaiterReleased`, `ClosedIsForgotten`, `UnlinkedIsClosed`: closing releases the
  waiting `initialize`, the connection leaves the table, a stream that was replaced is
  told. (That an overflow delays a message and does not lose it is
  `EventuallyReceived`, below.)
* `LivesAsEntry`: a connection, with all it routes and serves, lives and ends as an entry
  of `Server`'s table; so what the next two say of the table is said of connections that
  really have streams, sessions and POSTs.
* `NoneForgotten`: an agent that runs is in the table, or a goroutine is about to put it
  there or to end it, even when `Server.Close` empties the table while a connection is
  being created. `EndsAreComplete`: a connection that was closed by anyone, or whose
  `initialize` has failed at any point, ends its agent and leaves the table.
* `Forwarded`: a bridge neither loses nor repeats nor reorders, and the end of a
  connection that drains cuts nothing off. `BridgeEnds`: the end of one side, or of the
  context, ends `Bridge` and both pumps, also the one blocked in `Receive`.
* `BodiesExact`: wherever the network cuts a body, `readSSE` has enqueued the whole events
  and nothing else, and resumes after the last of them; heartbeats change nothing.
* `EndToEnd`, `OrderedLog`: what the application receives of a scope are the
  messages the server emitted, in order, none missing and none twice, whatever
  happens to the streams in between; the first says it of everything on its way
  (channel, connection, hand of the loop, `recv`), the second of `Receive` alone, as
  a refinement.
* `GoneEndsClient`: after 410 the client closes.
* `SessionStreamUsable`: a session stream, opened as soon as its id is read, is
  never refused unless the session was closed.
* `EventuallyReceived`, `CancelledLoopsEnd`: an overflow or a hang-up of the server
  delays a message and does not lose it; `Close` ends the loops it has cancelled,
  also one that is blocked on a full `recv`.
* `ResponseChannelSafe`, `OwnAnswer`: late answers, cancelled calls, the end of
  `Serve` and `Peer.Close` never send twice on a response channel, nor close it
  twice, nor hand one call the answer of another.
* `CallReturns`: two peers that call each other with handlers that call back do not
  deadlock, even over a full pipe. `PendingReleased`: the end of `Serve` releases the
  calls that were waiting.
* `InOrder`: what lies between the agent and the caller of `Receive` is what was
  written after what the caller has, until `readLoop` has stopped.
  `BufferedDelivered`: who closes first, and which case `select` takes, makes no
  difference to messages that were in `msgs` when the connection was closed.
* `EOFMeansEnd`: the end of the process and the end of its output are seen by two
  goroutines, and `Wait` closes a pipe that may not have been read. What the caller of
  `processConn.Receive` may take `io.EOF` for: it has every line, or the connection was
  closed on our side, by `Close` or because `Wait` has returned, and the process ended
  without an error. In the second case lines may be missing: `stdio.Conn` returns
  `ErrClosed` and `processError` (`main.go:290`) makes it `io.EOF`, like a complete end.
  The model has that loss, the property allows exactly it, and no source promises
  otherwise; but a line that is no message, a failed read or write, a process that
  failed or still runs, is never told as `io.EOF`. (If `readLoop` is the first to see the
  closed pipe, the caller gets `os.ErrClosed`, which `jsonrpc.IsClosed` does not count as
  an ordinary end.)
* `ReceiverReleased`, `ReadLoopEnds`: the caller of `Receive` is told that the
  connection is closed although the process runs on, and `readLoop` ends although
  `msgs` is full and nobody receives.
* `KeysIdentify`: two spellings of one id have one key, and different ids have
  different ones; the table of pending calls and the routing of answers rest on it.
  `RelayKeepsMessage`: what one transport accepted the next can write, and its other
  end reads the same message: the form of a message is never what ends a `Bridge` (a 404
  for its session may be). `AnswersFindCalls`: a request that was accepted is answered
  exactly if what its handler returns is JSON or nothing; the answer is found under the
  request's key, and is an error exactly if the handler returned one or no result. When
  the bytes are not JSON, `Validate` accepts the response, `Send` fails, `handleRequest`
  discards the error (`peer.go:153`) and the caller waits; no source promises it an
  answer. `FramesExact`: the size of the reader's buffer makes no difference to where
  a line ends, how long it may be and what is cut off. `TailIsEnd`: the tail of stderr
  is its end, however it was written.

### Bounds

Two streams are the least that can replace each other, and channels are only ever
related pairwise. Three notifications with `MaxQueued` 2 and `SSEBuffer` 1 make the
history trim, a channel overflow and a replay longer than the default
channel happen, and a client resume before, inside and after the retained window.
Three POSTs with one id are a request that fails and leaves its record, one that finds
it, and a third that meets the second in flight; two of them open and close a session.
`routing` has no streams, since routing ends where an event is queued. The theorems below
have no bounds.

For `Framing`, buffers of one to three bytes cut an input of five everywhere: before,
within and after a line end. The real buffer of 64 KiB and ceiling of 64 MiB differ in
nothing but size. Integers -10, 0, 1, 10 and 12 with exponents from -2 to 2 give equal
numbers with different spellings, negative ones, and fractions; `MaxExponent` 1 stands for
1e6, so that some exponents are refused. Three writes to `tailBuffer` are one that fills
it and two that move what it holds.

For `Server`, two connections are one that is taken by `Server.Close` and one that is
being created; one DELETE and one `Server.Close` meet each other and the end of the
agent. Two messages through a bridge are one in the pump's hand and one behind it; only
one of the two connections drains, as in `runConnect`, where one side is a `Client`.

For the client, two GETs are a stream and its successor; a third would repeat the
second. `MaxLosses` 1 lets the network lose a connection (before or after the
response, or the DELETE); `MaxQueued` 1 makes one unread event fall out of the
history, so that a resume can be refused with 410. `client_sessions` and
`client_progress` start from `EstablishedInit`, the state after `initialize` has
been answered and the first stream started, which `client_order` passes through;
that leaves room for a session, and for liveness. `client_progress` has no losses:
with one, a loop would need a third GET to come back.

For `Peer`, three calls are one with a call back inside it and one that meets them
from the other side. `Impatient` (whose caller may give up: the outer call),
`Stoppable` (whose `Serve` may be cancelled: the side that handles it) and `Closers`
(who may call `Close`: the other side) bound who disturbs; a buffer of one makes
every sender meet a full pipe.

For `ProcessConn`, three lines with `MsgBuffer` 1 are one the caller has, one in
`msgs`, and one in the hand of `readLoop`; a fourth would wait in the pipe like the
third. One `Send` is enough to fail.

### Fairness

`FairSpec` assumes weak fairness of every goroutine of the server, which is what
the Go scheduler gives a goroutine that can run: the runner, each handler, and
each `close()` that follows a critical section. Nothing is assumed of the client,
the agent or the operator: they may hang up, fall silent or die. `GetWrite` is not
fair: a write to an event stream waits for a client that may not read. That is why
`UnlinkedIsClosed` promises that the channel is closed, not that the handler ends.

With the client there (`ClientFairness`), its goroutines are fair as well: stream
loops, the caller of `Close` once it has begun, and a write to a stream, which the
loop reads. The application keeps calling `Receive` until it calls `Close`; after
that nothing is assumed of it, which is the point of `CancelledLoopsEnd`. `Close`
itself, losses, the agent and `Server.Close` are not fair.

In `Peer` every goroutine that has been started is fair, and a handler does make its
nested call. Nobody has to call, give up, cancel or close. Nothing is assumed of
`select`'s choice: a closed pipe may always choose the case that fails, or never as
long as the other one is ready.

In `ProcessConn` the goroutine of `readLoop`, the caller of `Receive`, the goroutine
that waits for the process, and a `Close` that has begun are fair. The agent need not
write, end or exit, and the owner need not close.

In `Bridge` the two pumps and `Bridge` itself are fair (`BridgeFairness`): a `Send` that
is refused is not, nor is the context's end. In `Server` every goroutine is fair once it
has begun (`TableFairness`); no request has to come, no agent has to end or to answer
(`AwaitInitialize` is not fair). In `parts` each holds of the behaviours about its part.

### What the violated runs show

* `late_attach`: the comment at `state.go:13` says the scheme "guarantees each
  channel is closed exactly once". `attachStream` does not look at `c.closed`: a
  GET that passed the table lookup before the connection was deleted can link its
  channel after `closeWith` has taken the others. Nobody closes that channel; the
  handler stays until the client goes away. (At most once does hold, and is
  proved: `ChannelsSafe`.)
* `late_post`: the test at `streamhttp_test.go:161` closes a session, reads the
  answer, posts to the session and expects that to fail. `routeFromBackend` emits
  the answer before it unregisters the session, so a fast client's POST may be
  accepted.
* `client_gap`: the README of the repository (lines 113 and 114) says a client that
  reconnects after its history is gone gets `410 Gone`. A client whose stream broke
  before it had read an event has no `Last-Event-Id` to send, and `eventsAfter`
  answers such a request with whatever is retained, trimmed or not. (Once it has read
  one event it is told: `EndToEnd` and `OrderedLog` hold, where the application's
  messages may begin late, but are never interrupted.)

## Proofs

All theorems hold for every value of the constants that satisfies the named
assumptions of the modules. For `ConnState`: the sets of actors are disjoint, the
model values for "none" are not among the real ones, and `MaxQueued` and `SSEBuffer` are
positive. Requests may share ids. No set has to be finite. For `Peer`:
there are two sides and finitely many calls (so that ids can be counted), a nested
call is made by the peer that handles the outer one, and the pipe has a buffer. For
`Server`: the goroutines are different ones, and every connection has a runner of its
own. For `Bridge`: the two connections are different ones. For `StreamClient`, beside those
of `ConnState`: `recv` has room for a message. For `ProcessConn`: there is a buffer, and
the goroutine that waits for the process is not the owner of the connection. For
`Messages` and `Framing`: ids are made of integers, the largest exponent is a natural
number, the reader's buffer is not empty, and the bytes CR, LF and the others are
different.

* `TypeCorrect` (`ConnStateProofs`): `Spec => []TypeOK`. `TypeOK` alone is not
  inductive: that a routed answer has a key needs `JobOK`, what the runner's
  message is while it is being routed. `TypeInv` is their conjunction.
* `HistoryContiguous` (`ConnStateProofs`): `Spec => []HistoryWindow`. Only `emit`
  changes a history (`QuietHistory`); `TrimmedWindow` says
  that appending the next id and trimming keeps a window a window.
* `ChannelsSafe`, `NoStreamLost` (`ConnStateProofs`): the inductive invariant
  `ChanInv` says what the comment at `state.go:13` says in words, and what it
  leaves out: a channel that no handler has made is nowhere (`FreshChannels`),
  linked channels are open and belong to the scope their handler streams
  (`LinkedChannels`), a channel in a goroutine's hands is neither linked nor in
  another's hands nor closed yet (`HeldChannels`), each is closed at most once
  (`ClosedOnce`), and the runner has closed what it unlinked before it takes the
  next message (`RunnerFree`). `SafeChannels` and `NoOrphanStream` follow.
* `StreamGapless` (`ConnStateProofs`): `Spec => []GaplessStream`, from `ChanInv`,
  `HistoryWindow` and the lemmas about `Resumes`: a replay continues after the
  `Last-Event-Id`, appending the next event and taking the first keep it so.
* `ReplayNeverBlocks` (`ConnStateProofs`): `Spec => []ReplayFits`; inductive as it
  stands, because a handler's channel is filled once, when it is made, and after that
  only by a sender that has looked at the room.
* `AnswersRouted` (`ConnStateProofs`): `Spec => []AnswerRouting`. An answer that is
  with the agent, in its output or in the runner's hand is in flight. `RouteInv` says
  that it is in one of these places only (`AnsweredOnce`); that while a request that has
  not clashed is in flight its entry in `pendingScope` is the scope it was posted in
  (`PendingInv`): whoever overwrites or takes it has the same id, so the two are in flight
  together and have clashed (`ClashInv`); that every entry, also one that a failed request
  has left, is of a scope in which its id was used (`UsedInv`); and that a POST with the
  id of `initialize` comes after `initKey` has been cleared
  (`StageInv`): nobody can post before the answer to `initialize` is out, and `routeInit`
  clears `initKey` when it takes that answer.
* `AgentsFound`, `TableTypeCorrect` (`ServerProofs`): `TableInv` adds to `NoneForgotten`
  who may hold a connection: only `Server.Close` has connections in hand, and it goes on
  until it has closed them all (`LeftInv`), a goroutine that closes works on a connection that exists
  (`OwnersInv`, `FreshInv`), and a connection marked closed whose agent still runs is in
  the hands of the goroutine that marked it (`MarkedInv`, `ClosingInv`).
* `NothingLeftAlone` (`ServerProofs`): `TableSpec => []EndsAttended`, the safety half of
  `EndsAreComplete`. A connection in the table has a runner that has not come to
  `deleteConnection` (`RunnerInv`), and a handler of `initialize` that is done has left no
  agent that somebody else does not close (`DoneInv`, `MarkedInv`).
* `ConnectionIsEntry` (`ConnLifecycleProofs`): `Spec => LivesAsEntry`, the refinement,
  by one step per action of `ConnState`. `AgentNeverLost`,
  `ConnectionEndsAttended`: hence `ConnState` satisfies what is proved of every behaviour
  of the table.
* `BridgeForwards` (`BridgeProofs`): `BridgeInit /\ [][BridgeNext]_bridgeVars =>
  []Forwarded`. That `io.EOF` comes after everything rests on the order in which a pump
  works: it asks for the next message when its hand is empty (`HandInv`), and its error
  in `errCh` is the one it met when nothing was left (`EndInv`, `EntryInv`).
* `BridgeNeverStuck` (`BridgeProofs`): `NobodyStuck`, the safety half of `BridgeEnds`: a
  pump reports once and `Bridge` takes one report (`CountInv`), so two places in `errCh`
  are enough, and `Bridge` waits on an empty one only while both pumps run.
* `ReplayExact` (`ConnStateProofs`): on a window of consecutive ids,
  `eventsAfter` returns exactly the events after the one the client has seen.
* `TypesKept` (`PeerProofs`): `Spec => []TypeOK`, by `TypeInv`: an id is the number of
  calls its peer has begun (`CounterOK`), so ids do not repeat (`IdsUnique`) and are
  never more than the calls; every message is about a call that was made, carries its
  id and travels the right way (`MessagesOK`); handlers and `Serve` hold what their
  program counter says (`HandlersOK`, `ServeOK`).
* `ChannelsUsedOnce`, `AnswersOwn` (`PeerProofs`): the inductive invariant `ChanInv`
  says that a pending call is under its own id with its channel untouched
  (`Registered`), that the one whose channel `Serve` has taken is in the table no
  more (`TakenAlone`), and that a channel is used once (`UsedOnce`). That the answer
  is the call's own follows from `IdsUnique`: the call a response was written for and
  the one it is delivered to have the same id at the same peer.
* `NoEventLost` (`StreamClientProofs`): `ClientSpec => []EndToEnd`, the promise of the
  transport: an event passes from the scope's history through a handler's channel, the
  connection and the stream loop into `recv`, each of which may be lost or replaced on the
  way. Of the server the proof takes `ServerInv`: the invariants of `ConnStateProofs`,
  which hold of the composed system because every step of it is a step of `ConnState` or
  leaves its variables alone, and `EmittedGenuine`, that what is queued or buffered was
  emitted in its scope. `ClientInv` follows an event from there:
  * `RequestsOK`: a loop has one request out exactly while it waits, reads or enqueues,
    and the handler it gets was asked for what follows `lastEventID`;
  * `HandlersOK`: a handler that has not answered yet has a loop that waits for it, or
    its connection is gone;
  * `WireOK`: what was written and not read resumes after `lastEventID` and ends where
    the handler is; a handler that ended left nothing in its channel;
  * `Increasing`, `Chained`: the ids in `recv` of one scope increase, and, until the
    client is closed, each is the successor of the one before, the newest of them being
    `lastEventID` or the one before it while the loop holds an event. The two are
    separate because a `Close` lets a loop drop the event it holds: from then on only
    the order survives, which the refinement still needs.

  `EndToEnd` speaks of positions in `recv` (the next event of a scope after position `i`)
  rather than of the subsequence of a scope, because `SelectSeq` has no meaning to the
  provers. `ResumesAppend`, `ResumesTail`, `ResumesReplay` and `ConcatResumes` are the
  lemmas about what continues what.
* `GoneIsFinal`, `ClientTypeCorrect` (`StreamClientProofs`): from the same invariant; a
  loop that was told 410 waits, closes or has ended (`HandlersOK`).
* `SessionStreamKnown` (`StreamClientProofs`): `ClientSpec => []SessionStreamUsable`. A
  session is registered before the message that names it is emitted
  (`RunnerRegistersFirst`), a registered one is only ever forgotten by being closed
  (`KnownGrows`), and a loop has the name of its session from an event (`SessionsOK`).
* `ImplementsOrderedLog` (`StreamClientProofs`): `ClientSpec => OrderedLog`, the
  refinement of `EventLog`. `Emit` is the log's append, `Receive` its delivery, all else
  stutters; that a delivery takes the message after the last one, or a first one, is
  `ReceiveDelivers`, from `Increasing` and `Chained`.
* `LinesInOrder`, `NothingBufferedLost`, `EOFExplained`, `ProcessTypeCorrect`
  (`ProcessConnProofs`): `PipelineInv`. `InOrder` ends where `readLoop` does, but what is
  in `msgs` is numbered from what was received on even then (`BufferInOrder`), else a
  late `Receive` could not be followed; the pipe and the hand of `readLoop` continue it
  (`ReaderInOrder`). `closeWith` stores the first error and how far `msgs` had come
  (`ClosedOnce`); `Receive` reports only after it has drained (`ReceiverOrder`); when the
  error is `io.EOF`, nothing was left in the pipe and nothing comes (`EndSeen`). So
  `io.EOF` of the `stdio.Conn` means that everything was received (`PipelineComplete`), and
  what `processConn` makes of it and of `ErrClosed` follows from what it knows of the
  process by then (`StatusStored`, `ErrorReported`).
* `CallersRemembered` (`PeerProofs`): `Spec => []NoWaitForgotten`, what liveness needs and
  a lost wake-up would break. A call that has registered is in the table until `Serve`
  takes it or its channel is closed (`AwaitedInv`); once its request is out, the request,
  the handler or the response is under way (`ToCome`), because whatever `Serve` takes from
  the pipe it hands on, to a handler or to the channel. It is the safety half of
  `CallReturns` and `PendingReleased`.
* `MessageProofs` speaks of pure functions, four of them recursive. An induction principle
  with an operator as parameter cannot be used, so `SetInduction` states induction for
  sets of natural numbers, from the fact that `<` is well-founded; `PrimitiveRecursion`
  uses it to show that a sequence built step by step exists, so that `Pow10`, `Written`,
  `Reading`, `TailAfter` and `FlattenSeq` satisfy their equations. `ReadLine` recurses
  towards the end of its input and needs no such sequence: what is proved of it goes by
  induction on what is left.
  * `KeysAgree`: `Spec => []KeysIdentify`. `PowersAdd` and `Cancel` are the laws of powers,
    `Quotient` the division when nothing is left over; a number with a key is that integer
    (`KeyOfNumber`), and one is the same number as another exactly if, scaled to one
    exponent, they are the same integer (`SameScaled`, `SameInteger`).
  * `MessagesRelayed`, `CallsAnswered`: case analysis over what a text can hold: decoding is
    idempotent on what was written, naming the version changes nothing else, a request
    that was accepted has an id with a key (`AcceptedRelayed`), and `handleRequest` answers
    with a response that has either a result or an error (`ReplyByCase`,
    `ResponseDelivered`).
  * `LinesExact`: `Spec => []FramesExact`. While no line feed has come, each chunk continues
    what is in `line` (`NextSlice`, `LineFeedAfter`), so the loop ends with the bytes through
    the first line feed, or with all of them, or over the ceiling (`IterationReturns`,
    `ReadLineReturns`), whatever the size of the buffer; `TrimmedLine` is what
    `trimLineEnd` takes off.
  * `StreamsExact`: `Spec => []BodiesExact`. After the lines of `n` whole writes `readSSE`
    is between two events and has enqueued those written (`WholeWritesRead`). Every cut
    body is some whole writes and the beginning of another, without its blank line
    (`BodyHasWholeWrites`), and that beginning enqueues nothing (`NothingMoreRead`).
  * `TailKept`: `Spec => []TailIsEnd`. A write leaves the last bytes of what there was
    (`TailOfWrite`), the end of an end is an end (`EndExtended`), and so by induction over
    the writes (`TailsAreExact`).

  The theorems speak of the arguments the runs pick, for every value of the bounds; the
  lemmas they rest on (`IDsIdentified`, `AcceptedRelayed`, `RequestsAnswered`,
  `FramesAreExact`, `BodiesAreExact`, `TailsAreExact`) speak of all arguments.

Only model-checked: everything under fairness (`WaiterReleased`, `ClosedIsForgotten`,
`AnswerRecorded`, `UnlinkedIsClosed`, `EndsAreComplete`, `BridgeEnds`, and the liveness of
`StreamClient`, `Peer` and `ProcessConn`), because TLAPS does not handle liveness with
`ENABLED`. Of three of them the safety half is proved (`CallersRemembered`,
`NothingLeftAlone`, `BridgeNeverStuck`): that the goroutine which has to act is there.
Every safety property a passing run checks is a theorem.

Run `tlc -config <cfg> <MC module>` for a run and `tlapm <module>.tla` for the
proofs.

## Plan

In this order; all but the last are done.

1. `EventHistory`, `ConnState`, `MCConnState`: the core above.
2. `ConnStateProofs`, `PeerProofs`.
3. `EventLog` and `StreamClient`: the client composed with the server.
4. `Peer` over a `Pipe`.
5. The three disagreements above.
6. `StdioConn` and `ProcessConn`; the pure functions of `Messages` and `Framing`.
7. `Bridge` over two connections, and `BridgeProofs`.
8. `Server`, the table with several connections, its proof, and `ConnLifecycle`; the
   body of an event stream, `EventStream`.
9. `AnswerRouting` and `ReplayFits` of `ConnState` for all instances.
10. `ProcessConnProofs`: order and completeness of `StdioConn` and `ProcessConn`.
11. `StreamClientProofs`: `EndToEnd` and the refinement of `EventLog`.
12. `MessageProofs`: messages, ids, lines, event streams and the tail of stderr, for
    inputs of any size; the safety halves of liveness properties (`CallersRemembered`,
    `NothingLeftAlone`, `BridgeNeverStuck`).
13. `responseScope` in `StreamClient`.

## Not modelled

* `acp/` (generated schema types and stateless decoding), `internal/cmd/genacp` (a
  build-time generator), the examples, and the flags and agent shortcuts of the
  command: no state of their own.
* In the client: `responseScope`, with which an answer carries the session of the
  request it answers. Of that header the server only asks whether the
  session exists; the answer goes to the agent all the same.
* In `conn.go`: `NewChannelConn` over channels of the caller, which nothing else uses.
* That an event adds a few bytes to a message: near the ceiling of 64 MiB a message that
  fits a line of stdio does not fit an event (listed with the hazards).
* In `Peer`: a nil handler, ids and parameters that cannot be encoded, and
  notification handlers that do not return.
* In `ProcessConn`: the wording of errors, and a reader or writer that cannot be closed (the
  pipes of a process can).
* TLS, HTTP/2, content negotiation, the bearer token: pure request checks before
  the modelled handlers.
* Heartbeats: they carry no events; what they do for the model (a write that fails
  ends the handler) is `GetHangup`.
* The failure of `json.Marshal` in `emit`: a message that came from an agent process was
  parsed from JSON and can be written again. (A backend in the same process, behind a
  `Pipe`, could hand over bytes that are not JSON; the server would close its connection.)
* `NewResult`, which encodes a value as a result: only the examples and tests answer with
  it. A `Peer` answers with `NewRawResult`.
* `net/http`'s own behaviour (it cancels a handler's context when the client goes
  away: `GetHangup`, `PostHangup`, `InitHangup`).
