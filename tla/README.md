# A TLA+ model of the receptor controller

The receptor controller lets internal services of a platform send work to
*receptor nodes* at customer sites. A node opens a websocket to one of several
gateway pods; a service posts a job, ping, status or disconnect request to a
switch pod, which finds in Redis which gateway has the node and repeats the
request to that gateway over HTTP.

This directory models the parts of the system that have state: the registry of
connections, the goroutines of a websocket session and its keep-alive, the wire
protocol, and the path of a request. TLC checks them on small instances; TLAPS
proves all of the safety properties for every value of the constants. Paths
below are relative to `src/`.

## The system

| Part | Source | What it does |
|---|---|---|
| Redis registry | `internal/controller/redis_connector.go` | key `account:node` -> host name of the gateway, and three index sets |
| Local table | `internal/controller/connection_manager.go` | the sessions of one gateway pod, under a mutex |
| Gateway registrar | `internal/controller/gateway_connection_manager.go` | `Register`, `Unregister`: Redis, then the table, then the active registrar |
| Active registrar | `internal/controller/active_connection_registrar.go` | one goroutine per session that checks and repairs the key |
| Cleaner | `cmd/connection_cleaner/main.go` | cron job that removes the keys of pods that are gone |
| Transport | `internal/controller/transport.go`, `ws/handler.go` | channels, context and socket of a session |
| Reader, writer | `internal/controller/ws/client.go` | the goroutines at the socket |
| Receptor service | `internal/controller/receptor.go` | `SendMessage`, `Ping`, `Close`, and the dispatch of answers |
| Reactor, handlers | `response_reactor.go`, `*_handler.go` | handshake, payload, route table, disconnect |
| API | `internal/controller/api/` | HTTP handlers, run by the switch over Redis and HTTP, by the gateway over its table |
| Protocol | `internal/receptor/protocol/` | frames and messages |
| Others | `mesh_router`, `middlewares`, `config`, `platform`, `dispatcher.go`, the `main`s | see *Not modelled* |

## The modules

Five specifications, the larger ones made of one module per component:

    ConnectionRegistry  <- ConnectionCleaner <- GatewayConnectionRegistrar
                           <- ActiveConnectionRegistrar
                           <- LocalConnectionManager <- RedisConnector
    WebSocketSession    <- WebSocketClient <- Transport
                        <- ResponseReactor <- ReceptorService <- Transport
    MessageSwitch
    ReceptorProtocol
    KeepAlive

`AbstractRegistry` is what `ConnectionRegistry` is shown to implement. `MC*`
modules hold the instances for TLC, `*_proofs` modules the theorems.

**ConnectionRegistry.** Sessions (`Conn`) on pods (`PodOf`) announce a node
(`KeyOf`); each session is used once, and a node that reconnects is another
session with the same key. `TxPipelined` is called in both registration
functions with a function that uses `client` rather than `pipe`, so every
command reaches Redis by itself; the model takes one step for each command,
lock and channel operation. `sess[c]` and `reg[c]` are the program counters of
a session's reactor and of its registrar; the comments at the head of the
modules list their values. `Faults` chooses what may go wrong: `"redis"` (a
command is lost, or takes effect and its reply is lost), `"dns"` (a lookup of
the running pods fails or misses some, as it does when Kubernetes takes a pod
that is shutting down out of the service), `"crash"` (the process of a pod ends
with its goroutines and tables), `"restart"` (the container of a pod that ended
is started again in place, with the same address and empty tables, as the
livenessProbe of `deploy/clowdapp.yml` has it; without this fault its
replacement has another address), `"flush"` (Redis loses its data, once). A
shutdown is not an action of its own: `closeConnections` is a `Close` of each
session it found in the table, and `main` returns, after a sleep, wherever the
sessions are by then, which is `Crash`. `missed` is a history variable: the pods
that the lookup of a registrar or of the cleaner has not returned at some time.

**AbstractRegistry.** A node has at most one owner among the sessions, and a
lookup finds the owner's pod. Only the owner gives the node up. What a lookup
finds for a node without an owner is left open, because the code leaves it open
(`registry_ghost`): a lost reply or a late registrar may put a pod there. The
refinement mapping takes `route` from the Redis keys and a session's phase from
`sess`.

**WebSocketSession.** One session with its reader, writer, reactor, API calls
and peer. The buffered channels are bounded sequences; the unbuffered ones (the
error channel, and the channel of a ping) are joint steps of sender and
receiver. The peer sends HI, payload and route messages, or closes. A message
is a record with the fields the handlers look at. `writer = "failing"` stands
for a socket whose messages are lost: `w.Close()`, which flushes, has its error
dropped, so the writer goes on. `DispatchPanics` is the one step that ends
everything at once: `DispatchResponse` reads the recipient of a payload without
looking whether it has routing information, nobody recovers from the panic, and
the process is gone (`reactor = "crashed"`). For the registry that is a `Crash`.

**MessageSwitch.** Requests of one node through switch and gateway.
`SwitchHttpError` is every way `makeHttpRequest` or the reading of its answer
fails, at any moment; the gateway may start, or finish, after it. Redis, the
tables and the sessions change in any way (`RegistryChanges`), as nothing that
the registry guarantees is needed.

**ReceptorProtocol.** One end writes messages, the other reads them while they
are written, and the connection may break at any point and lose what was not
delivered. A frame header, a unit of data and the end of a websocket message are
the elements of the stream. A text is abstracted to what it says, its length,
whether it is JSON that fits its message, and which of the words `HI` and
`ROUTE` occur in it, as these are what the code looks at. Besides messages
written by `WriteMessage` there are those of a peer that does not keep to the
protocol (`Raw`): any sequence of frames, of any type, each with a stated length
of its own. `Accepts` and `Reading` say of all the frames of one message whether
`ReadMessage` returns something for it, and what; the properties compare the
reader, which goes by the stream, with them. A payload frame without a header
frame is accepted, as in the code, and comes without routing information.

**KeepAlive.** The ping ticker, the pong handler and the read deadline, in
discrete time: a variable for what is left of each timer, and the step `Time`
that does not pass over anything that is due. With a `prompt` node a ping takes
up to `Jitter` to be written and a pong up to `Latency` to arrive. A node, or the
network, may turn `slow`: a write then lasts for as long as it may, up to
`WriteWait`, when the ping fails, ticks wait behind it, and pongs come at any
time. It may also vanish. Pongs are handled by the goroutine that reads, so not
while it waits for room on `Recv`.

Sessions and registry meet in `Register`, `Unregister` and `Close`: the
registry's `sess` is the reactor of `ResponseReactor` in `register` and in its
return, taken apart into commands, and its `Close(c)` is the `Cancel` of the
transport. `ReaderMessage` and `ReaderError` of the session are a `ReadMessage`
of `ReceptorProtocol` that returns or fails, and a `ReaderError` or
`WriterPingFails` on an open socket may be the keep-alive's.

## Runs

All runs use TLC's breadth-first search, and each takes a few minutes at most.

| Run | Instance | Shows |
|---|---|---|
| `registry_safety` | 3 sessions of a node on 2 pods, 2 indexes, no fault | `UniqueRegistration`, `IndexEntriesAreBacked`, `ImplementsAbstractRegistry` |
| `registry_faults` | 2 sessions on one pod, 2 indexes, all faults | `TypeOK`, `TableHoldsLiveSessions`, `OrphanRegistrarIsCancelled`, `OnlyMissedPodsLoseEntries` |
| `registry_repair` | 2 sessions on 2 pods, crashes, Redis loses its data | `RegistrationIsRepaired`, `RegistrarEnds`, `StaleRegistrationIsRemoved`, `OnlyMissedPodsLoseEntries` |
| `session` | 1 ping, 2 jobs, 3 messages, capacity 1 | `TypeOK`, `JobsAreWrittenInOrder`, `AnswersReachTheirPing`, `NoRegistrationLeft`, `ReplyPrecedesPings`, `OnlyBareSendsBlock`, `OnlyDispatchBlocksUnregister`, `CallsReturn` |
| `switch_requests` | a job, a ping, a status request and a disconnect, 1 pod | `JobAnswersAreTrue`, `ConnectedMeansFound`, `RequestsAreAnswered` |
| `protocol_codec` | 2 messages out of 4 of the protocol and 23 foreign ones | `TypeOK`, `ReadAsWritten`, `OnlyFaultsEndReading`, `BlocksOnlyBetweenMessages`, `WrittenIsRead` |
| `keep_alive` | `PongWait` 25 s (the default), delays of a prompt node up to 1 s each, in half seconds | `TypeOK`, `PromptPeerIsKept`, `VanishedPeerIsNoticed` |

The five other runs end in a violation, see *Where the code departs from what
it says*.

### Bounds

- One key. Different nodes share only the listing of the cleaner, and the
  cleaner treats its entries one after another.
- Two or three sessions: two on one pod give a reconnection to the same pod
  while the old session is torn down, the third a competing pod.
- `registry_faults` has both sessions on one pod, so that a local duplicate, its
  rollback, the removal of the other session's entry and a reconnection after a
  restart in place happen. A registrar that takes over the key of another pod is
  in `registry_repair`, with a session on each of two pods; three sessions on two
  pods with all faults are beyond TLC, and covered by the theorems.
- `"restart"` is not among the faults of `registry_repair`: with liveness it is
  too large. What it would add is described below.
- Two indexes in `registry_safety` and `registry_faults` and one elsewhere, for
  the code's three: the index commands of a registration differ only in the set
  they write to, and two are enough for the old and the new session to be at
  different ones.
- The cleaner runs again and again, without a bound; every run is a new process
  that keeps nothing from the one before.
- `BufferedChannelSize = 1`: the channels are full after one message, so every
  wait on a full channel occurs.
- `MaxIncoming = 3` messages from the peer: a HI, an answer, and another answer
  or a message of another kind. `MaxHi = 1`: a node says HI once, and three of
  the properties of a session are stated for that; see below for a second HI.
- `MaxWritten = 2` messages: a good or bad message and one after it, so that the
  rest of one can be taken for the next. The foreign ones have malformed,
  unknown, missing and additional frames, and frames that state less than, more
  than or nothing of the length of their data, with and without a frame behind
  them that could fill the gap. Five of them are accepted.
- `PongWait` is 50 steps, `PingPeriod` 45, so 4 steps of delay are the most that
  the assumption allows: the run is at the edge. The slack that this leaves to a
  prompt node is 2.5 s with the default of `PongWait`, less than the default of
  `WriteWait`, 5 s.
- One pod in `switch_requests`: a request deals with the one pod it read from
  Redis, and whether that pod has the node is chosen freely at every step.
- Symmetry only in runs without liveness, over sessions of the same pod and over
  pings and jobs.

Sessions are used once, calls are made once and connections close, so all models
but `MessageSwitch` may come to an end; their runs do not check for deadlock.
That nothing waits for ever is what the liveness properties say.

### Fairness

- `ConnectionRegistry`: weak fairness of every session that has begun and of
  every registrar (the scheduler runs goroutines, the Redis client times out, the
  ticker fires), and strong fairness of a registrar's `ctx.Done()`: Go's `select`
  picks at random among the ready cases, so a case that is ready every time the
  `select` is reached is taken in the end. Weak fairness of the cleaner too:
  `deploy/clowdapp.yml` makes it a cron job, which has always a next run. Nobody
  has to connect, close or crash.
- `WebSocketSession`: weak fairness of each goroutine, of transfers over
  unbuffered channels when both ends are ready, and of calls in progress, whose
  contexts time out. A read need not return unless the socket is closed; the peer
  need not do anything.
- `MessageSwitch`: weak fairness of the switch's handler alone, as its HTTP call
  has a timeout. The gateway may never answer.
- `ReceptorProtocol`: weak fairness of an end that can go on with a message.
  Nobody has to begin one, and the connection need not break.
- `KeepAlive`: time passes, pongs that arrived are handled and deadlines expire
  (weak fairness); strong fairness of `PingFails` for a node that is gone: pings
  written to it again and again are not acknowledged, and TCP gives the
  connection up or the buffers fill and `WriteWait` expires. Whether a waiting
  reader gets room on `Recv` is left open.

### Reading the results

- `UniqueRegistration` is the purpose of the registry. By its proof it survives
  lost commands and the unconditional `DEL`, because only the winner of the
  `SETNX` gets to its own `DEL`. It does not survive a crash or a wrong DNS
  answer: registrar and cleaner then delete keys of others by design.
- `TableHoldsLiveSessions` and `OrphanRegistrarIsCancelled` hold under all
  faults, so that a shutdown or an API call never acts on a session that is gone,
  and every leftover registrar has a cancelled context.
- `ImplementsAbstractRegistry` says more than `UniqueRegistration`: between the
  `SETNX` of a session and its own `DEL` there is no step in which the lookup
  finds another pod or none, and nobody becomes the owner without such a `SETNX`.
- `RegistrationIsRepaired` leaves out sessions whose registrar was cancelled by
  another session, which happens (see below).
- `StaleRegistrationIsRemoved` is about keys that the first index lists under the
  dead pod and under no running one. `GetAllRedisConnections` keeps one host per
  node, so an entry of a running pod can hide the dead one from every run of the
  cleaner; and a key that is not listed is never seen (`registry_orphan_key`).
- `OnlyMissedPodsLoseEntries` is what is left of `UniqueRegistration` when
  anything may fail: registrar and cleaner act on readings that are old by the
  time they delete, so the key of a session that registered in between may go,
  but they remove index entries by key and host name, and the host was missed by
  a lookup. Once it was missed there is no bound: a cleaner run that found a pod
  down may remove the entries it has made after a restart in place.
- `BlocksOnlyBetweenMessages` is the safety half of `WrittenIsRead`: whatever a
  frame header says, a read for more than was written ends at the end of the
  websocket message, so no frame makes the reader wait in the middle of one.
- `OnlyDispatchBlocksUnregister` is `ClosedSessionsUnregister` with the one
  exception that `session_late_ping` shows. Both leave out the end of the process
  by a panic, after which the registration is for the cleaner.
- `OnlyBareSendsBlock` is its safety half, for the goroutines: in a state with a
  closed socket where no caller and no goroutine has a step left (`AtRest`), the
  reactor has returned or is in one of the two sends that have no `select` around
  them, to a ping that gave up (`Stranded`) or to a writer that has returned
  (`Unheard`). Reader and reactor never wait for each other, however full the
  receive queue is.
- `ReadAsWritten` holds although `ReadMessage` drops the error of a header frame:
  the type assertion on the missing routing message panics, which ends the
  session as an error would (this one is in the goroutine of the HTTP handler,
  where the server recovers). It does not say that foreign messages are refused:
  a payload frame alone, or frames after a whole message, are not. It says that
  what is made of them is what their first frames say, taken whole.
- `PromptPeerIsKept` is where the nine tenths of `calculatePingPeriod` matter: a
  deadline is set by one pong, and the next one is due `PingPeriod` and the two
  delays later. A node that is alive but slow is not promised to be kept: it may
  miss a deadline, or not take a ping within `WriteWait`. A message in between
  disarms the deadline altogether, so the session of a node that then vanishes is
  closed only by a ping that fails: `VanishedPeerIsNoticed` needs the fairness of
  `PingFails` for that.
- `JobAnswersAreTrue` says nothing of a 500, on purpose: see below.

## Proofs

`ConnectionRegistry_proofs`, for any pods, keys, sessions and number of indexes:

- `TypeCorrect`: `TypeOK`. The inductive invariant is `TypeInv`, which adds that
  a registrar or cleaner about to unregister a host has one (`SeenIsKnown`,
  `TargetIsKnown`).
- `TableCorrect`: `TableHoldsLiveSessions`, under any faults. With the types it
  is inductive: the step that makes a session leave the listed places is the one
  that clears its pod's entry.
- `RegistrarLifetime`: `OrphanRegistrarIsCancelled`, under any faults. It needs
  `RegistrarStartsLate` (a rollback happens before a registrar exists) and
  `UnregisterFollowsCancel` (any other Unregister follows the cancellation of the
  transport).
- `RegistrationIsUnique`: `UniqueRegistration`, assuming
  `Faults \subseteq {"redis"}`. It needs `NoTakeover`: without crashes and wrong
  lookups neither a registrar nor the cleaner unregisters anything, so only the
  holder deletes a key. Lemma `TakeoverNeedsFault` proves that by itself.

`AbstractRegistry_proofs`, under the same assumption:

- `RegistryImplementsAbstract`: `ImplementsAbstractRegistry`. Given `TypeInv`,
  `NoTakeover` and `UniqueRegistration`, every step of a session maps to an
  `Acquire`, `Reject`, `Release`, `Stray` or a stutter (`SessionRefines`), every
  step of a registrar to a `Stray` or a stutter (`RegistrarRefines`).

`ConnectionIndexes_proofs`, for the same constants:

- `IndexesAreBacked`: `IndexEntriesAreBacked`, without faults. It needs
  `IndexFromFirst` (a session that begins to remove its entries has all of them
  before it) and `RepairIsAlone` (a registrar that is filling the indexes has the
  key and competes with no session, which could delete the key under its hands).
- `EntriesOfFoundPodsStay`: the action property `OnlyMissedPodsLoseEntries`,
  under any faults. Its invariant is `OnlyMissedPodsAreUnregistered`: the host
  that a registrar or the cleaner is about to unregister, or will find to be
  down, is one that some lookup has missed.

`WebSocketSession_proofs`, for any nodes, pings, jobs, capacity and number of
messages:

- `SessionTypeCorrect`: `TypeOK`, from `TypeInv`, which adds what kind of message
  reader and reactor have in hand at each place (`InHand`).
- `JobsInOrder`: `JobsAreWrittenInOrder`. `JobsInv` says that what was written
  and what is queued are together the accepted jobs, until a write fails.
- `RepliesComeFirst`: `ReplyPrecedesPings`, for any number of HIs. `ReplyInv`
  adds `ReplyIsAhead`: whoever may send a ping does so when the reply is written
  or in the queue, and then every ping in the queue is behind it.
- `SessionsUnregister`: `NoRegistrationLeft`, assuming `MaxHi <= 1`. `OneHi`
  follows the HI from the reader through the queue to the reactor; what is
  registered is what the disconnect handler unregisters.
- `AnswersAreNotOvertaken`: `AnswersReachTheirPing`, assuming `MaxHi <= 1`.
  `PingsAreAwaited` says that whatever has left of a ping (queued, on the wire,
  or as an answer on its way back), its channel was registered first and stays
  until the caller has returned.
- `NobodyElseBlocks`: `OnlyBareSendsBlock`, for any number of HIs. `EndsAreSeen`
  adds that a reader that has returned has cancelled the context, and that a
  channel is in the dispatch table only after its ping has begun.
- `OnlyStrandedStayRegistered`: assuming `MaxHi <= 1`, a session at rest is
  unregistered or stranded, from the theorem before and the invariant of
  `SessionsUnregister`: a handshake fails before anything is registered.

`KeepAlive_proofs`, for any `PongWait` and any delays with
`PingPeriod + Jitter + Latency < PongWait`:

- `KeepAliveTypeCorrect`: `TypeOK`, from the same invariant.
- `PromptPeersAreKept`: `PromptPeerIsKept`. `PongIsInTime` is the strengthening:
  as long as a deadline runs for a prompt node, a pong on its way, a tick that
  waits or the next tick will bring it forward in time; `NoDeadlineInPass` says
  that none runs while the reader does not read.

`MessageSwitch_proofs`, for any requests and pods:

- `JobsAnsweredTruly`: `JobAnswersAreTrue`, from `JobInv`, which ties the
  gateway's reply to the queue and the client's answer to the reply.
- `ConnectedTruly`: `ConnectedMeansFound`, from `QueryInv`.

Both rest on `SwitchTypes`.

`ReceptorProtocol_proofs`, for any messages, also those that are not of the
protocol, with any lengths stated in their frames, and any number of them:

- `ProtocolTypeCorrect`: `TypeOK`, with the items of the stream (`TypeInv`).
- `ReadsWhatWasWritten`: `ReadAsWritten`. What is returned is, message by message,
  `Reading` of what was written, and `ReadMessage` accepts it; for a message of
  the protocol that does not look like a HI (`protocol_route`), `Reading` is the
  message.
- `FailsOnlyOnFaults`: `OnlyFaultsEndReading`.
- `ReaderBlocksOnlyBetweenMessages`: `BlocksOnlyBetweenMessages`.

All rest on one invariant, `IInv`. That the stream is a piece of the encoding of
all messages written would be a recursive function of a sequence, about which
TLAPS cannot reason by induction. The invariant says it by positions: each item
of the stream has a `Place` (message, frame, offset), the item is the one at that
place (`ItemAt`), and the place of the next one is `NextPlace` of it (`Aligned`).
The piece begins where the reader is (`ReadPlace`) and, unless the connection
broke, ends where the writer is (`WritePlace`). A reader that has failed to parse
a header frame has no exact place (`Lost`); it is still within the message, and
cannot return it any more. Appending and cutting keep the alignment
(`AlignedAppend`, `AlignedUnits`, `AlignedAfter`, `AlignedPiece`), and with it what
a read of `n` units returns is data of one frame, all of it if it parses
(`ParsedIsWritten`), and what fits its frame is read and parses
(`FittingIsParsed`).

The assumptions on constants say that the markers for "none" are no members of
the sets, that the maps are functions and that the bounds are numbers; the one of
`KeepAlive` adds that the delays fit, the one of `ReceptorProtocol` that what
`WriteMessage` writes is JSON with its command in it.

Only model-checked: all liveness properties (fairness and ENABLED are outside
TLAPS).

## Where the code departs from what it says

Each of these five runs checks a property that a line of the repository states,
and TLC finds a behaviour of the model that violates it. `PROJECT.json` quotes
the lines.

| Run | What happens |
|---|---|
| `registry_unlisted` | A node reconnects to its pod while the old session's `SREM`s are outstanding; they remove the new entry, and the open connection is not listed. |
| `registry_ghost` | A registrar tick between the `DEL` of Unregister and the registrar's end registers the closed connection again; its pod runs, so the key stays. |
| `registry_orphan_key` | A pod dies between `SETNX` and the first `SADD`; no index lists the key, so the cleaner never sees it. |
| `session_late_ping` | An answer is matched to a ping that gives up before it receives; the reactor blocks for ever and the closed session stays registered. |
| `protocol_route` | A ROUTE command of a node with `HI` in its name is parsed as a HI, and handled as another handshake. |

More that came up in the modelling and that the properties leave room for:

- A payload frame without a header frame is returned without routing information
  (`messages.go:45`), and `DispatchResponse` panics on it (`receptor.go:235`). The
  reactor has a goroutine of its own, so the gateway process ends.
- After a restart in place, the keys of the old process name a pod that is
  running. Neither the cleaner nor a registrar takes them for leftovers, and the
  nodes are refused as duplicates; `StaleRegistrationIsRemoved` is about pods that
  are down.
- The rollback after a local duplicate removes the entry and the registrar of the
  session that was there first. It takes a key that was lost before (a flush, a
  wrong lookup), so that the second session won its `SETNX`.
- The old session's `StopActiveRegistrar`, by key, cancels the registrar of a
  session that has replaced it on the same pod; its key is not repaired then
  (`stopped` in the model).
- `RegisterWithRedis` returns `DuplicateConnectionError{}` and
  `registerAndCloseConnectionOnDuplicate` asks for a pointer, so a registrar that
  loses the race for a key does not close its connection at once. It does at a
  later tick.
- A second HI with another node id replaces the disconnect handler, and the first
  node stays registered: `NoRegistrationLeft` and its theorem are for one HI.
- A websocket whose handshake gives up stays open, as `HandshakeReadWait` is used
  nowhere; the test for it in `ws/handler_test.go` is skipped.
- After a crash, the cleaner can delete the key of a live session that took the
  node over after the listing, as it deletes by key; the session's registrar
  restores it (`RegistrationIsRepaired`).
- The writer's `select` may take a job while a control message waits, though the
  comment on `ControlChannel` in `transport.go` says it lets them bypass jobs.
- A job may be queued although its client was answered 500 with "unable to send
  message": the gateway can go on after the switch has given up.

## Not modelled

- In the protocol: JSON itself and the timestamp format, beyond whether a text
  fits; messages beyond `MaxMessageSize`, on which the websocket library fails
  the read; the width of the length in a frame header: the API takes bodies of up
  to a megabyte, so no frame comes near 2^32 bytes. A text that is cut does not
  parse, though white space at its end could be cut without harm.
- Disabled pings (`PongWait` 0): nothing is armed then, and only a failing read or
  write ends a session.
- `connection_util`: an operator registers or unregisters any node by hand; no
  property survives that, and none is claimed.
- The listing endpoints and the splitting of index values at `:`. They read the
  index once and change nothing; what they list is the first index, about which
  `IndexEntriesAreBacked` and `OpenConnectionsAreListed` speak.
- Authentication: a decision on the headers of one request, without state. A
  definition of it would be a copy of its conditions.
- The mesh router, of which nothing is called and whose route is always nil.
- `dispatcher.go`, whose only call is commented out, the Kafka client's set-up,
  logging, metrics, monitoring, the rest of the configuration, the API
  specification's endpoint and the wiring in the `main`s.
- Account numbers within a session: they are equal by construction.
