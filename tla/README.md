# TLA+ models of nethub

nethub is a hub for TCP, WebSocket and UDP clients: acknowledged request/response
with retries, publish/subscribe by room, bidirectional streams. It is one flat Go
package in which every connection has several goroutines that share a `Client`
object through `sync.Map`s, channels and atomics. The modules here model its core,
one per component, TLC checks them on small instances, and the TLA+ proof system
proves the safety properties for every value of the constants.

Citations such as `client.go:500` are lines of `src/client.go`. PROJECT.json maps
every definition to the lines it stands for.

## The system

Goroutines around one connection:

    application ──Request/Publish──▶ Client ──txQueue──▶ writer ──▶ socket
    reader ──receiveMessage──▶ rxQueue ──▶ run loop ──▶ packetHandler[type]
                                             │              ├─ request: a job goroutine per request
                                             │              ├─ response, ack: closes the channel a caller waits on
                                             │              └─ publish: Group.PubTopic ─▶ pubCh of every member
                                             └─ heartbeat timeout ─▶ Dispose
    PubSub actor ◀── subCh, unsubCh, pubCh, clearCh (one actor per Client, room and world)

| component | state | operations | interacts with |
|---|---|---|---|
| request and reply (`client.go`) | `pendingResp`, `pendingAck`, `handlingReq`, flyPackets | Request, RequestWithRetryByPacket, onReceiveRequest / Response / Ack, SendPacketWithRetry | run loop, connection, handlers |
| login handshake and cipher (`client.go`, `crypto.go`, `hub.go`) | `state`, `Crypto` (key, two RC4 positions) | receiveMessage, SendMessage, Login, changeState, exchange_secret and login handlers | request and reply, both ends |
| PubSub actor (`pub_sub.go`) | listeners, four channels | SubTopic, UnsubTopic, ClearAllSubTopics, PubTopic, the select loop | embedded in every Client and Group |
| topic matching (`pub_sub.go`) | none | TopicListener.Validate | PubSub actor |
| groups and fan-out (`group.go`) | members, parent | PubTopic, AddClient, RemoveClient, Broadcast | publishers' run loops, members' actors |
| hub registry and life cycle (`hub.go`, `client.go`, `events.go`) | `hub.clients`, groups, `ClientId`, `GroupId`, `Group`, `beDisposed`, ctx, `isClosed`, `closeMu`, event listeners | OnClientConnect, onClientLogin (takeover, AddClient), Dispose, Close, heartbeat timeout | everything |
| streams (`stream.go`, `client.go`) | `handlingStream`, `OnRev` | StreamRequest, onReceiveStreamRequest / Response, onReceiveCloseStream, the handler's close packet | run loop |
| client reconnection (`tcp_client.go`, `websocket_client.go`) | `client.conn`, `state`, `lastRxTime` | tryConn, OnDisconnect, login loop, heartbeat check | handshake, connections |
| connections and servers (`tcp_*.go`, `websocket_*.go`) | `txQueue`, `isClosed`, `closeMu`, the server's `clients` | StartRead, StartWrite, SendMessage, SendMessageDirect, Close, checkConnAuth | Client, hub |
| UDP (`udp_*.go`, `fake_udp_conn.go`) | Clients by address | readers, writers | hub |
| session cache, codec, handler registry, TLS, logger | a map with delayed deletes; none | TemptSaveSession; parsing and formatting | |

What is hard, and what makes each part correct:

* **Request and reply.** Response, retry, timeout and disposal race for one channel,
  over queues that drop. A call returns once, with what its own handler produced; a
  request is worked on by one job at a time; no map entry outlives its purpose; a
  channel is closed once.
* **Handshake.** Each side changes its state by itself and reads and writes according to
  it. A publication is let through only after the login, whoever calls itself logged in was
  served, and a login is answered.
* **PubSub actor.** Four blocking channels and a select with no order. Whoever listens
  hears, once and in order; an unsubscription leaves nothing behind; calls return.
* **Fan-out.** Members join and leave during `Range`, every send may block. Nobody gets a publication
  twice, out of order or under a wrong name, and a round comes to its end.
* **Life cycle.** Five goroutines may log in, take over, close and dispose at once.
  A Client is disposed only by its own end or by a login under an id it shares, is found
  where it logged in, and nobody waits for ever for another's mutex or channel.
* **Streams.** The run loop fills a channel of ten places that a handler empties, and
  goroutines add and delete map entries around it. Packets stay in order, an entry has
  a reader, the run loop goes on, a stream ends at both ends.
* **Reconnection.** Goroutines of the old connection outlive it: login loop, reader,
  heartbeat check. One connection is in use at a time, the application is told of each
  login, and in the end the client is logged in.
* **Connections.** Four goroutines and the Client close one connection while others
  wait for its mutex, its queue or its socket. It delivers in order without gaps, is
  entered only after its login, and releases everything when it ends.

## Modules

| module | models |
|---|---|
| `Rpc` | abstract specification: what a call promises, without packets |
| `RequestReply`, `MCRequestReply`, `RequestReply_proofs` | request and reply between two Clients; refines `Rpc` |
| `Topics` | `Validates`, what `Validate` computes, and MQTT's rules |
| `TopicMatch` | `Validate` as the loop it is; proofs in `PubSub_proofs` |
| `PubSubActor` | the actor and its channels; used by the next two |
| `PubSub`, `MCPubSub`, `PubSub_proofs` | one PubSub and the goroutines that call it |
| `Fanout`, `MCFanout`, `Fanout_proofs` | a PubSub per client, room and world, and the run loops that publish |
| `HubLifecycle`, `MCHubLifecycle`, `HubLifecycle_proofs` | accept, login, takeover, loss, heartbeat timeout, Dispose |
| `Handshake`, `MCHandshake`, `Handshake_proofs` | key exchange and login, with the positions of the key streams |
| `Streams`, `MCStreams`, `Streams_proofs` | streams between two Clients, with what their applications do |
| `Reconnection`, `MCReconnection`, `Reconnection_proofs` | the connections of one client, one after the other |
| `Channel` | abstract specification: what a connection promises on each lane |
| `Connection`, `MCConnection`, `Connection_proofs` | one connection of a server from acceptance to end; refines `Channel` |

Operators that no action uses and whose comment begins with "mutant" are wrong
variants of the definition after them. PROJECT.json pairs each property with one that
breaks it.

### RequestReply

Callers are goroutines inside `Request` (one shot) or `RequestWithRetryByPacket`
(`Retrying`). `pc = "own"` is a call that stored its flyPacket, `"join"` one that found
another's. Job `<<i, n>>` is the n-th goroutine that `onReceiveRequest` starts for id `i`.
Each direction of the connection is one FIFO of `TxQueueLen`, and `Put` drops when it
is full, as `TcpConn.SendMessage` does (tcp_conn.go:122). Steps:

* `LoadOrStore` with the send after it is one step, and so is `LoadAndDelete` with the
  writes and the `close` after it: nobody else touches a flyPacket between them. The
  ack of a response goes out in a step of its own (`RecvResponse`, `Resolve`), because a
  timeout may come in between. The ack of a request and its `LoadOrStore` are one.
* `case <-request.ackBack` of the retry loop (client.go:543) never runs, because only a
  packet in `pendingAck` gets its channel closed. It is not in the model.
* Either context may end at any step (`Cancel`). A run loop whose context is done may
  still handle packets, since select picks any ready case, or handle none.
* One-way requests (empty id) and UDP are left out.

### HubLifecycle

`pc` says where each goroutine of a Client is: `accept` (OnClientConnect), one job for each
login request in `Requests` (the login handler and what follows it), `read`, `loop`. Dispose is a
chain of eight steps that any of them may be in, with `target` the Client it disposes; every
blocking send and the mutex `closeMu` are guards. `beDisposed.Store` and `cancel()` are one step.
`opts` is drawn in `Init`: what each peer asks for in each request, `NeedLogin`, who may fail, who
publishes. The handler of a request sets `ClientId` and `GroupId` at any time, also
of a Client that is registered, or that another job of its own is putting into the hub (hub.go:45);
the state it finds afterwards decides if OnLogin is raised (`Logined`). A job that gives up goes back
to `idle`, and its request may be sent again. A run loop whose context is done may still take a
packet (`LoopFree`, `LoopReturns`). TCP and WebSocket differ only in when `Close` releases the
socket, which nothing here sees.

### PubSubActor, PubSub, Fanout

A filter stands for its listener: the actor compares topics only. A callback does not
block, so a publication is delivered in one step; callbacks that publish into their
own PubSub are an application's matter. `heard` is the list of rounds, each a publication with the
listeners it called; `owed` and `handed` are histories too. In `Fanout` the run loop of a disposed Client may
still take a packet and publish. A publication is a chain: parent, its members, room, its
members, with one blocking send at a time. `Range` of a `sync.Map` visits each entry at
most once, and every entry that is there all the time. `Close` with its
`closeMu` is one step here; `HubLifecycle` has the details. `Broadcast` is not modelled.

### Handshake

RC4 is a position in a key stream. Encoding toggles the pad `<<key, position>>` on the
message, decoding toggles the receiver's; a message with a pad left is noise and is
dropped, as the codec drops what does not parse. Messages of one kind have one
length, so a position counts the messages of each kind. `Send` encodes and `Queue`
queues, two steps as in `SendMessage` (client.go:653-678). The hub's `Execute`
replaces the secret of the listener's `Crypto` (hub.go:38-64), the client's
`FinishExchange` computes its own and changes the state; the hub changes its state in
`Finish`, when the ack came or the Client was disposed (`Cancel`). Either end may close the connection
(`Disconnect`), which makes its state DISCONNECT, in which `LetThrough` lets everything pass; a reader that
finds it closed hands over one more message at most, and a job that is at work may still set the state
to LOGINED. `opts` is drawn in `Init` from the set `Options`: which sides have
a cipher and `NeedLogin`, who shares a `Crypto`, and the bounds of the environment. There is
one login attempt per connection, nothing is lost but what is queued after the close, and the
client waits without a timeout.

### Streams

Two ends of one connection: "client" calls StreamRequest, "hub" has handlers. A Stream
object is `<<end, id, i>>`, the i-th that this end makes for the id; `handlingStream` maps
ids to them. The run loop takes a packet (`Receive`) and holds it in `loop` until `OnRev` has
room (`Deliver`), so that everything behind the packet waits too. Packets go out by
SendPacketDirect, past the queue, and a write blocks while the socket is full.
The applications are those of the tests (client_test.go:113, hub_test.go:43): the
client's sends requests and CloseAndRev, each reader reads up to a close packet, a handler
answers each request in a goroutine. `opts` adds what those tests leave out: a handler that returns
early, no handler for the method, answers as responses, a connection that is lost.
`Finish` is LoadAndDelete; its `!ok` branch (client.go:439) is in the model and never
taken, since a close packet only goes to `OnRev` and nobody else deletes.

### Reconnection

`try` says where each tryConn goroutine is, one for each connection, with its login loop;
`conn` how far Close of the connection is: "closing", "told" and "leaving" hold `closeMu`. After
three seconds `StartNext`, the last step of OnDisconnect, starts the next tryConn, with `closeMu` still locked;
`Unlock` is the end of Close, which for a WebSocket closes the socket (`SocketOpen`). In between the next
connection may be dialed, used and lost. `cur` is `client.conn`, which all goroutines read when they use it: a login loop of
an old connection sends on the new one. A login request is known by its goroutine; once it has timed out its answer is
"late", and handling it panics, as `rr_late_response` shows. The heartbeat check asks one connection
(`HeartbeatLooks`, `HeartbeatAsks`) and closes another if the client has reconnected
meanwhile (`HeartbeatCloses`). Dials that fail are not shown, because they change nothing.

### Connection, Channel

A server's side of one connection: the accepting goroutine (`accept`) with the login
check (`auth`), `reader`, `writer`, Close in its steps (`closing`: the listeners of the server, that of the hub,
which waits for room in `clearCh`, and the release of a WebSocket's socket), the server's `clients`
(`registered`), the Client that sends, receives and is disposed, and the `actor` of its PubSub, which
empties `clearCh` until the context ends. `opts.kind` says where
TCP and WebSocket differ: a WebSocket checks the login before the connection exists, its writer
closes, and its Close releases the socket after the listeners. A lane is one way
for messages: the peer's, `txQueue`, SendMessageDirect. `Channel` promises
for each that what comes out is what was accepted, in order, with nothing left out between two messages.
A broken socket may lose what was on its way and may let some writes succeed.

## The runs

| run | checks | result |
|---|---|---|
| `rr_calls` | `TypeOK`, `PanicNeedsTimeout`, `OneShotAtMostOnce`, `ImplementsRpc` | holds, 1.1 M states |
| `rr_shared` | `HandlingTracksJob`, `PendingIsWaiting`, `AllCallsReturn`, `JobsEnd` | holds, 118 k |
| `ps_calls` | `TypeOK`, `ListenersHear`, `HeardInOrder`, `UnsubscribedIsGone`, `CallsReturn` | holds, 141 k |
| `fo_rooms` | `NamedAsDocumented`, `HandedInOrder`, `FanoutEnds` | holds, 434 k |
| `hl_logins` | `OnlySharedIdDisposed`, `OnlySameIdDisplaces`, `PublishGoesToRoom`, `GoroutinesGoOn` | holds, 850 k |
| `hs_logins` | `TypeOK`, `LoginedIsServed`, `PublishAfterLogin`, `LoginCompletes` | holds, 193 k |
| `st_streams` | `TypeOK`, `EntryIsServed`, `InOrder`, `RunLoopFree`, `StreamsEnd` | holds, 37 k |
| `rc_reconnect` | `OneConnection`, `LoginIsTold`, `EventuallyServed` | holds, 879 k |
| `cn_server` | `TypeOK`, `ClientsAreLive`, `ImplementsChannel`, `Released` | holds, 1.8 M |
| `rr_late_response` | `NoPanic` | violated: a late response closes a channel twice |
| `hl_hang` | `LoginCompletes` | violated: a takeover waits for ever in Dispose |
| `tm_mqtt` | `MatchesMqtt` | violated: `a/#` refuses `a` |

The types of `Fanout`, `HubLifecycle` and `Reconnection` are proved (`Typed`).

### Bounds

* `rr_calls` has a retrying and a one-shot call, two transmissions per request and queues of two,
  so that requests, acks and responses are dropped, repeated and late, and either side
  is disposed anywhere. `MaxExec = 2` is enough for every request packet of a call to be
  executed. `rr_shared` has one id for two callers, so that one joins or begins after
  the other ended; `MaxReplies = 2` lets a response be repeated; `MaxExec` equals the
  number of requests that can be sent, so it never cuts an execution.
* `tm_mqtt` has all filters and topics of one and two levels over two names, `+` and `#`, enough for
  both ways in which `Validate` differs from MQTT. `MatchesMqtt` asks only of filters that MQTT
  allows and of topics without wildcards.
* `ps_calls` has two callers with two calls each, a filter that contains the other, two
  places in `pubCh` and one elsewhere. A call can block, an unsubscription can be
  overtaken, and the context ends anywhere.
* `fo_rooms` has one client in a room and one in the world, so that a round serves the world, its members,
  a room and its members and both clients meet in the world; two publications by either of
  them, channels of one place; both join, one subscribes, loses its connection and is disposed, the other may
  end the process by an unsubscription. A filter is subscribed so that the actors do work; what
  they deliver is the question of `ps_calls`.
* `hl_logins` has two connections, two ids, one room and the world, in six settings: ids of their own;
  one id, in the room and in the world; one peer that logs in twice with the same parameters; one that logs in
  again as somebody else, alone and beside a connection with its first id; and a server
  without `NeedLogin`. In four of them the first connection may be lost or fall silent at any step, so that
  takeover, heartbeat and read error dispose it at once.
* `hs_logins` has one connection with a cipher under every timing, with two copies of a response,
  an application that publishes at any time and a hub that gives up, for all four
  settings of `NeedLogin`; one, with a cipher and without, that either end closes and whose Client is disposed
  at any step; two connections without a cipher; two connections with a
  `Crypto` each whose messages arrive when the receiver is at rest.
* `st_streams` has one stream id, two requests and a close packet, `OnRev` of one place and a socket of two
  messages: with an early handler a second Stream of the id begins behind the
  first, and the run loop, `OnRev` and the socket are full at once. More ids
  share nothing but the run loop.
* `rc_reconnect` has two connections, so that every goroutine of the first may meet the
  second. Neither `Lose` nor the heartbeat check hits the last connection: the bound on
  reconnections must stop somewhere for `EventuallyServed`. `OneConnection` and `LoginIsTold` are
  proved for any number of connections.
* `cn_server` has two messages per lane and every queue of one place, so that a
  message waits or is dropped at each, a reader can be stuck behind a full `rxQueue`, and
  a second message shows order and gaps.

Deadlock is not checked: every run ends in states where all calls are made, which is
no error of the system.

### Fairness

A goroutine that can take its next step takes it, and a timer that is armed fires:
weak fairness of each goroutine, which the Go scheduler gives. Go's select takes one of the ready cases,
so fairness is about the select and not about a case. Nothing is assumed of the
transport in `RequestReply`, of applications, of failures or of retries. `JobsEnd`
ends with the context, because a job that joined another's wait has no `ctx.Done()`.
`CallsReturn` and `LoginCompletes` of `Handshake` say in their statements what they need; the
transport of `Handshake` delivers as long as nobody closes. `FanoutEnds` needs the run loops and actors
to go on, and leaves out a round that has come to a PubSub whose actor has exited and whose `pubCh` is full
(`StuckForGood`). `GoroutinesGoOn` (`HubLifecycle`) needs the goroutines of login and Dispose and the actors to
go on and a job's wait to end; it leaves out the hang of `hl_hang` and nothing else.

`Streams`: goroutines and run loops go on, what is in a socket is read; no application has to
open a stream or to give one up. `Connection`: its goroutines, the timeout of the login
check and the run loop of a Client that lives go on; the peer need not read, nor the
application send. `Reconnection`: a dial succeeds in the end and the hub answers; the
run loop's select is fair to its queue, which is strong fairness of `Handle`, because Go
picks a ready case at random. `EventuallyServed` is stated for `prompt` schedules: the three
seconds of OnDisconnect outlast steps that do not wait for anything, so that no goroutine stands
still for three seconds before a changeState. The safety properties are checked without it too.

## What the code does and a reader might not expect

The three violations, each with its line under "findings":

1. `Request` closes `resultBack` on its timeout and leaves the entry (client.go:500).
   `PanicNeedsTimeout` is what still holds: no timeout, or a retrying call that does not share
   its packet, no panic.
2. Dispose cancels the context that ends the actor and then sends twice on `clearCh`
   (client.go:710, hub.go:158). When the actor is gone the second send blocks for ever,
   with `closeMu` held, and the login that disposes never ends. `GoroutinesGoOn` says that nothing else
   holds up a goroutine that logs in, disposes or closes; `Released` of `Connection` has the same hang
   as `CloseStuck`: a WebSocket's socket is then never closed.
3. The readme promises MQTT's wildcards (ReadMe.md:32). `Validate` accepts topics that are longer than the
   filter, which MQTT refuses, and `a/#` refuses `a` (pub_sub.go:103). `LoopComputesValidates` says
   what the loop computes instead.

One property that one would expect is stated in a module but in no run, because it does not hold:

* `LoginedInRoom` (`HubLifecycle`): the OnDispose listener removes by id (hub.go:259), so a
  Dispose that runs beside the next login of the id removes the new Client. `HL_logins.cfg`
  with this invariant shows it; `OnlySameIdDisplaces` is what holds.

Others that the models have:

* `Group.PubTopic` blocks for ever on a member whose actor has exited and whose `pubCh` is full
  (group.go:53), and so does every later publisher of the room: `FanoutEnds` without `StuckForGood`.
* A Client that logs in again as somebody else (client.go:235, hub.go:45) leaves its entries in the hub
  and the room under the old id, where nobody removes them: `LoginedInRoom`. It is the same
  without `NeedLogin`, where a Client is registered under its random id before its login changes it.
* A Client that is disposed while its login waits for the ack is registered afterwards, since
  `SendPacketWithRetry` returns nil when the context ends (client.go:583), and one that is disposed before its
  OnDispose listener is added (hub.go:258) is not removed: both stay in the hub for ever.
* A job that ends after the connection was closed makes the Client LOGINED again and raises OnLogin again
  (client.go:279), so that a login may take over, and dispose, its own Client.
* In DISCONNECT everything is let through (client.go:245): when a connection is closed before its
  login, a publication that its reader has in hand is let through and may be handled. `PublishAfterLogin` speaks of the
  other states.
* All Clients of a listener share one `Crypto` (hub.go:145), whose secret a second client replaces: what
  the first one sends from then on is noise.
* The login request may arrive, encoded, before the hub's job has seen the ack that
  makes it decode (client.go:196). Two goroutines that send at once may encode in one order and queue in
  the other (client.go:657). A second copy of a response is encoded in place again, or is in
  the clear for a client that decodes (client.go:587). All of them are steps of `Handshake`, and make
  messages noise, which is why `LoginCompletes` speaks of a cipher only where messages meet an end that
  waits for them.
* A hub that gives up waiting for the ack of the exchange does not change its state
  (client.go:313) and reads the encoded login request as it came: `GiveUp`.
* A client with a cipher and without `NeedLogin` reports "login succeeded" after the
  exchange, before it has logged in (client.go:272): `LoginedIsServed` says so only
  where `cliNeedLogin`.
* `UNSUBSCRIBE_PACKET` goes to `onReceiveSubscribe`, whose assertion panics
  (client.go:121, 371): action `OnReceiveUnsubscribe` of `Fanout`.
* An ack of a request does not stop its retries (client.go:543), and a copy that arrives
  after the job ended is executed again (client.go:293): `Rpc` lets a retried request
  run more than once, a one-shot request not.
* A job that joins a waiting response waits for its ack alone (client.go:572): hence the
  disjunct of `JobsEnd`.
* A publication that arrives before `Client.Group` is set stays with the Client itself
  (client.go:366): the case "self" of `HubLifecycle`, `<<Subject>>` of `Fanout`.
* `Stream.Request` leaves the method empty, so that only a handler registered for the empty method serves a
  stream; any other peer refuses with a close packet that carries the packet's id, which is empty,
  in the place of the stream's (client.go:428). The reader at the other end never ends:
  `StreamsEnd` speaks of `opts.found`.
* StreamRequest sends a plain request without the stream's id, and nobody looks at
  its answer (client.go:637).
* A packet for a stream whose handler has returned may hold the run loop for ever
  (client.go:423): the disjunct of `RunLoopFree`. A lost connection tells no stream: the
  disjunct of `StreamsEnd`.
* A login that ends after a reconnection makes the client LOGINED on a connection on
  which it is not yet, and OnLogin, where subscriptions are made anew (ReadMe.md:52), is not raised
  when it is (client.go:279, 699): `crossed` in `LoginIsTold`, which also marks a connection
  that is dialed while such a login is still in `state`.
* A TCP writer that meets an error returns and leaves the connection open until its
  reader meets one (tcp_conn.go:111); `Released` holds because the reader does. A
  reader with a message for the full `rxQueue` of a disposed Client stays for ever
  (client.go:260): `ReaderStuck`.
* `NewTcpConn` asserts a `*net.TCPConn` (tcp_conn.go:55), which a TLS connection is not; `Connection` has no TLS.

## What is proved

For all values of the constants that satisfy the named ASSUMEs, which say no more than
the code: capacities are positive, ids are distinct from nil, `Request` draws a fresh id, a client's
`Crypto` is none of the hub's.

* `RequestReply_proofs`. `Typed`; `OneJobPerRequest` (`HandlingTracksJob`);
  `PendingEntriesWait`; `ClosedTwiceOnTimeout` (`PanicNeedsTimeout`); `OneShotOnce`.
  `HandlingTracksJob` is inductive with the types. `PendingInv` adds to `PendingIsWaiting`
  that a call that has not returned has no error yet, waits on its own channel unless it
  joined, and has an open channel until it begins; who closes a channel twice follows
  from it, step by step. `OneShotInv` follows the only copy of a one-shot request: not
  sent, on its way once, executed once, or lost. `ImplementsTheRpc` (`ImplementsRpc`): every step is
  one of `Rpc` or leaves its state alone, because requests on their way are those of calls that were
  made, and every response and answer is what the handler of that request yielded (`RpcInv`).
* `HubLifecycle_proofs`, whatever `NeedLogin` and however often the peers log in. `Typed`;
  `TakeoverHitsSharedId` (`OnlySharedIdDisposed`): a Client has its random id or one that its peer asked for,
  and entries are filed under such ids (`IdsAreOwn`), so that a takeover finds only who shares one.
  `PlacedWhereItLoggedIn` (`OnlySameIdDisplaces`): a peer that keeps to one id and room has that id and
  room from its first login on (`Begun`), only its own goroutines and rivals dispose or overwrite, and a dispose touches only
  entries of a Client that it has marked (`Placed`). `PublishedInItsRoom` (`PublishGoesToRoom`): from
  JoinGroup on the Client has a group that its peer asked for and is not in a state that drops (`Grouped`).
* `PubSub_proofs`. `Typed`; `OneListenerPerTopic` and from it `UnsubscribedGone`: removing the
  first match removes all. `WhoListensHears` (`ListenersHear`) and `HeardAsCalled` (`HeardInOrder`):
  the publications of a caller stand in `pubCh` in the order of its calls and after those that were
  heard, and who is owed one that still waits there is listening (`PubSubInv`).
  Of `TopicMatch`: `LoopTyped`; `LoopComputesValidates` (`ComputesValidates`), whose invariant says that the
  levels before `level` have passed and none of them is `#`. It ties the loop to the `Validates` with which
  the actor calls its listeners.
* `Fanout_proofs`. `Typed`; `PublishedUnderItsName` (`NamedAsDocumented`); `PublishedInOrder`
  (`HandedInOrder`). `OnItsRound` and `MembersAtHome` say which groups a round can have before it and
  that a member of a group is at home in it, which gives the names. `Numbered` says that
  nobody has a publication with a higher number than its publisher's last one, and that whoever
  the round has still to reach has not got the last one: so what is handed next is new and the largest.
* `Streams_proofs`. `Typed`; `EntriesServed` (`EntryIsServed`). The invariant adds that a
  Stream that is not made yet is not served, that an entry is a Stream of its own end and id, and
  that a run loop holds packets for Streams it has made, and starts one exactly when nobody serves it.
  `PacketsInOrder` (`InOrder`): for each end and stream there is a number, that of the last packet its run
  loop took; the packets after it are in the socket, in order, and the Stream in the map was
  given all from its first up to it (`OrderInv`).
* `Reconnection_proofs`. `Typed`; `OneAtATime` (`OneConnection`). The invariant is a chain:
  the connections before that of the last tryConn goroutine have started their successor, so that they are closed or
  in the last step of Close, and a goroutine that has dialed is one whose connection exists, so that
  nothing but `StartNext` of the last connection can start another;
  answers belong to such goroutines, whatever was late. `LoginTold` (`LoginIsTold`): a login of the
  present connection's goroutine was sent on that connection, so its answer, queued or handled,
  means that the hub serves it.
* `Connection_proofs`. `Typed`; `AcceptedAreLive` (`ClientsAreLive`). The invariant says that
  nothing has been handed over, made or started before the accepting goroutine got to
  it, and that it gets past the check only when `auth` is "ok". `ImplementsTheChannel`
  (`ImplementsChannel`): on each lane what was delivered is a beginning of what was accepted, and what is in the
  socket, in hand and in `txQueue` is accepted too and lacks nothing in between (`ChannelInv`), so that
  every step is one of `Channel` or leaves its state alone.
* `Handshake_proofs`. `Typed`; `LoginServed` (`LoginedIsServed`); `PublishedAfterLogin`
  (`PublishAfterLogin`), for every timing, any sharing of a `Crypto` and any close, from `LoginInv`: who
  encodes has a key (`Keyed`), a response on its way or taken is one to a request that was served
  (`ResponsesAreServed`), and the hub is LOGINED only when its login was served and acked, or the Client disposed
  (`HubLetsThrough`). That part has to follow the connection too: a login request that was let through in
  DISCONNECT, before an exchange, is the last that the reader hands over, so that no publication comes
  after it.

Only checked by TLC: liveness (`AllCallsReturn`, `JobsEnd`, `CallsReturn`, `FanoutEnds`, `GoroutinesGoOn`,
`LoginCompletes`, `RunLoopFree`, `StreamsEnd`, `EventuallyServed`, `Released`), which the proof system does
not handle. Every other property of the runs that hold has a theorem.

## What is not modelled, and the plan

In this order:

1. `Handshake` with repeated attempts, a second exchange on the same connection
   (tcp_client.go:35) and a queue that drops (tcp_conn.go:129); reconnection of clients with a cipher.
2. `Broadcast` with the shared slice (group.go:37); the session cache and buckets.
3. UDP (a Client for every datagram, hub.go:106), whose connection has neither login nor end.

Within the modelled parts: one-way requests, the sending of heartbeats, write deadlines,
clients that need no login and the Dispose of a client's own Client in `Reconnection`.

Left out for good: JSON coding (packets are records), TLS certificates, logging, the
handler registry (filled at start), `EventEmitter` (used nowhere), the attribute
subset of a subscription, which only changes a payload.
