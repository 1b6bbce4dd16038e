# uproxy-networking in TLA+

A verification project for the split SOCKS5 proxy of this repository: TLA+
modules of its concurrent parts, TLC configurations that check them on small
instances, and theorems that TLAPS proves for every value of the constants.
File and line references are to `src/src/...` unless they say otherwise.

- [1. The system](#1-the-system)
- [2. The modules and the code](#2-the-modules-and-the-code)
- [3. The runs](#3-the-runs)
- [4. Assumptions, fairness and bounds](#4-assumptions-fairness-and-bounds)
- [5. The proofs](#5-the-proofs)
- [6. Where the code and its documentation disagree](#6-where-the-code-and-its-documentation-disagree)
- [7. What is not modelled](#7-what-is-not-modelled)
- [8. Plan](#8-plan)

## 1. The system

A SOCKS client connects to a TCP server of the local peer. `socks-to-rtc`
shakes hands with it, leases a data channel of a WebRTC peer connection from a
pool, and sends the client's request over it. `rtc-to-net`, at the remote peer,
makes the TCP connection that was asked for, answers, and both ends then copy
bytes. When either TCP connection or the channel ends, both sessions stop and
the channel goes back to the pool. Everything is JavaScript: one event loop per
peer, with promises; freedom.js sockets and uproxy-lib's peer connection are
reached by asynchronous calls.

```
 client --TCP--> [tcp.Connection] <-> SocksToRtc.Session
                       |                     |
                  tcp.Server              pool.PoolChannel   (LocalPool)
                                             |  data channel (OPEN, DATA, CLOSE in band)
 server <-TCP--- [tcp.Connection] <-> RtcToNet.Session
                                          pool.PoolChannel   (RemotePool)
```

Under the data channel, `churn` may route the peer connection's UDP packets
through a `churn-pipe`, which transforms them; `turn-frontend` and
`turn-backend` are a TURN server split over a peer connection.

### Inventory

| Component | State it keeps | Operations | Interacts by | Hard because |
|---|---|---|---|---|
| **Data channel pool** (`pool/pool.ts`) | `LocalPool.pool_`, `numChannels_`; per `PoolChannel`: `state_`, the promises `onceOpened`, `onceClosed`, `lastDataFromPeerHandled_`, `dataFromPeerQueue` | `openDataChannel`, `open`, `send`, `close`, `reset`, and the handlers of data, of control messages and of the data channel's end | control messages in band with data; the same object is leased again and again | crossing CLOSEs, an ack that waits for a queue to drain and then for a send, messages that arrive before the wrapper exists, a data channel that ends under any of it |
| **Counter** (`net/counter.ts`) | a count, a promise | `wrap`, `discard` | wraps promises of socket calls | settling in any order, also after `discard` |
| **TCP connection** (`net/tcp.ts`) | `state_`, `onceConnected`, `onceClosed`, `counter_`, two queues | constructor, `send`, `pause`, `resume`, `close`, `onDisconnect` | calls on a freedom.js socket, events from it | a disconnection may come before calls settle, twice, or during the opening |
| **TCP server** (`net/tcp.ts`) | `connections_`, `counter_`, `onceListening_`, `onceShutdown_` | `listen`, `stopListening`, `closeAll`, `shutdown`, `onConnection`, `onDisconnect` | as above; owns connections | connections that arrive during shutdown, the limit, a close that fails |
| **SocksToRtc** (`socks-to-rtc/socks-to-rtc.ts`) | TCP server, peer connection, pool, `sessions_`; per `Session`: `onceReady`, `onceStopping_`, `onceStopped` | `start`, `stop`, `makeTcpToRtcSession_`; handshakes, linking, stopping | TCP connection, channel | everything above at once; a session keeps its channel object after its lease |
| **RtcToNet** (`rtc-to-net/rtc-to-net.ts`) | peer connection, pool, `sessions_`, proxy config; per `Session` the same promises | `start`, `stop`, `onPeerOpenedChannel_`; request, connection, reply, linking, stopping, snapshots | as above | as above, and a connection that is made or fails while the session stops |
| **Churn signalling** (`churn/churn.ts`) | probe and obfuscated peer connections, promises for candidates and endpoints, deferred candidates, the pipe | `negotiateConnection`, `handleSignalMessage`, candidate handling | signalling messages, UDP | a join of three asynchronous results, each of which may fail; candidates that come before the socket they are rewritten to |
| **Churn pipe** (`churn-pipe/churn-pipe.ts`) | sockets, table of mirror sockets, transformer | `bindLocal`, `bindRemote`, `setTransformer`, `sendTo`, handlers | UDP | binding with retries; a table of pending sockets |
| **TURN frontend** (`turn-frontend/turn-frontend.ts`) | `callbacks_`, promises of callbacks | `bind`, `handleStunMessage`, `handleIpc` | UDP, messages to the backend | memoised answers, repeated requests, answers that never come |
| **TURN backend** (`turn-backend/turn-backend.ts`) | `allocations_` | `handleStunMessage`, `makeAllocation_` | UDP, messages to the frontend | memoised promises of sockets |
| **STUN codec** (`turn-frontend/messages.ts`) | none | parse and format messages, attributes, addresses | called by both TURN halves | padding, bit fields, shared message objects |
| **SOCKS headers** (`socks-common/socks-headers.ts`) | none | `interpret...`, `compose...` buffers | called by both sessions | lengths and address kinds |
| **Transformers** (`simple-transformers/`) | a key | `setKey`, `transform`, `restore` | called by the pipe | arithmetic modulo 256 |
| **UDP relay, UDP client** (`net/udprelay.ts`, `net/udpclient.ts`) | a socket, an address | `bind`, `send` | not used by the rest | |
| **Echo server, samples, benchmark, integration tests** | | | glue and drivers over the above | |
| **uproxy-lib, freedom.js** | | handler queues, peer connections, data channels, sockets | not in the repository | external definitions |

What makes each one correct:

- *Pool*: a channel has at most one user per end at a time; a user reads only
  what was sent to its own lease; every close is answered and frees the channel.
- *Counter, connection*: the socket object is destroyed exactly when it is
  disconnected and idle; every disconnection, and every `close()`, is reported
  once, with the right reason.
- *Server*: the limit holds; nothing stays open after `shutdown()`; every
  shutdown comes to an end.
- *Sessions*: a client is told what the other end decided; no session touches
  another's lease; data is not lost at the end; the end of one side ends both; a
  socket is paused exactly while its channel's buffer is too full.
- *Proxy*: `stop()`, or the end of anything it is built on, ends the whole of it,
  at both peers, and then nothing of it is left.
- *TURN*: a client has one relay, decided once, and is told only of that one;
  whoever asked is answered; data leaves in the order in which it came.
- *Churn, pipe*: a pipe joins the endpoints that belong together, whichever is
  known last; nothing bypasses it; no candidate is lost; then traffic flows.
- *Codecs*: what one place writes is what the other place reads.

## 2. The modules and the code

An action of a module is one task of an event loop *together with* the promise
callbacks it makes runnable, because nothing else runs between them; `Sessions`
has those callbacks as steps of their own (`Microtask`), which no other task
may precede (`Quiet`). Names are those of the source where TLA+ allows it.
`PROJECT.json` maps each definition to the lines it stands for.

Definitions marked `Mistake:` are not used by any specification. Each is a
plausible bug in the definition that follows it; put in its place, it makes TLC
find one of the properties violated. They show that the properties have teeth.

### `Pool` — the data channel pool

| Variable | Code |
|---|---|
| `numChannels_`, `pool_` | fields of `LocalPool` |
| `dc[s][c]` | end `s` of data channel `c` of the peer connection |
| `chan[s][c]` | the `PoolChannel`: `state`, `onceOpened`, `onceClosed`, `dataFromPeerQueue`; `ack` is where the chain at 280-287 (`lastDataFromPeerHandled_`, then `sendControlMessage_`, then `fulfillClosed_`) stands |
| `wire[s][c]` | messages in flight to end `s`, reliable and in order |
| `accepted[c]` | history: how often the peer's user was given the channel |
| `missed` | history: channels on which a CLOSE came before the remote wrapper was made, and was lost |

Leases (`lease` of a channel and of a message) are history too: the code does
not number them. `Callbacks` runs the three promise callbacks of a channel in
the order in which they become runnable. Actions: `OpenPooled`, `OpenNew`,
`OpenedLocal` (`openDataChannel`), `ArriveEarly` and `OpenedRemote`
(`onNewChannel_` and the replay of queued messages by the wrapper's
constructor; what comes early may be anything the opener sends), `Send`, `Close`,
`Handle` (the user's handler takes one item),
`Deliver` (`onDataFromPeer_` and `onControlMessage_`), `AckSettled`, `Closed`
(`dc_.onceClosed`). Only one direction is modelled: the pool that the other
peer keeps is a disjoint copy (30-32).

A CLOSE that comes early is lost by the code (section 6). The model loses it too and
notes the channel in `missed`. Nothing is promised of such a channel from then on, as
of one whose data channel broke; what is promised of the others (`Intact`) is.

`ChannelLease` is what the pool promises: per channel, a sequence of leases;
the peer joins each of them exactly once and in order; the opener takes a new
one only after the peer joined and left the last. The last section of `Pool` maps its state to it
(`ImplementsLease`); a channel that missed a CLOSE maps to one that is dead at the opener.

### `Counter`, `CounterUse` — calls outstanding

`Counter` is the object as a record with operators (`Before`, `After`,
`Destruct`), used by three modules. `CounterUse` is its life with any owner:
`Wrap`, `Settle`, `Discard` in any order.

### `TcpConnection` — one connection

`conn` is the `Connection` object; `socket` the freedom.js socket: up or not,
told to close or not, events not yet handled. `conn.opening` is the call that
`onceConnected` waits for, `conn.calls` counts calls of each kind that have not
settled, `conn.info` is what `onDisconnect` left for the callback on
`onceDestroyed()` (418-431). Actions: `ConnectFulfills`, `InfoFulfills`,
`OpeningRejects`, `CallSettles`, `OnDisconnect`, `Send`, `PauseOrResume`,
`Close`, and the external `SocketDown`, which may report a disconnection more
than once.

### `TcpServer` — the server

`server` is the `Server` object and the promise of its `shutdown()`; `socket`
the listening socket, whose reports (connections, disconnection, outcome of
`close`) form one queue; `client[id]` what became of a client's connection.
A connection is reduced to open, closing, closed: that a closing one closes is
`ClosedSettles` of `TcpConnection`. Its actions come in three groups:
`OwnerCalls`, `ServerTasks` and `SocketSteps`, which `Proxy` combines with its
own.

### `Sessions` — both sessions of one client, over `Pool`

`Sessions` extends `Pool` and takes the place of its users: the pool's
`Deliver`, `Handle`, `AckSettled`, `Close` and so on are parts of the tasks here.
`session[s][c][k]` is the session for lease `k` of channel `c` at end `s`:
`SocksToRtc.Session` at `"local"`, `RtcToNet.Session` at `"remote"`. Its fields
are where `onceReady` stands (`step`), why `onceStopping_` was fulfilled
(`stop`), the TCP connection reduced to its `onceClosed` (`socket`), which
lease's queue has its handler (`reads`) and which lease's `onceClosed` it waits
for (`listens`). The last two exist because a session holds the `PoolChannel`
object, which is the same in all leases: what a handler of an old session does
to a later lease is the interesting part. `strayed` records each such use of a channel,
and `late` its one cause in the code besides a missed CLOSE: a socket that settles a write, or
delivers data, when the lease of its session is over, so that the session goes on with a
channel it no longer has. `Sound` channels have neither; of the others nothing is
promised. `first` holds
what the first message of a lease says, since a message of `Pool` carries
nothing. `overflow` is what `isInOverflow()` says of each channel and whose
listener it has: sending may raise it, draining lowers it, and either calls the
listener, which pauses or resumes the socket (`paused`).

| Code | Definitions |
|---|---|
| `makeTcpToRtcSession_`, `onPeerOpenedChannel_` | `PoolTask`, `Start` |
| `doAuthHandshake_`, `doRequestHandshake_` | `ReceiveAuth`, `ReceiveRequest`, `RequestSent`, `Taken`, `Answered` |
| `receiveEndpointFromPeer_`, `getTcpConnection_`, `getReplyFrom..._`, `replyToPeer_` | `Taken` and `Endpoint`, `Connects`, `SendReply`, `RefusalSent` |
| `linkSocketAndChannel_` (both) | `Flush`, `Reading`, `Take`, `SocketData`, `Link`, `Signalled` |
| `onceStopping_`, `stopResources_` | `Due`, `Stop`, `SocketGone` |

### `Proxy` — the life of the whole proxy, over `TcpServer`

`proxy[e]` is the `SocksToRtc` object at `"local"`, `RtcToNet` at `"remote"`:
whether `start()` was called, whether `onceStopping_` was fulfilled by `stop()`
(`stopping`), whether `stopResources_` ran (`freed`), and the promise that
`start()` returned (`told`). `peer[e]` is its peer connection. `OnceReady`,
`Stopping` and `OnceStopped` are the promises that the code makes of others
(`Promise.all`, `Promise.race`), computed from what they wait for. The callbacks
`Tell` and `StopResources` are steps that precede every other task (`Quiet`);
`StopResources` contains `Shutdown` of `TcpServer`. A server that somebody else
owns (`OtherOwner`) is used in any way, but not beside a proxy.

### `Turn` — the two halves of the TURN server

| Variable | Code |
|---|---|
| `promises_[c]`, `waiting[c]` | the promise that `callbacks_[c]` of the frontend settles, with the memoised response, and the ALLOCATE requests that wait for it |
| `toBackend`, `toFrontend` | `"ipc"` events, in order |
| `allocations_[c]`, `afterBind[c]` | the backend's promise of a relay socket, and the requests that wait for it |
| `infos[c]` | `getInfo` calls that have not settled |
| `answers[c]`, `relayed[c]`, `dropped[c]` | history: what was sent to the client, what left its relay socket, what came to nothing |

A datagram that is lost, repeated or reordered on its way to the frontend is one
that is not asked, asked again, or asked in another order, and all of these are
behaviours of `Asks`. Actions: `AnswerAtOnce`, `RequestRelay`, `SendIndication`
(`handleStunMessage`), `FrontendHandles`, `BackendHandles` (both `handleIpc`),
`BindSettles`, `InfoSettles`, `SocketData`. `RelayTable` is what they promise:
for each client `none`, `asked`, then `granted` or `refused` for ever.

### `Churn`, `ChurnPipe` — the obfuscated path

A pipe is a record and each of its operations takes a pipe to the pipe it
leaves: `BindLocal` and `RetryTimer`, `GetMirrorSocket` and `MirrorBound`,
`Configure`, `Sends`, `Incoming`. `Churn` has two ends, each with a probe, a
WebRTC connection that is external, and a pipe; `signals[s]` are in order, `wire`
is UDP. `Become` is the three-way join: the pipe is configured when the probe's
result (`nat`), `webRtcEndpoint` and `remoteEndpoint` are there, in any order.
`HandleCandidate` defers candidates until the forwarding socket exists: `bindRemote`
binds the mirror socket and then asks for its address, two calls that may fail one after
the other (`MirrorBindSettles`, `InfoSettles`), and the forwarding socket is there only when
both have succeeded; the mirror socket receives from the first on. A
datagram carries only where it is from and to and whether it is obfuscated.

### `StunMessages`, `SocksHeaders`, `Caesar`, `Codecs` — what is on the wire

The first three are the codecs as operators on sequences of bytes, named as in
the code. `Codecs` sends one message at a time along the way it takes in the
program: a SEND indication from a client, tagged by the frontend, read by the
backend; data and allocations back, with the tag that is decoded inside the
received bytes, formatted again and signed; each SOCKS message from its
composer to its interpreter; a datagram through the cipher and back. `meant` is
what the sender had in mind and `got` what the reader understood.

## 3. The runs

| Run | Module, configuration | Bounds | Distinct states | Shows |
|---|---|---|---|---|
| `pool` | `MCPool`, `Pool` | 2 channels, 2 leases each, data on one of them, breaking at any point, early arrivals of every kind | 74,673 | `PoolSound`, `LeaseIsolation`, `PooledMeansPeerDone`, `NoOrphanedClose`; refinement `ImplementsLease`; liveness `CloseCompletes` |
| `counter_use` | `CounterUse` | 12 calls, one `discard()` | 624 | `DestroysSafely`, `IdleMeansDestroyed` |
| `tcp` | `TcpConnection`, `Tcp` | both kinds, 4 calls of the user, 1 or 2 disconnect events | 50,731 | `CounterExact`, `ClosedTells`, `DestroyedIdle`; liveness `ClosedSettles` |
| `server` | `Proxy`, `Server` | 3 clients, limit 2, both ends of the proxy, or another owner of the server | 355,462 | `StoppedReleases`, `WithinLimit`, `ShutdownIsFinal`; liveness `ShutdownSettles`, `ProxyStops` |
| `sessions` | `MCSessions`, `Sessions` | 1 channel, 2 leases, breaking at any point, 1 message per socket; sockets as late as they like | 1,964,487 | `StraysOnlyLate`, `RepliesAgree`, `NothingLost` |
| `sessions_liveness` | `Sessions`, `SessionsLiveness` | 1 lease, breaking, 2 messages per socket, channels that overflow at both ends | 97,004 | `PausedInOverflow`; liveness `RequestAnswered`, `LinkedEnds` |
| `turn` | `MCTurn`, `Turn` | 2 clients, of which one sends 3 datagrams and the other 1; 2 transaction ids; bind and getInfo may fail | 505,771 | `OneResponse`, `CallbackExists`, `NoneRefused`, `SendsInOrder`; refinement `ImplementsTable`; liveness `AskedIsAnswered` |
| `churn` | `MCChurn`, `Churn` | 1 probe candidate, 2 and 1 candidates, one NAT that remaps ports, every bind and the mirror socket's `getInfo` may fail | 119,346 | `PipeMatches`, `NothingBypasses`, `CandidatesInOrder`; liveness `CandidatesGiven`, `TrafficFlows` |
| `codecs` | `MCCodecs`, `Codecs` | addresses, names, ports, keys and payloads at the boundaries of their fields | 2,021 | `StunFramed`, `ReadAsMeant`, `SignedLast`, `SocksRefused` |
| `sessions_cross_talk`, `sessions_client_gone`, `churn_bind` | | | | each violates the one property it checks: section 6 |

`CHECK_DEADLOCK FALSE` in every configuration but that of `codecs`: all these
systems may stop, when the bounded users have nothing more to ask for. That
something which should happen does not fail to is what the liveness properties
say. Codecs go on for ever, so that there a deadlock would be a message that
nobody reads, refuses or throws an error on.

`Sessions.cfg` has a state constraint, `SomeSound`: TLC goes on from a state only while some
channel is sound. A channel never becomes sound again and no property says anything of one
that is not, so that nothing a property could see is cut off. Liveness
is checked without it.

The type invariants of `TcpServer`, `Proxy`, `Turn`, `Churn`, `Sessions` and
`CounterUse` are in no run: all but the last are proved, as parts of the inductive
invariants of section 5; that of `CounterUse` is there for a reader.

## 4. Assumptions, fairness and bounds

**Environment.** Constants name what is assumed of code outside the repository:

- `PromptSends`: the promise of a data channel's `send` settles before any
  message that the peer sends *in answer* is delivered. The ack of a CLOSE
  waits for this promise before the channel counts as closed, while the peer,
  having the ack, may lease the channel again at once. Without the assumption
  TLC finds `LeaseIsolation` violated: a new lease's OPEN and data are applied
  to the old one. uproxy-lib fulfills sends locally, when the buffer accepts
  them, so the assumption is a matter of a local event and a network round trip.
  It is a hypothesis of the theorems on the two ends of a channel (section 5).
- Data channels deliver in order and without loss until they close; then both
  ends learn of it, in any order, and undelivered messages are lost.
- Nothing is assumed of what comes before the remote wrapper is made, nor of how fast a
  socket settles a write or stops delivering compared with the peer and its CLOSE. Where
  the code cannot cope with either, the histories `missed` and `late` of `Pool` and
  `Sessions` say so, channel by channel, and the properties speak of a channel until then.
  They are the model's only exceptions, and `StraysOnlyLate` says of the second that it is
  the only one: no session strays but through it.
- The sockets of `TcpConnection` may settle calls in any order and report a
  disconnection repeatedly; the listening socket of `TcpServer` reports in the
  order in which things happened, and its disconnection once. With two
  (`MaxEvents = 2`) each event discards the counter again and the socket is
  destroyed under an outstanding call, where `Connection` tests its state first.
- Socket ids are not used again while the table holds them.
- `Throws = FALSE`: destroying a freedom.js socket does not throw. With `TRUE`
  `ClosedSettles` of `TcpConnection` is violated: the chain at `net/tcp.ts`
  418-431 has no handler for the rejection.
- The two halves of the TURN server exchange messages in order and without loss,
  as the peer connection between them does. Relay sockets deliver what they like.
- Churn's signals arrive in order; its datagrams may be lost, and a datagram that
  is sent again and again arrives. WebRTC offers, answers, finds candidates and
  sends checks as it likes: only what it was given or heard from is a target.
- HMAC-SHA1 and the text form of IP addresses (ipaddr.js) are external to the
  codecs: a hash is a function of the bytes it covers.

**Fairness.** Only of what runs by itself: promises of sockets and channels
settle, messages and events are delivered, runnable callbacks run, a socket that
was told to close goes down, a queue whose handler is set is emptied. No user,
client or server is assumed to open, send, close or leave. JavaScript's
run-to-completion loops, and freedom.js and WebRTC answering their calls, justify
this. It is weak, of each task, but for two things. In `Sessions` and `Proxy` it is
of the *next ready callback or system task* as one action, since a task may be
disabled for ever by callbacks only if these never end, which the bounded model
excludes. In `Churn` reception is strongly fair: a datagram is on the wire again
and again because WebRTC repeats its connectivity checks, and need not stay
there.

**Bounds.** Named constants, tested only in guards. Two channels are what it
takes to confuse one with another and to have two in the pool; two leases, what it
takes to confuse one lease with the next, since a channel keeps nothing older. One unread message is a queue
that an ack has to wait for; the second channel carries control messages only.
The user's four calls on a connection cover two that overlap before, and two
after, the disconnection; three clients exceed a limit of two. `Sessions` has no
`Send` of its own, so that `MaxUnread` of `Pool` plays no part in it: `MaxData`
bounds the data. `Overflows` names the ends whose channels may overflow: both in
`sessions_liveness`, none in the other runs of `Sessions`, whose properties do not
depend on when a socket delivers. Three datagrams of a TURN client are an ALLOCATE, its repetition
with the same or another transaction id and a SEND, in any order; the second
client shows that clients are kept apart. Two candidates of one end can be
deferred, given, and overtake each other; all endpoints come in one round of
probing, and a second probe candidate adds only the choice that
`SelectPublicAddress` makes, once, of a list. The codecs' inputs are those at which
a length, a carry or a padding changes: ports 0, 255, 256 and 65535, names of 1, 2 and
255 characters, payloads that are and are not a whole number of words and one
that is longer than a byte can count, addresses with bytes of the magic cookie.

**Data.** A message is its kind. Wording, logging, addresses and byte counts
are left out; a response or request that does not parse is one of the choices
of the action that receives it (`ReceiveAuth`, `ReceiveRequest`, `Endpoint`).

## 5. The proofs

`PoolProofs`, `SessionsProofs`, `CounterProofs`, `TcpProofs`, `ProxyProofs`, `TurnProofs`
and `ChurnProofs`, with the lemmas of `CounterLemmas`, prove, for every value of the
constants that satisfies the named `ASSUME`s:

| Theorem | Statement |
|---|---|
| `PoolProofs!TypeCorrect`, `PoolSoundness` | `Spec => []TypeOK`, `Spec => []PoolSound`: no channel is in the pool twice, or in use while it is there, for any number of channels, leases and messages, with early arrivals of any type, slow sends, and channels that break |
| `PoolProofs!LeasesIsolated`, `PeerDoneWhenPooled`, `NoCloseOrphaned` | with `PromptSends`, `Spec => []LeaseIsolation`, `Spec => []PooledMeansPeerDone`, `Spec => []NoOrphanedClose`, whatever comes early: of every channel that missed no CLOSE |
| `PoolProofs!PoolImplementsLease` | under the same hypothesis, `Spec => ImplementsLease`: every step of the two ends is a step of one channel's leases, or none |
| `SessionsProofs!NoSessionStrays` | with `PromptSends`, `SessionsSpec => []StraysOnlyLate`: a session uses the lease of another only on a channel where a CLOSE was missed or a socket was late, for any number of channels, leases and messages, and with channels that break |
| `SessionsProofs!ClientsAreToldTheTruth`, `NoDataIsLost`, `PausedByOverflow` | with `PromptSends`, `SessionsSpec => []RepliesAgree`, `[]NothingLost` and `[]PausedInOverflow`, on every sound channel, whichever ends overflow |
| `SessionsProofs!SessionsTypeCorrect` | with `PromptSends`, `SessionsSpec => []SessionsTypeOK` |
| `CounterProofs!NothingForgotten` | `Spec => []IdleMeansDestroyed`, for any number of calls and of calls of `discard()` |
| `CounterProofs!SafeDestruction` | with at most one `discard()`, `Spec => DestroysSafely` |
| `TcpProofs!TypeCorrect`, `CounterIsExact`, `SafeDestruction` | `Spec => []TypeOK`, `Spec => []CounterExact`, `Spec => DestroyedIdle`, for any number of calls and repeated events |
| `TcpProofs!ClosedTellsTrue` | `Spec => []ClosedTells`: what `onceClosed` reports is the reason of the disconnection, of a closed connection whose socket is destroyed |
| `ProxyProofs!ServerWithinLimit`, `ServerShutdownIsFinal` | `Spec => []WithinLimit`, `Spec => []ShutdownIsFinal` of `TcpServer`, for any clients and limit |
| `ProxyProofs!ProxyStoppedReleases` | `ProxySpec => []StoppedReleases`, the server being driven by the proxy |
| `TurnProofs!TypeCorrect`, `CallbackAlwaysExists`, `NoneIsRefused`, `OneResponseAlways` | `Spec => []TypeOK` and likewise `CallbackExists`, `NoneRefused`, `OneResponse`, for any clients, transactions and number of datagrams |
| `TurnProofs!TableIsImplemented` | `Spec => ImplementsTable`: every step of the two halves is a step of `RelayTable`, or none |
| `TurnProofs!SendsAreInOrder` | `Spec => []SendsInOrder`, for any number of datagrams |
| `ChurnProofs!PipesMatch`, `NothingIsBypassed` | `Spec => []PipeMatches`, `Spec => []NothingBypasses`, whatever WebRTC finds and however the signals of the two ends interleave. Of what is signalled, the second covers IPv4 host candidates: the code sends other lines as they are |
| `ChurnProofs!CandidatesComeInOrder` | `Spec => []CandidatesInOrder`, for any sequences of candidates |
| `ChurnProofs!TransformKeepsBytes`, `RestoreTransform` | what is sent is bytes, as many as before, and `restore` undoes `transform`, for every datagram and key |

*Pool.* `PoolSound` is not inductive. A pooled channel that still owed an ack
would be closed, reset and pushed a second time when that ack's send settles;
one with an OPEN on its way would open by itself. So the invariant `IInv` adds:
an ack is owed only by an end that is CLOSING or permanently closed, and no
close callback is due between tasks (`AckInv`); nobody sends OPEN to the local
end, whose own open callback is never left due (`LocalInv`); and an end leaves
its first state only when its data channel opened (`WrappedInv`). The lemmas on
`Callbacks` and `RunCallbacks` say what a task's end does to one channel and to
the pool; the step proofs have one case per action.

*The two ends of a channel.* What one end does is right only if the other is where
it should be, so `LinkInv` is about both ends of a channel, both wires and the
history `accepted`. While both ends work, one of three situations holds (`Joint`):
they are in the same lease (`SameLease`); the local end is in the next lease or may
begin it, while the remote one is about to finish (`LocalAhead`); or the remote end has
finished, and the local one is about to (`RemoteAhead`). Each says where the CLOSE of
an end is: on its way, or being answered. `ToLocal` and `ToRemote` say which leases the
messages on a wire can be of, and in which order, and `Counts` that the remote end,
which accepts one lease after the other, is never ahead of what was taken. All this is
about one channel, until a CLOSE is missed on it, after which the two ends may wait for
ever in different leases; no step on a channel touches the link of another. So
messages of the next lease may be on their way to a remote end that is still in the old
one, and `LeaseIsolation` rests on its finishing before it reads them: hence the
hypothesis `PromptSends`, without which TLC finds it violated. The proof has lemmas on the
two wires, on what each step does to one channel, and, step by step, that the link is kept. The refinement
takes the same steps again: each is a step of one channel's leases, or none
(`LeaseStep`).

*Sessions.* None of the four invariants is inductive: that a late `close()` hits its own
lease depends on where the other session is. `SessionsInv` has five parts for each lease
of each channel. `Own`: what a session relies on of its end of the channel, step by
step. While it has something to say, the end is in its lease (`Holding`); while it
listens, the end has not gone on to another (`Hearing`); who reads has read all before
the end answers a CLOSE (`Reader`); the overflow listener is its own (`Levelled`).
`Handshake` says how far the two sessions of a lease are with each other, by which
message comes first for each, and `Crossing`, what that says of both wires: while the
client waits, the response is decided, on its way, or in its queue, and no CLOSE
overtakes it. `Exact` counts the data of a lease: taken, on its way and kept back make
what the far socket delivered. `Goodbye`: who closed the channel had stopped by itself,
so that nothing of its own is kept back. And of every end, `ReadAll`: one that sends its
answer to a CLOSE has an empty queue. This holds between the callbacks of a task as
well; tasks, which start when no callback waits, may rely on more (`QuietIsIdle`).
`SessionsSpec` is not a refinement of the pool's `Spec`: a session may send as often as
its socket delivers, and `MaxUnread` bounds the pool's user. So the pool's invariants
are proved of a step that sends without a bound (`Says`) as well, and `IInv` and
`LinkInv` hold under sessions (`PoolKept`). Every task of the pool is then one of six
changes of an end (`Changes`: it rests, opens, grows, closes, is reset or dies), and
each part of the invariant has one lemma on those six; each action of a session has a
lemma on the *story* of its lease, the conjunction of all parts (`StoryAt`). `SessionsInv`
asks this of each sound channel (`Kept`). A step leaves the sessions, wires and overflow
of all channels but one alone (`Alone`), and so their stories; of that one, either its story
is kept, or the step takes it out of `Sound`: it missed a CLOSE, or its socket was late.
The second is where the invariant fails in the code: a session whose write settles after
its lease goes on as if it still had the channel. TLC has checked `SessionsInv` as well, over
the states of run `sessions`.

*Counter.* All follows from `Balance`: the count is outstanding calls less
calls of `discard()`.

*Connection.* `CounterExact` with the types is inductive, once each piece of a
task (`Wrap`, `AfterCall`, `Flush`, `Connected`, `Rejected`) has a lemma on what
it does to the counter and to the outstanding calls. The counter stays exact
however often the disconnection is reported, because the handler tests
`state_`; that the destructor runs only when idle is then arithmetic.
`ClosedTells` needs to know how the report came about: only the event of the
disconnection leaves `conn.info`, and closes the connection as it does so, and
`onceDestroyed` is fulfilled only where the destructor ran (`Told`).

*Server and proxy.* The invariant of the server adds to the types: a client that is
on its way in is reported once, and what is reported of a connection is true
(`Reported`); what reports the end of the socket, and what the server made of such a
report, is true, and behind it in the queue of events comes no connection (`Ended`);
of each caller of `close` at most one call is unsettled, in the socket or in the
queue, and `stops` counts them (`Counted`); the table is the set of the open
connections, all of which a closing shutdown waits for (`Tabled`). `WithinLimit` is
a conjunct; `ShutdownIsFinal` follows from `Ended` and `Reported`, since a client on
its way in would be in the queue. To the server the proxy is an owner like any other
(`ProxyOwnsServer`), so that its invariant only adds that resources are freed after
`start()` and with the peer connection closed (`Freed`).

*TURN.* Its invariant `IInv` says what is under way for a client. `MessagesInv`: a
message that can lead to an allocation, or tells of one, is about a client with a
promise, and of one that is bound. `AllocationInv`: no allocation without a
promise, no `getInfo` without a bound socket. `PromiseInv`: the promise is fulfilled
if and only if the client was told, and with that transaction. `WaitingInv`: until
the promise is settled, every ALLOCATE of the client that is in either queue,
behind `bind` or behind `getInfo` still waits for it, which is why the transaction
that the first response names is one the client asked with. `OrderInv`: before every
SEND of a client that asked, an ALLOCATE is in the queue or was handled; this is
what `NoneRefused` rests on, and what a reordering of the queue would break. Each
action has a lemma that it keeps the invariant; `ResumeKeeps` serves the three ways
in which a request goes on. The refinement then needs one lemma for each action
that changes the table (`OneRelayStep`) and nothing new of the invariant.
`SendsInOrder` rests on one line (`InLine`): the datagrams that left the relay socket,
those that wait for the socket, and those on their way to the backend are, in this
order, numbered as the frontend took them. Every step moves the line along.

*Churn.* The two ends learn of each other only through signals, so the invariant
follows what the probe of one came to: what the other end knows of it (`Learned`), the
signals that are on their way (`Announced`), and the pipe, which is as it was made or
set up with three endpoints (`SetUp`). `Passed` says that WebRTC is given candidates
once the mirror socket of the remote endpoint is bound, and with no other endpoint;
`Carried`, that all that is on the network is obfuscated. For the order of candidates, every
usable candidate that was found is in one of three places: on its way as a signal,
deferred until the mirror socket is bound, or given to WebRTC. `Ordered` says that what was
given, what waits and what comes, one after the other, are the usable candidates in the
order in which they were found; a step moves one from one place to the next and
leaves the concatenation as it is. The laws this takes, that `Keep` (`SelectSeq`) and mapping
distribute over concatenation, are proved by induction on the length, from the
well-foundedness of the naturals, stated for sets (lemma `Induction`).

*Caesar.* From the arithmetic of one byte (`ByteRestored`): `restoreByte` adds 256 before
it takes the remainder, since JavaScript's `%` of a negative number is negative.

*Only model-checked*: all liveness, since fairness and `ENABLED` are beyond the prover;
and the codecs. `StunMessages` writes and reads attributes by recursion and bits, with
RECURSIVE operators and `Bitwise`, which the provers cannot follow: the four invariants of
`Codecs` are checked over its bounded inputs.

## 6. Where the code and its documentation disagree

Three are runs that TLC ends with a counterexample.

1. **A session closes the next client's channel** (`sessions_cross_talk`). A refused
   session writes its answer to the client before it stops. Meanwhile the
   peer's CLOSE is acknowledged and the channel leased to another client; the
   late `dataChannel_.close()` (`socks-to-rtc.ts:365`) ends that client's
   connection. It takes a client that reads slower than the peer closes, which it sends
   back to back with its refusal (`rtc-to-net.ts:434-435`). `StraysOnlyLate` says how far
   this goes: only sockets that are late in this way, and missed CLOSEs, make a session stray.
2. **A client that leaves early leaves its session for ever**
   (`sessions_client_gone`). The end of the TCP connection is listened to only once
   the session is ready; before that no promise of the handshake settles any
   more. The documentation of `onceStopped` (`socks-to-rtc.ts:278-283`) promises
   otherwise.
3. **A bind is not retried** (`churn_bind`). `churn-pipe.ts:25-26`: "Retry an async
   function with exponential backoff for up to 2 seconds before failing." The
   timer calls `this.retry_` (`churn-pipe.ts:36`) of a function that belongs to no
   object; it throws, and the promise of `bindLocal` never settles.

Met on the way, each reproduced by TLC or read off the code, without a run of
their own:

*Pool, net.*
- A data channel that closes under a wrapper that waits in the pool stays there;
  the next `open()` resolves on a channel on which every send is rejected
  (`pool.ts:58`: "Channels which have been closed, and may be re-opened").
- If OPEN and CLOSE are both there when the remote wrapper is constructed,
  `setSyncHandler` replays them before the callback that sets the state OPEN can
  run; the CLOSE counts as redundant, is never acknowledged, and the opener stays
  CLOSING (`pool.ts:185`, `207`, `291`). The model does the same, and notes the channel in
  `missed`; without that exception TLC finds `NoOrphanedClose` and `CloseCompletes`
  violated, and `LeaseIsolation` once the remote user closes by itself: the opener takes
  that for the answer, and leases the channel again while the remote end waits for
  its own.
- `shutdown()` closes nothing when `stopListening()` fails, though it is
  "Equivalent to calling stopListening followed by closeAll" (`net/tcp.ts:199-200`).
  `onceStopped` of `SocksToRtc` then rejects, which "should never reject"
  (`socks-to-rtc.ts:197-198`).
- `state_` of a connection is not CLOSED "iff" `onceClosed` is fulfilled
  (`net/tcp.ts:279-280`): it is set earlier, and not at all when connecting fails.

*Sessions, proxy.*
- A session whose SUCCEEDED is still being written when the peer closes is linked to a
  channel that is back in the pool, or in the hands of another: its socket is `late`. Data
  queued behind a refusal that nobody reads keeps the channel CLOSING. A data channel that
  breaks during the handshake leaves the SOCKS session waiting for a response.
- `onceReady` of `RtcToNet` is not rejected by `stop()` (`rtc-to-net.ts:156` has a
  TODO); `stop()` before `start()` returns `undefined`.

*TURN.*
- An allocation that fails is only logged, though the comment at
  `turn-frontend.ts:173` speaks of a FAILURE_RESPONSE; a `getInfo` that fails is
  answered by nobody. `AskedIsAnswered` excepts both.
- A repeated ALLOCATE is answered with the memoised response: the transaction id is
  that of the first, and each answer has one MESSAGE-INTEGRITY more than the last,
  of which the first are zeros (`messages.ts:298`).
- A SEND indication of an empty datagram is not relayed: `parseStunAttribute` leaves the
  value of an attribute of length zero undefined (`messages.ts:396-404`), and the backend
  reads its length (`turn-backend.ts:122`), which throws. `ReadAsMeant` names it as the one
  message that nobody can read. An empty datagram
  on its way to the client is forwarded without being read, and arrives.

*Churn.*
- Candidates of IPv6 and of other types than host go to the peer as they are,
  though `churn.ts:366-368` wants "to be sure the remote side never knows the real
  address"; a TCP host candidate may be
  taken for the WebRTC endpoint.
- When the mirror socket is bound and its `getInfo` is rejected, so is `bindRemote`
  (`churn-pipe.ts:151-155`), which nobody handles (`churn.ts:341`): candidates of the peer wait
  for ever, although the socket is there. `CandidatesGiven` excepts this failure and
  that of the bind itself, of the peer's mirror socket alone.

*Codecs.*
- A request of fewer than nine bytes counts as too short (`socks-headers.ts:229`; a UDP
  message, of fewer than ten), so that one for a name of one character is refused; a
  longer one that is cut short (an IPv4 address or a name with too few bytes) is
  accepted and filled with zeros or NULs. `SocksRefused` names the first kind.
- Method numbers above 15 do not survive `formatStunMessage`; transaction ids of 20
  bytes are written over 12; a name longer than 255 characters overflows its length.

## 7. What is not modelled

- *Connection*: the queue of data from the socket (`receiveNext`), which is
  uproxy-lib's handler queue; the constructor's rejection of a malformed kind.
- *Server*: addresses; calling `listen` twice, which its comment forbids; more than
  one `stopListening` at a time.
- *Sessions*: byte counters and snapshots; `sessions_` (read only for snapshots and logs).
- *Proxy*: a proxy and another owner of one server at the same time, which the
  code does not do either; its sessions, which are those of `Sessions`.
- *TURN*: `bind` of the frontend, three calls in a row when the server is set up;
  messages that are refused without any effect; lifetimes, which nothing enforces.
- *Churn*: the states of connections, `close`, and data channels, which copy those
  of the obfuscated connection; the end-of-candidates signal, which is ignored.
- *Codecs*: the tests of JavaScript types; `passthrough.ts`, the identity.
- *Reads in pieces*: a handshake that TCP delivers in two parts. The code interprets
  the first part alone.
- *Reuse of names*: socket ids (`net/tcp.ts:186`) and channel labels
  (`rtc-to-net.ts:221`) that are used again while an old entry is still to be
  discarded.
- *UDP relay and client*: nothing uses them. *Echo server, samples, benchmark,
  integration tests*: glue. *uproxy-lib, freedom.js*: not in the repository;
  they appear as external definitions.

## 8. Plan

The order is by importance to the proxy's users.

1. **Pool** with its abstract specification, and the proof of `PoolSound`. *Done.*
2. **Counter, connection, server**, with proofs for the first two. *Done.*
3. **Sessions** over the pool, and **Proxy** over the server. *Done.*
4. **Turn** with `RelayTable`, and the proofs. *Done.*
5. **Churn** over **ChurnPipe**. *Done.*
6. **Codecs** over bounded inputs, and the proofs about the cipher. *Done.*
7. **Proofs** of the server and the proxy, of the two ends of a pooled channel and of
   its abstract specification, of churn, and of the order of TURN's datagrams. *Done.*
8. **Proofs** about `Sessions`: its four invariants, on every sound channel, under the
   hypothesis of the pool. *Done.*
