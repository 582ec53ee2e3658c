# bittorrent-tracker in TLA+

TLA+ modules, TLC models and TLAPS proofs for `bittorrent-tracker`: the tracker
server (HTTP, UDP and WebSocket announces into per-torrent swarms) and the three
tracker clients. Paths below are relative to the repository (`src/` in
`PROJECT.json`).

## 1. Inventory

| Part | Code | State | Operations | Talks to |
|---|---|---|---|---|
| Swarm | `lib/server/swarm.js` | LRU cache of peers, `complete`, `incomplete` | `announce` (five events), `scrape`, `_getPeers`, the `evict` listener | called by the server; reads and trims `infoHashes` of peers' sockets |
| Server pipeline | `server.js` | `torrents`, `destroyed`, and per WebSocket `peerId`, `infoHashes`, `destroyed` | `onHttpRequest`, `onUdpRequest`, `_onWebSocketRequest`, `_onWebSocketClose`, `_onAnnounce`, `_onScrape`, `getSwarm`, `createSwarm`, `close` | transports (callbacks), the operator's `filter` (asynchronous), swarms (calls) |
| Stats page | `server.js` | none of its own | GET `/stats` | peeks into every swarm, which may evict |
| Server life cycle | `server.js` | `listening`, `_listenCalled`, the count of sockets still to come up | constructor, `listen`, `close` | http, dgram, ws |
| WebSocket client | `lib/client/websocket-tracker.js` | module-wide `socketPool` with `consumers`, and per tracker `socket`, `destroyed`, `reconnecting`, `reconnectTimer`, `expectingResponse`, `peers` | `announce`, `scrape`, `destroy`, `_openSocket`, socket events, timers | other trackers of the page through the shared socket |
| UDP client | `lib/client/udp-tracker.js` | `cleanupFns`, `maybeDestroyCleanup`, and per request socket, transaction id, timeout | `announce`, `scrape`, `destroy`, datagrams, timeout, SOCKS callback | the network |
| HTTP client | `lib/client/http-tracker.js` | `cleanupFns`, `maybeDestroyCleanup`, and per request an abort controller | `announce`, `scrape`, `destroy`, fetch, timeout | the network |
| Tracker base | `lib/client/tracker.js` | `interval` | `setInterval` | calls `announce` of its subclass |
| Client facade | `client.js` | `_trackers`, `destroyed` | `start`, `stop`, `complete`, `update`, `scrape`, `destroy`, `Client.scrape` | all trackers in turn |
| Parsers, codecs | `lib/server/parse-*.js`, `lib/common*.js` | none | pure conversions | |
| Command line | `bin/cmd.js` | none | options and printing | |

Everything runs in one JavaScript thread: a callback runs to its end. What is hard is
therefore what happens *between* callbacks, and callbacks that are entered *from inside*
others:

* the LRU cache emits `evict` in the middle of `get`, `set` and `peek`, so the swarm is
  re-entered inside its own handlers, and the reply loop evicts while it picks peers;
* one WebSocket peer is known in three places: the cache entry, `socket.infoHashes` and
  `socket.peerId`. They must agree when sockets close, are shared, or come back;
* `getSwarm` and `createSwarm` call back one tick later, and the filter whenever it likes;
* clients share one socket per URL and count its users by hand; reconnecting, destroying
  and failing can meet in any order;
* `destroy()` waits for requests that time out, fail, or are answered in the meantime;
* the client's listeners run inside the handlers of replies and may call `destroy()` before
  the handler goes on;
* datagrams are lost, duplicated, delayed and reordered;
* an offer goes from a client through its socket, the server and another client's socket, and
  its answer the same way back, while either socket breaks and the offer's peer times out;
* `Client.scrape` counts the replies of several trackers in one counter;
* `close()` may come while the server's sockets are still being bound.

What makes each part correct: the counters equal what the cache holds and the cache stays
within its bound (swarm); no peer outlives its socket, the last announce decides, each
request is settled once and in the end (server); the pooled socket lives exactly as long as
somebody uses it, and nobody is forgotten (WebSocket client); every request ends, reports
once, believes no stale reply, and `destroy()` calls back once with nothing left (UDP and
HTTP clients); what has become of an offer's peer stays so, and it does not linger (offers);
success means complete and true counts (`Client.scrape`); `listening` means listening, and
`close()` means closed (life cycle). `PROJECT.json` lists the single hazards, each with its line and the
properties that cover it.

## 2. Modules

| Module | Stands for |
|---|---|
| `SwarmOps` | the swarm and its LRU cache as pure functions from swarm to swarm |
| `Swarm` | one swarm, driven by announces, closing sockets, age, relayed answers and `/stats` |
| `PeerRegistry` | abstract: a bounded set of seeders and leechers and two counters |
| `TrackerServer` | the request pipeline over several torrents, using `SwarmOps` |
| `WebSocketTracker` | the WebSocket trackers of one page and one URL, with the socket pool |
| `Teardown` | abstract: what `destroy(cb)` of the HTTP and UDP clients promises |
| `UdpTracker`, `HttpTracker` | the two request/response clients; both implement `Teardown` |
| `OfferExchange` | WebRTC offers and answers: several clients, their pages' sockets and the server between them |
| `ClientScrape` | `Client.scrape`, from the call over the three transports and the server's look-ups back into the results |
| `ServerLifecycle` | the server's sockets: constructor, `listen`, errors, `close` |
| `Codec` | 64-bit integers and packet layouts; no run, theorems in `UdpProofs` |
| `SwarmOpsProofs` | lemmas about the functions of `SwarmOps`, used by the next two |
| `SwarmProofs`, `ServerProofs`, `UdpProofs`, `HttpProofs`, `LifecycleProofs`, `PoolProofs`, `ClientProofs` (offers and scrapes) | theorems and their proofs |
| `MC...` | constants for TLC |

Operators whose comment says *Mutant of X* are plausible bugs in `X`. No specification uses
them; each one shows that a property would notice (`mutants` in `PROJECT.json`).

### How state and actions correspond to the code

**Swarm.** A swarm is a record. `cache` and `order` are the LRU's map and its recency list;
`stale` holds the entries older than `maxAge`, and `GrowOld` is time passing; `listed` turns
`socket.infoHashes` around: the open sockets that name this swarm. Because the LRU calls
back, each handler is a function on such records, and `Evict` occurs inside `Put`, `Get` and
`Peek` where the package calls the listener. `Evict` stops the evicted peer under its
*peer id*, as the code does, though an HTTP or UDP peer is cached under its address.
`AnnounceRequest` is `Swarm.announce` up to the reply; the loop of `_getPeers` is one
`PickPeer` per turn, in any order (random-iterate), and `loop` keeps other handlers out
until `Reply`. The package `lru` is external: the model has it evict the oldest entry before
it inserts one; the package inserts first. The difference shows only if the listener removes
the key that is being inserted, which takes a hybrid client (section 5).

**TrackerServer.** `ticks` is Node's nextTick queue. An I/O callback (`Receive`,
`CloseSocket`, `Close`, or a filter's answer) starts only when it is empty; `GetSwarm`,
`CreateSwarm` and `Scrape` take its head. `Receive` takes a batch of requests of one
connection: several WebSocket frames, or pipelined HTTP requests, may come in one chunk.
Swarm objects are numbered and never forgotten, so that a replaced one can be seen:
`torrents` names the current one. `listing` is `infoHashes` again, per info hash.

**WebSocketTracker.** A set per flag of the trackers (`destroyed`, `reconnecting`, ...), and
a state per socket: connecting, open, lingering (its last user expects a response and has
`DESTROY_TIMEOUT` for it), closing. The data, close and error listeners are on a socket
exactly while `tracker.socket` names it; the connect listeners are kept, because only the
tracker that creates a socket has one.

**UdpTracker, HttpTracker.** A phase per request. `cleanupFns` is the code's array;
`stage` is "leaving" while `maybeDestroyCleanup` is set, and "gone" once `destroy`'s callback
was called. The UDP network is a set that only grows, so each datagram can come late, twice
or never. A client with a proxy and one without are two initial states of one specification.
A reply may be reported by several events: 'update' and then peers or, if the list of peers is
malformed, a warning; over HTTP a warning message before all that. Each event is a step, the
first one (`Finish`, `BodyArrives`) together with what the handler does before it. `emitted`
records the kinds of events that a request gave the client. `reporting` holds the request whose
handler has not returned: until it `Returns`, timers, sockets and the network wait, while the
client's own calls (`Request`, `SetInterval`, `Destroy`), which a listener may make, do not.
`ReportsOn` is the rest of the handler, which does not ask again whether `destroy()` was called.

**OfferExchange** composes what the other modules treat alone: `entry` is the swarm (the
socket in each member's entry), `named` and `owner` are `infoHashes` and `peerId` of the
server's sockets, `line` is a page's pool, `down` what the server has sent. `Announce` is
`announce()` with `_generateOffers`; the last `Signal` of a batch is `checkDone` and sends
it. A message of a client is handled by the server in the step that sends it, or lost: the
handlers touch the server's state only, so a message under way is like one sent later. An
offer's peer goes from "waiting" to "met" (given to the user), "dead" (destroyed by a timeout
or `destroy()`) or "failed" (destroyed after an error, and still in `peers`), and from there to
"dead" or "corpse" (given to the user although it had failed). `OnAnswer` emits the peer and
`Release` lets go of it; between them, while the offer is in `emitting`, listeners of 'peer' may
call the clients, and no other handler runs on that page. `SendStop` overtakes offers that are being
generated, as `_send` does.

**ClientScrape.** The kind of each tracker stands for its class and for what it can do
("bare" is an HTTP tracker without scrape URL, "pooled" a WebSocket that another client uses,
too). `Wire` is what arrives of the info hashes, `found` the results of the server's
`series`, `Keys`, `Position` and `File` the object it builds from them (`Position` is the
look-up that a key's count comes from: the last one), `ScrapeEvents` what the client
makes of the reply. A count is a record of tracker, torrent and version, so that no two
counts can be mistaken for each other. Its specification is called `ScrapeSpec` (with
`ScrapeInit`, `ScrapeNext`, `scrapeVars`), because `ClientProofs` extends this module and
`OfferExchange`.

**ServerLifecycle.** One state per socket. An HTTP server that is given a hostname is
"looking" until it has something that `close()` can close. `num` is the constructor's
variable; `closing` says what became of each call of `close()`.

**Codec** is about numbers beyond TLC's 32-bit integers and has theorems, in `UdpProofs`,
instead of a run.

## 3. What TLC checks

Every run is exhaustive. In the runs marked (D) the system really stops: the requests of a
behaviour are bounded, and trackers that are destroyed do nothing more.

| Run | Instance | Shows |
|---|---|---|
| `Swarm` | 5 endpoints: a browser on two sockets, another browser, an HTTP and UDP client at one address; 2 cache entries, 3 keys; `numwant` 0 to 2 | types, `CacheOrdered`, `CountsMatch`, `NoGhost`, `MemberListed`, `PickedAreUsable`, `ReplyComplete`, `SeederStays`, `RemovedForCause`, and that the swarm implements `PeerRegistry` |
| `Server` (D) | 2 torrents, 3 requests, one or two per I/O callback, with and without filter (113 thousand states) | types, `LastWord`, `GhostsCameLate`, `OrphansTakeTwo`, `AllSettled` |
| `Pool` (D) | 3 trackers, 3 sockets (368 thousand states) | `PoolCounts`, `OneLiveSocket`, `NeverForgotten`, `SendsWhenOpen`, `DestroyCallsBack` |
| `Udp` (D) | 2 requests, with and without proxy (196 thousand states) | `CleanupTracked`, `AnswerIsForRequest`, `OneReport`, `RequestEnds`, implements `Teardown` |
| `Http` (D) | 3 requests (45 thousand states) | `CleanupTracked`, `OneReport`, `RequestEnds`, implements `Teardown` |
| `Offers` (D) | 3 clients on 2 pages, 3 connections of which one breaks, 2 offers, 2 calls (1.1 million states) | `OtherPartners`, `Settled`, `OffersEnd` |
| `Scrape` (D) | 2 trackers of any kinds; one torrent, two, and one given twice; each swarm changes once (2.0 million states) | `AllReported`, `CountsTrue`, `ResultsStay`, `CallsBack` |
| `Lifecycle` (D) | every combination of options, 2 connections, 2 calls of `close()` | `ListeningTrue`, `DoneIsClosed`, `StartSettles`, `CloseCallsBack` |

Why the bounds are enough. *Swarm*: three keys and room for two make an announce evict for
space; every entry can be stale at any time, so each `get`, `peek` and `set` can evict; two
sockets under one peer id give a client that reconnects. *Server*: a conflict needs two
requests of one peer and a third that separates them (another torrent, another peer, a
scrape), and two of them may share an I/O callback; sockets close and the server closes at any
point in between. Caches do not fill up
there, which is `Swarm`'s business. *Pool*: three trackers give a socket a first, a last and
an in-between user, and a failed socket can still be closing while the next is
up, so three names suffice (a name is free again once its socket has closed). *Udp*,
*Http*: requests touch each other only through `cleanupFns`, where what matters is whether
a request is the last one, and a listener may make the next request while it hears of the
first. For these, the theorems cover every number of requests. *Offers*:
two offers of one announce and three members let one announce reach both of the others, who
share a page and hear each other's offers, or let two clients make an offer each; two calls
are an announce with the stop, destroy or announce that races with it; reconnecting needs the
third connection, and the announce it makes counts as a call. *Scrape*: two trackers of each pair of kinds answer,
fail and get lost in either order; one change of a swarm falls between any two look-ups.
A third tracker adds nothing to a counter that two already share. *Lifecycle*: the sockets
are all there are; a second `close()` meets a first that waits.

### Where the code and its own words part

Four runs are expected to fail, each on one property that a comment or the README states;
the findings in `PROJECT.json` quote it.

| Run | What happens |
|---|---|
| `SwarmHybrid` | eviction of the HTTP entry of a client that also uses WebSocket removes its WebSocket entry without counting it (`swarm.js:32`) |
| `ServerBatch` | two announces for a new torrent in one I/O callback create two swarms; the first is lost with its peer (`server.js:357`) |
| `PoolStuck` | a tracker that joins a connecting socket while it reconnects never announces again (`websocket-tracker.js:175`) |
| `ScrapeOverheard` | a reply to another client's scrape over a shared socket is counted, and `Client.scrape` succeeds without one of its counts (`websocket-tracker.js:310`) |

More formulas of this kind are stated in the modules and false of the code. No run has them;
to see one fail, put it into the configuration that is named and take the others out:

| Formula | Configuration | What happens |
|---|---|---|
| `MemberListed` | `SwarmHybrid` with `Endpoint <- MCShared` and `PeerId = {P1, P2, P3}` | two clients share a socket, one stops, and the socket no longer names the swarm of the other (`swarm.js:103`) |
| `GhostsCameLate`, `LastWord` | `Server` with `Request <- MCShared` | two clients share a socket; its close removes only the first of them, whose peer id the socket has (`server.js:584`) |
| `LastWord` | `Server` with `Request <- MCReconnect` and `Socket = {s1, s2}` | a browser announces again on a new socket, the server closes the old one later and removes it (`server.js:584`) |
| `StaysDestroyed` | `Pool` | a tracker destroyed while it waits to reconnect opens a new socket later (`websocket-tracker.js:92`) |
| `NothingLeftBehind` | `Udp` | a SOCKS connection completed after `destroy()` opens a UDP socket (`udp-tracker.js:123`) |
| `SilentAfterDestroy` | `Udp` | a listener of 'update' calls `destroy()`, and 'peer' or 'warning' follows (`udp-tracker.js:207`) |
| `NoUpdateAfterDestroy` | `Http` | a listener that hears a response's warning message calls `destroy()`; then the interval timer is armed and 'update' emitted (`http-tracker.js:184`; `test/destroy.js:26` says that no 'update' should fire) |
| `OnlyLivePeers` | `Offers` | a peer that failed, and so was destroyed, is emitted when its answer comes (`websocket-tracker.js:422`) |
| `NoUnhandledRejection` | `Http` | a body that fails or is aborted is an unhandled rejection (`http-tracker.js:159`) |
| `StopLeaves` | `Offers` | a client that has stopped is in the swarm again: the offers of an earlier announce, the interval timer, an answer or a reconnect bring it back (`websocket-tracker.js:63`) |
| `ClosedIsSilent` | `Lifecycle` | 'listening' after `close()`: an HTTP server that looks up its hostname cannot be closed, and a closed server can be told to listen (`server.js:285`) |

Four findings need no model to be seen, or are theorems: `TWO_PWR_32` is 2^17
(`parse-udp.js:62`, theorems in `UdpProofs`); the UDP client does not convert info hashes that are
hex strings (`udp-tracker.js:295`; the exception `form` in `CountsTrue`); it writes into the
`opts` that all trackers share (`udp-tracker.js:39`); and the command line passes the UDP
hostname under a name that `listen` does not read (`server.js:317`).

The passing runs exclude `SwarmHybrid`, shared sockets in a swarm and, in
`Server`, a second socket of one peer by their instances (no hybrid client, one peer per
socket, one socket per peer). The case of `ServerBatch` is part of `Server`, whose
`OrphansTakeTwo` excludes it by its hypothesis `Alone`; `Scrape` has
shared sockets, and `AllReported` excludes them by name. `CleanupTracked` of the UDP client
speaks of clients without a proxy.

Observed and not claimed as findings. WebSocket client: the flag `expectingResponse` is per
tracker although the socket is shared, so the last of two trackers may cut off a response to
the first; an announce one of whose peers fails before it
signals is never sent; a `'peer'` listener that destroys the client makes the handler of the
answer read `peers` of null. HTTP and UDP clients: a failed fetch or proxy connection leaves
its cleanup function registered, so that `destroy()` waits for `DESTROY_TIMEOUT` although
nothing is pending; a duplicated handshake that arrives after the announce was sent aborts a
UDP request with a warning; a malformed list of peers is reported as a warning after the 'update'
of the same reply; a fetch that fails after `destroy()` still emits a warning.
`Client.scrape`: a failed scrape does not destroy the client, which for a WebSocket tracker
goes on reconnecting; an info hash that is given twice leaves `len` above zero for good over
HTTP and WebSocket and shifts the positions over UDP; a second HTTP tracker without a scrape URL
makes the call throw. Server: with only a `noServer` WebSocket it never emits 'listening';
`close()` waits for WebSockets that it does not end.

### Fairness

`Swarm` needs none. `TrackerServer`: Node runs its ticks, and the filter calls back (weak
fairness for each request); nothing else is promised, in particular no request arrives.
`WebSocketTracker`: timers fire, a destroyed socket emits 'close', and a connection attempt
ends one way or the other, which is what a WebSocket guarantees; an open socket may stay
silent for ever. `UdpTracker`, `HttpTracker`: timers fire, listeners return, and an aborted fetch rejects; the
network owes nothing, so no liveness property rests on an answer. `Teardown` asks only that
its pause ends. `OfferExchange`: `OFFER_TIMEOUT` fires and listeners return; nothing else is promised, neither that
a message arrives nor that a peer gets ready. `ClientScrape`: microtasks run, and a UDP or
HTTP request that is not answered fails in the end, by its timeout; a WebSocket tracker has
none, hence the exception in `CallsBack`. `ServerLifecycle`: the operating system binds a
socket or refuses, and Node emits 'close' once no connection is left; that connections end is
not assumed.

## 4. What is proved

TLAPS checks the following for every value of the constants.

| Theorem | States |
|---|---|
| `SwarmProofs`: `TypeCorrect`, `CacheCorrect`, `KeysCorrect`, `CountsCorrect` | `TypeOK`, `CacheOrdered`, `KeysFit` and `CountsMatch` are invariants of `Swarm`; no run has `KeysFit`, which the proof needs |
| `SwarmProofs`: `NoGhosts`, `MembersListed` | `NoGhost` and `MemberListed`: cache entries, `infoHashes` and open sockets agree |
| `SwarmProofs`: `PickedUsable`, `RepliesComplete` | `PickedAreUsable` and `ReplyComplete` of the reply loop, which evicts while it picks |
| `SwarmProofs`: `SeedersStay`, `RemovalsHaveCause` | the action properties `SeederStays` and `RemovedForCause` |
| `SwarmProofs`: `Implements` | `ImplementsRegistry`: the swarm with its LRU cache implements `PeerRegistry` |
| `ServerProofs`: `TypeCorrect` | `TypeOK` of `TrackerServer` |
| `ServerProofs`: `NoOrphans` | `OrphansTakeTwo`, for batches of any size: no swarm with members is lost unless two announces for a torrent that has none are queued together |
| `ServerProofs`: `GhostsLate`, `LastWordHolds` | `GhostsCameLate` and `LastWord`, under the hypotheses below |
| `UdpProofs`: `CleanupCorrect`, `AnswersCorrect`, `ReportsCorrect` | `CleanupTracked`, `AnswerIsForRequest` and `OneReport` |
| `HttpProofs`: `CleanupCorrect`, `ReportsCorrect` | `CleanupTracked` and `OneReport` |
| `UdpProofs`, `HttpProofs`: `TeardownCorrect` | each client implements the safety part of `Teardown` |
| `LifecycleProofs`: `ListeningCorrect`, `DoneCorrect` | `ListeningTrue` and `DoneIsClosed` |
| `PoolProofs`: `CountsCorrect`, `NoSocketLeaks`, `NobodyForgotten`, `SendsCorrect`, `TypeCorrect` | `PoolCounts`, `OneLiveSocket`, `NeverForgotten`, `SendsWhenOpen` and `TypeOK` of `WebSocketTracker`; no run has that `TypeOK` |
| `ClientProofs`: `OffersSettled`, `PartnersDiffer` | `Settled` and `OtherPartners` |
| `ClientProofs`: `ReportCorrect`, `CountsCorrect`, `ResultsCorrect` | `AllReported`, `CountsTrue` and `ResultsStay` of `Client.scrape` |
| `ServerProofs`: `RequestsTracked`, `SettledOnce`; `PoolProofs`: `CallbacksDue`; `LifecycleProofs`: `WaitsEnd`; `ClientProofs`: `OffersArmed`, `EndsAreHeard` | safety cores of liveness properties, see below |
| `UdpProofs`: `RegisteredUntilGone` | with a proxy, too, what is under way is registered until `destroy()` has called back; `NothingLeftBehind` of clients without a proxy |
| `UdpProofs`: `SmallNumbersArrive`, `LargeNumbersShrink`, `LeecherBecomesSeeder` | what the server reads of a 64-bit number: the number itself below 2^31, a smaller one always from there on, 0 for 2^32 - 2^17 |
| `UdpProofs`: `ParserFitsPacket`, `ReplyFits` | the server reads each field of a UDP announce where the client wrote it; no UDP reply exceeds 512 bytes |

*Assumptions.* Those the modules state: the keys are finitely many, peer ids are not
addresses, `NoPeer` is not a peer, `MaxPeers` is positive, the trackers of a page are finitely
many, and neither `NoSock` nor the two words that `callback` uses for no socket name one; a
call of `Client.scrape` has one or more info hashes and a sequence of announce URLs; in
`OfferExchange`, `MaxOffers` and `NumWant` are natural numbers, the clients are finitely many,
there are at least as many sockets as pages (each page has one at the start), and `None` is
neither a client nor a socket; in `TrackerServer`, the cache has room for every key.

*Hypotheses.* Some properties are false of the code for some uses of it, and their theorems
say for which uses they hold. The instances of the passing runs satisfy these hypotheses but `MaxBatch = 1`, and
the runs and formulas of section 3 show that each but one is needed.

| Hypothesis | Says | Theorems | Without it |
|---|---|---|---|
| `Swarm!NoHybrid` | no client uses one peer id over WebSocket and over HTTP or UDP | all of `SwarmProofs` | run `SwarmHybrid` |
| `Swarm!NoShared` | no two peers share a socket | `NoGhosts`, `MembersListed`, `PickedUsable` | formula `MemberListed` |
| `[]Alone` (in `OrphansTakeTwo`) | no two announces for a torrent that has no swarm are queued together | `NoOrphans` | run `ServerBatch` |
| `MaxBatch = 1` | an I/O callback carries one request | `GhostsLate`, `LastWordHolds` | not known to fail: run `Server` checks both with two |
| `TrackerServer!NoShared` | no two peers share a socket | `GhostsLate`, `LastWordHolds` | formulas with `MCShared` |
| `NoReconnect` | no peer comes back on another socket | `LastWordHolds` | formula with `MCReconnect` |

*Argument for the swarm.* `CountsMatch` is not inductive: an eviction decrements the counter
of the evicted peer and removes the entry under that peer's *peer id*, and only if that is
the entry already dropped do the counters stay right. `KeysFit` says just that: WebSocket
peers are cached under their own peer id, and no other peer's id is one. Whether the evicted
key is cached at all depends on the recency list, hence `CacheOrdered`. The inductive
invariant is their conjunction with `TypeOK`. As handlers are compositions of `Drop`,
`Touch`, `Stop`, `Evict`, `Put` and `Get`, there is one lemma per operator, saying what it
does to a swarm that satisfies the invariant. A handler changes the counters before it calls
`Put`, so the lemmas speak of the *drift* between counters and members rather than of
equality: eviction preserves it and insertion settles it.

*Sockets of a swarm.* Every handler falls into a few cases (`SwarmProofs`: nothing kept but
order and counters, a key lost, a peer finished, renewed, entered, or entered with another
displaced), and what follows is proved once for each case. `NoGhost` and `MemberListed` follow
from `LInv`: the socket of every WebSocket member is open and names the swarm, or is the one
that is being answered, and `peerId` of a socket is a peer that announced on it. It is
inductive only if no other member uses the socket of a peer that is removed, hence `NoShared`.

*The reply loop.* `PInv`: a key is picked or still to come, never both; the picked ones are
members that may be handed out; and no other member may be. Peeking drops at most the key that
is peeked at, which is why no eviction takes away what has been picked.

*Refinement of the registry.* `Roles` maps a swarm to absent, seeder or leecher per key. A
handler is one step of `PeerRegistry` although it may evict in the middle: the evicted key
leaves in the same step in which the new one enters. Looking at a peer (`PickPeer`,
`CountPeer`) is a step that removes a peer, or a stutter.

*Argument for the server.* `SwarmOpsProofs` shows that a swarm in which nothing is stale and
all keys have room stays so (`Calm`), that an announce other than `stopped` changes the entry
of its own peer only and keeps its socket if it had one (`Stays`), and that a stop and a close
remove one entry (`Leaves`). On this rest the invariants, each proved with the help of those
before it. `TInv`: types, calm swarms, and only announces ask for `createSwarm`. With it, `Creating` (the
torrents of what waits for `createSwarm` have no swarm) and `Registered` (every object is the
swarm of a torrent) are kept by every step from a state in which announces for new torrents are
`Alone`: the second creation for a torrent would be the only step to break them. That is
`OrphansTakeTwo`. The rest is for one request per I/O callback, where announces are always alone
(`OneByOne`). `OInv`: one tick is queued at most, while it asks for `createSwarm` its torrent has
no swarm, and every swarm object is registered for exactly one torrent. `GInv`: what is
outstanding is undecided; an open socket on which an announce came belongs to a peer that
announced on it; and a member's socket names the swarm and belongs to the member, unless an
announce of it for that torrent was dropped. So when the socket closes, the member goes, which is
`GhostsCameLate`. `WInv`, for a server without filter: requests are handled in their order,
none is dropped while the server is up, because no socket closes while a tick is queued, and
each peer's membership is what the last of its handled announces and the close of its socket
have decided; when nothing waits this is `LastWord`. TLC has checked each of these on small
instances first.

*Arguments for the clients.* UDP: registered requests are those with a socket (no proxy),
an answer was in the network under the request's second transaction id, and a request that
has emitted is done; so what is emitted for it later comes from the one handler that is
reporting it. HTTP: until `destroy()` calls back the requests under way are
registered, and those that failed have emitted, but no answer. In both, `reporting` names a
request that is done and has emitted, which is why its handler begins no second report.

*Argument for the life cycle.* Until `close()`, `num` is the number of sockets that are not
bound, one summand for each of the three; it never rises, so it is zero once, and then each
summand is. After `close()` only the part that says that 'listening' comes once is kept. For
`DoneIsClosed`: an HTTP server that was closed while it ran had been told to listen, so
`listen()` cannot start it again.

*Argument for the pool.* The four properties are proved together, with two facts that none of
them states: only a destroyed tracker waits for its reconnect timer, or `_openSocket` would
count it twice; and only constructed trackers have an announce in a queue. The counter is a
cardinality, so what an action does to it follows from what it does to the set of trackers
that are alive.

*Argument for the offers.* A tracker holds in `peers` only peers of its own offers whose fate
is open, a timeout is armed only for a peer that is held, and offers are made in the order of
their numbers. Whatever settles a peer finds it in `peers` or through its timeout, and takes
it out of both; the handler of an answer does so only after it has emitted the peer, so an
exception is made for the offers in `emitting` (`Loose` in `ClientProofs`) and for failed peers,
whose `signal()` may throw.

*Argument for the partners.* `OtherPartners` speaks of the end of an offer's way only, so the
invariant `PInv` speaks of all of it: an offer has *reached* a page if an invitation waits on
the page's socket, a peer of a client there answers it, an answer from there is under way, or
its partner is there. `Paths` says that two offers of one announce have reached the same page
only if two clients other than their maker are on it, and that nothing reaches a page before
its batch is complete. Only the last `Signal` of a batch takes offers to pages, each to another
member; that different members are on different pages unless they share one takes `Lines`:
a socket that works belongs to one page, the members it is the entry of are clients of that
page, and messages wait only on sockets of pages. `Batches` says that announces partition the
offers. An offer is never answered by its maker, since a client ignores what is from itself.
`Sorted` gives the i-th of a set by counting those below it, which lemma `Ranks` inverts with
the library's facts about injections of finite sets. TLC has checked the four parts of `PInv` on
the instance of `Offers`.

*Argument for the scrape.* `ScrapeInv` follows the call from the look-ups to the counter.
`LookedUp`: what the server has found so far are counts of the torrents at these positions, as
they were at some time since the call. `NothingYet`: before the call nothing was looked up and
no count came, so that `since` may be set. `FirstIsComplete`: unless a torrent is asked for
twice or a socket is shared (`Alone`), a client that is not destroyed has no count at all and
misses all of them, because a reply has a count for each torrent of the call, so that the first
reply completes the scrape and destroys the client. `SuccessDestroys`: so it is whenever the
callback is given results, and later replies are dropped. That a reply has as many keys as
there are torrents (`KeysCount`) is a fact about finite sets and again about `Ranks`; the model
takes the last position of a key instead of folding over a reply, since the provers cannot do
induction over sequences. TLC has checked `ScrapeInv` on the instance of `Scrape`, and with an
empty list of announce URLs.

*Safety cores of liveness.* That something happens in the end needs fairness, which the
prover cannot use. What fairness then finds is an invariant, and proved: something that is
waited for has a step that will end it.

| Theorem | Whoever waits | waits for | so that | gives |
|---|---|---|---|---|
| `RequestsTracked`, `SettledOnce` | a pending request | the filter or the one tick it has; and once settled, none comes back to it | the filter calls back and ticks run | `AllSettled` |
| `CallbacksDue` | a `destroy()` of a WebSocket tracker | a socket that is lingering or closing | `DESTROY_TIMEOUT` fires and the socket emits 'close' | `DestroyCallsBack` |
| `OffersArmed` | an offer's peer | its `OFFER_TIMEOUT`, in a tracker that is up | the timeout fires | `OffersEnd` |
| `EndsAreHeard` | the user of a scrape | a tracker that was asked or has lost the request, none being done with it (unless a torrent is asked for twice) | requests fail in the end | `CallsBack` |
| `WaitsEnd` | a start, a `close()` | a socket that is being bound or has failed, an HTTP server | the system binds or refuses, and 'close' is emitted | `StartSettles`, `CloseCallsBack` |

`RequestsTracked` and `SettledOnce` hold for batches of any size: in run `ServerBatch`, too, no
request is forgotten, only a swarm. TLC has checked these invariants on the instances of the
runs.

*Only model-checked.* Liveness (`AllSettled`, `DestroyCallsBack`, `RequestEnds`, the fairness
of `Teardown`, `OffersEnd`, `CallsBack`, `StartSettles`, `CloseCallsBack`), which is out of
the prover's reach. Every invariant and every action property that a passing run checks is
stated by a theorem. Of the server with several requests in one I/O callback, the types,
`RequestsTracked`, `SettledOnce` and `OrphansTakeTwo` are proved; `GhostsCameLate` and `LastWord`
are proved for one request at a time and model-checked for two.

## 5. Not modelled

* Validation and conversion of single fields, query strings, addresses and peer lists: pure
  functions without state. `Codec` and `ClientScrape` have those that a property is about.
* In `OfferExchange`: eviction from the swarm's cache and seeding (`Swarm`), and the time a
  socket takes to connect (`WebSocketTracker`). WebRTC itself is external: a peer fails or gets
  ready at any time, or never.
* The interval timer of a WebSocket tracker in `WebSocketTracker`: announces are possible at
  any time anyway; `OfferExchange` has its announces after `stop()`.
* The merging of announce options and the removal of duplicate URLs in `client.js`; the
  statistics page's text; the command line (pure I/O); examples and tests.
* The hybrid client's case in which an eviction removes the very key that is being
  inserted: it depends on the order of steps inside the package `lru`.
* Expired entries and full caches in `TrackerServer`.

## 6. Plan

Done: all modules of section 2 and the proofs of section 4. Left: `TrackerServer` with caches
of their own limits, so that an eviction meets a late filter.

## 7. Running

    tlasany Swarm.tla
    tlc -workers 2 -config Swarm.cfg MCSwarm
    tlapm SwarmProofs.tla
    tlapm --stretch 3 ServerProofs.tla     (on a slow machine)
