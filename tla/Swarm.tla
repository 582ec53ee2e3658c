------------------------------- MODULE Swarm -------------------------------
(***************************************************************************)
(* The swarm of one torrent, driven by announces of HTTP, UDP and          *)
(* WebSocket peers, by closing WebSockets, by cache entries growing old    *)
(* and by the /stats page.                                                 *)
(*                                                                         *)
(* The server is one JavaScript thread, so a handler runs to its end       *)
(* before the next one starts. An announce first updates the cache and     *)
(* reads the counters, then collects the peers of its reply one LRU.peek   *)
(* at a time, in random order, and each peek may evict. That loop is       *)
(* modelled step by step: while `loop` is busy no other handler runs.      *)
(***************************************************************************)
EXTENDS SwarmOps

CONSTANTS
    Endpoint,    \* the peers that announce, a subset of Endpoints
    NumWant,     \* the numbers of peers a request may ask for
    NoId         \* a socket that has announced no peer id yet

ASSUME EndpointAssumption ==
    /\ Endpoint \subseteq Endpoints
    /\ NumWant \subseteq Nat
    /\ NoId \notin PeerId

VARIABLES
    swarm,   \* the swarm, see SwarmOps
    closed,  \* sockets whose close (or error) the server has handled
    owner,   \* socket.peerId: the first peer id announced on the socket
    loop     \* the running handler: the keys it has still to peek, the
             \* request it answers, the peers it has picked

vars == <<swarm, closed, owner, loop>>

Idle == [run |-> "idle"]
Answering(p, want, todo) ==
    [run |-> "announce", by |-> p, want |-> want, todo |-> todo, got |-> {}]
Counting(todo) == [run |-> "stats", todo |-> todo]

Init ==
    /\ swarm = NewSwarm
    /\ closed = {}
    /\ owner = [s \in Socket |-> NoId]
    /\ loop = Idle

(***************************************************************************)
(* An announce. onWebSocketRequest first takes the peer id of the socket's *)
(* first message as the socket's own. An unknown event is answered with an *)
(* error once LRU.get has run.                                             *)
(***************************************************************************)
AnnounceRequest(p, event, done, want) ==
    /\ loop = Idle
    /\ p.socket \notin closed
    /\ swarm' = Announce(swarm, p, event, done)
    /\ owner' = IF p.type = "ws" /\ owner[p.socket] = NoId
                THEN [owner EXCEPT ![p.socket] = p.peer_id]
                ELSE owner
    /\ loop' = IF event \in Event
               THEN Answering(p, want, Members(swarm'))
               ELSE Idle
    /\ UNCHANGED closed

(* Mutant of PickPeer: the peer is read before the peek that may evict it. *)
PickBeforePeek(k) ==
    /\ loop.run = "announce"
    /\ k \in loop.todo
    /\ Cardinality(loop.got) < loop.want
    /\ LET picked == IsPeer(swarm.cache[k]) /\ Eligible(swarm.cache[k], loop.by)
       IN  /\ swarm' = Peek(swarm, k)
           /\ loop' = [loop EXCEPT !.todo = @ \ {k},
                                   !.got = IF picked THEN @ \cup {k} ELSE @]
    /\ UNCHANGED <<closed, owner>>

(* Mutant of PickPeer: UDP peers are kept from HTTP peers and vice versa.  *)
PickSameType(k) ==
    /\ loop.run = "announce"
    /\ k \in loop.todo
    /\ Cardinality(loop.got) < loop.want
    /\ LET s == Peek(swarm, k)
           picked == /\ IsPeer(s.cache[k])
                     /\ Eligible(s.cache[k], loop.by)
                     /\ s.cache[k].type = loop.by.type
       IN  /\ swarm' = s
           /\ loop' = [loop EXCEPT !.todo = @ \ {k},
                                   !.got = IF picked THEN @ \cup {k} ELSE @]
    /\ UNCHANGED <<closed, owner>>

(* One turn of the loop in _getPeers.                                      *)
PickPeer(k) ==
    /\ loop.run = "announce"
    /\ k \in loop.todo
    /\ Cardinality(loop.got) < loop.want
    /\ LET s == Peek(swarm, k)
           picked == IsPeer(s.cache[k]) /\ Eligible(s.cache[k], loop.by)
       IN  /\ swarm' = s
           /\ loop' = [loop EXCEPT !.todo = @ \ {k},
                                   !.got = IF picked THEN @ \cup {k} ELSE @]
    /\ UNCHANGED <<closed, owner>>

PickingDone == loop.todo = {} \/ Cardinality(loop.got) >= loop.want

(* Mutant of Reply: requests without a socket are listed, too.             *)
ReplyListsAll ==
    /\ loop.run = "announce"
    /\ PickingDone
    /\ swarm' = [swarm EXCEPT !.listed = @ \cup {loop.by.socket}]
    /\ loop' = Idle
    /\ UNCHANGED <<closed, owner>>

(* Mutant of Reply: the socket does not remember the swarm.                *)
ReplyUnlisted ==
    /\ loop.run = "announce"
    /\ PickingDone
    /\ loop' = Idle
    /\ UNCHANGED <<swarm, closed, owner>>

(* The reply leaves. The server adds the swarm to the socket's infoHashes. *)
Reply ==
    /\ loop.run = "announce"
    /\ PickingDone
    /\ swarm' = IF loop.by.type = "ws"
                THEN [swarm EXCEPT !.listed = @ \cup {loop.by.socket}]
                ELSE swarm
    /\ loop' = Idle
    /\ UNCHANGED <<closed, owner>>

(***************************************************************************)
(* The answer to a WebRTC offer is relayed: the destination is looked up   *)
(* with LRU.get, which makes it the most recently used peer.               *)
(***************************************************************************)
RelayAnswer(toPeerId) ==
    /\ loop = Idle
    /\ swarm' = Get(swarm, toPeerId)
    /\ UNCHANGED <<closed, owner, loop>>

(* Mutant of CloseSocket: infoHashes is dropped before it is walked.       *)
CloseForgets(s) ==
    /\ loop = Idle
    /\ s \notin closed
    /\ closed' = closed \cup {s}
    /\ swarm' = [swarm EXCEPT !.listed = @ \ {s}]
    /\ owner' = [owner EXCEPT ![s] = NoId]
    /\ UNCHANGED loop

(***************************************************************************)
(* _onWebSocketClose: if the socket announced a peer id and its infoHashes *)
(* names this swarm, that peer is stopped. infoHashes is then dropped.     *)
(***************************************************************************)
CloseSocket(s) ==
    /\ loop = Idle
    /\ s \notin closed
    /\ closed' = closed \cup {s}
    /\ LET left == IF owner[s] # NoId /\ s \in swarm.listed
                   THEN Leave(swarm, owner[s]) ELSE swarm
       IN  swarm' = [left EXCEPT !.listed = @ \ {s}]
    /\ owner' = [owner EXCEPT ![s] = NoId]
    /\ UNCHANGED loop

(* Time passes: the entry under k is now older than maxAge.                *)
GrowOld(k) ==
    /\ loop = Idle
    /\ k \in Members(swarm) \ swarm.stale
    /\ swarm' = [swarm EXCEPT !.stale = @ \cup {k}]
    /\ UNCHANGED <<closed, owner, loop>>

(* GET /stats peeks at every peer.                                         *)
StatsRequest ==
    /\ loop = Idle
    /\ loop' = Counting(Members(swarm))
    /\ UNCHANGED <<swarm, closed, owner>>

CountPeer(k) ==
    /\ loop.run = "stats"
    /\ k \in loop.todo
    /\ swarm' = Peek(swarm, k)
    /\ loop' = [loop EXCEPT !.todo = @ \ {k}]
    /\ UNCHANGED <<closed, owner>>

StatsReply ==
    /\ loop.run = "stats"
    /\ loop.todo = {}
    /\ loop' = Idle
    /\ UNCHANGED <<swarm, closed, owner>>

Next ==
    \/ \E p \in Endpoint, event \in Event \cup {"unknown"}, done \in BOOLEAN,
          want \in NumWant : AnnounceRequest(p, event, done, want)
    \/ \E k \in Key : PickPeer(k) \/ GrowOld(k) \/ CountPeer(k)
    \/ Reply
    \/ \E id \in PeerId : RelayAnswer(id)
    \/ \E s \in Socket : CloseSocket(s)
    \/ StatsRequest
    \/ StatsReply

Spec == Init /\ [][Next]_vars

-----------------------------------------------------------------------------
(***************************************************************************)
(* What the deployment looks like. A hybrid client announces one peer id   *)
(* both over WebSocket and over HTTP or UDP; the clients of one page share *)
(* a socket, on which each announces a peer id of its own.                 *)
(***************************************************************************)
NoHybrid ==
    \A p, q \in Endpoint :
        p.type = "ws" /\ q.type # "ws" => p.peer_id # q.peer_id

NoShared ==
    \A p, q \in Endpoint :
        p.type = "ws" /\ p.socket = q.socket => p.peer_id = q.peer_id

(***************************************************************************)
(* Invariants.                                                             *)
(***************************************************************************)

Loops == {Idle}
         \cup [run : {"announce"}, by : Endpoint, want : NumWant,
               todo : SUBSET Key, got : SUBSET Key]
         \cup [run : {"stats"}, todo : SUBSET Key]

(* The types of the variables.                                             *)
TypeOK ==
    /\ swarm \in Swarms
    /\ closed \subseteq Socket
    /\ owner \in [Socket -> PeerId \cup {NoId}]
    /\ loop \in Loops

(* The recency list holds each cached key once, and never more than        *)
(* MaxPeers of them, whatever evictions other handlers run into.           *)
CacheOrdered ==
    /\ {swarm.order[i] : i \in DOMAIN swarm.order} = Members(swarm)
    /\ \A i, j \in DOMAIN swarm.order :
          swarm.order[i] = swarm.order[j] => i = j
    /\ Len(swarm.order) <= MaxPeers
    /\ swarm.stale \subseteq Members(swarm)

(* A WebSocket peer is cached under its peer id, any other peer under an   *)
(* address, and no WebSocket client shares the peer id of one of those: so *)
(* the evict listener, which removes the entry under the evicted peer's    *)
(* peer id, can only mean the entry that is already gone.                  *)
WsPeerIds == {p.peer_id : p \in {q \in Endpoint : q.type = "ws"}}
Fits(k, peer) ==
    IF peer.type = "ws" THEN k = peer.peerId /\ k \in WsPeerIds
                        ELSE k \in Addr /\ peer.peerId \notin WsPeerIds
KeysFit == \A k \in Members(swarm) : Fits(k, swarm.cache[k])

(* swarm.complete and swarm.incomplete, which every announce and scrape    *)
(* reply reports, count the seeders and the leechers that are cached.      *)
CountsMatch ==
    /\ swarm.complete = Cardinality(Seeders(swarm))
    /\ swarm.incomplete = Cardinality(Leechers(swarm))

(* No peer outlives its WebSocket: when the server has handled the close   *)
(* of a socket, no entry of the swarm refers to it, so no offer or answer  *)
(* is sent to it.                                                          *)
NoGhost ==
    \A k \in Members(swarm) : swarm.cache[k].socket \notin closed

(* Between two handlers, the open socket of a WebSocket member names the   *)
(* swarm in its infoHashes, which is how the close handler finds members.  *)
MemberListed ==
    loop = Idle =>
        \A k \in Members(swarm) :
            swarm.cache[k].type = "ws" =>
                swarm.cache[k].socket \in swarm.listed \cup closed

(* The peers picked for a reply are still in the swarm when it leaves,     *)
(* although the loop that picks them evicts: a WebSocket peer gets others  *)
(* with an open socket and never itself, the rest get no WebSocket peer.   *)
PickedAreUsable ==
    loop.run = "announce" =>
        \A k \in loop.got :
            /\ IsPeer(swarm.cache[k])
            /\ Eligible(swarm.cache[k], loop.by)
            /\ loop.by.type = "ws" => swarm.cache[k].socket \notin closed

(* A reply holds fewer peers than were asked for only if it holds all the  *)
(* peers that its requester may have.                                      *)
ReplyComplete ==
    loop.run = "announce" /\ PickingDone /\ Cardinality(loop.got) < loop.want =>
        loop.got = {k \in Members(swarm) : Eligible(swarm.cache[k], loop.by)}

-----------------------------------------------------------------------------
(***************************************************************************)
(* Action properties.                                                      *)
(***************************************************************************)

(* A seeder is never counted as a leecher again while its entry lives,     *)
(* whatever `left` it announces later.                                     *)
SeederStays ==
    [][\A k \in Seeders(swarm) \ swarm.stale :
          k \in Members(swarm)' => k \in Seeders(swarm)']_vars

(* A fresh member is removed only by an announce under its own key, by the *)
(* close of a socket that belongs to it, or as the least recently used     *)
(* member of a full swarm. No traffic of others can push it out earlier.   *)
RemovedForCause ==
    [][\A k \in Members(swarm) \ swarm.stale :
          k \notin Members(swarm)' =>
             \/ loop'.run = "announce" /\ KeyOf(loop'.by) = k
             \/ \E s \in closed' \ closed : owner[s] = k
             \/ k = Head(swarm.order) /\ Len(swarm.order) = MaxPeers]_vars

(* The registry of seeders and leechers that a swarm stands for.           *)
RoleOf(x) == IF ~IsPeer(x) THEN "absent"
             ELSE IF x.complete THEN "seeder" ELSE "leecher"
Roles(s) == [k \in Key |-> RoleOf(s.cache[k])]

Registry == INSTANCE PeerRegistry WITH
    Keys <- Key, MaxPresent <- MaxPeers, role <- Roles(swarm),
    complete <- swarm.complete, incomplete <- swarm.incomplete

(* Seen from the counters and the roles, every handler is one legal step   *)
(* of the registry: evictions inside it leave no trace of their own.       *)
ImplementsRegistry == Registry!Spec
=============================================================================
