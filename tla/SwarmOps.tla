------------------------------ MODULE SwarmOps ------------------------------
(***************************************************************************)
(* One torrent's swarm as the tracker server keeps it                      *)
(* (lib/server/swarm.js): an LRU cache of peers, the two counters the      *)
(* tracker reports, and, for WebSocket peers, the back reference from the  *)
(* socket to the swarm.                                                    *)
(*                                                                         *)
(* A swarm is a record                                                     *)
(*   cache      what the LRU holds under a key, NoPeer where it holds      *)
(*              nothing (swarm.peers)                                      *)
(*   order      the cached keys, least recently used first                 *)
(*   stale      the cached keys whose entry is older than maxAge           *)
(*   complete, incomplete                                                  *)
(*              the seeder and leecher counters                            *)
(*   listed     the open sockets whose `infoHashes` array names this swarm *)
(*                                                                         *)
(* Every handler is a function from a swarm to a swarm, because the LRU    *)
(* calls back into the swarm ('evict') in the middle of other handlers.    *)
(* The module declares no variables: Swarm and TrackerServer use it.       *)
(***************************************************************************)
EXTENDS Integers, Sequences, FiniteSets, SequencesExt

CONSTANTS
    PeerId,      \* 20-byte peer ids (as hex)
    Addr,        \* "ip:port" strings
    Socket,      \* WebSocket connections
    NoSocket,    \* the absent `socket` of an HTTP or UDP peer
    NoPeer,      \* `undefined`, what LRU.get returns for a missing key
    MaxPeers     \* peersCacheLength

Type == {"http", "udp", "ws"}
Event == {"started", "stopped", "completed", "update", "paused"}

(* LRU keys: a peer id for a WebSocket peer, an address for the others.    *)
Key == PeerId \cup Addr

(* What the swarm stores for a peer. ip and port only matter for the wire  *)
(* format of a reply and are left out.                                     *)
Peer == [type : Type, complete : BOOLEAN, peerId : PeerId,
         socket : Socket \cup {NoSocket}]

ASSUME SwarmAssumption ==
    /\ PeerId \cap Addr = {}
    /\ IsFiniteSet(PeerId \cup Addr)
    /\ NoSocket \notin Socket
    /\ NoPeer \notin Peer
    /\ MaxPeers \in Nat \ {0}

(* The parameters of a request that identify the peer that sends it.       *)
Endpoints == {p \in [type : Type, peer_id : PeerId, addr : Addr,
                     socket : Socket \cup {NoSocket}] :
                 (p.type = "ws") <=> (p.socket # NoSocket)}

Swarms == [cache : [Key -> Peer \cup {NoPeer}], order : Seq(Key),
           stale : SUBSET Key, complete : Int, incomplete : Int,
           listed : SUBSET Socket]

IsPeer(x) == x # NoPeer
Members(s) == {k \in Key : IsPeer(s.cache[k])}
Seeders(s) == {k \in Members(s) : s.cache[k].complete}
Leechers(s) == {k \in Members(s) : ~s.cache[k].complete}

NewSwarm == [cache |-> [k \in Key |-> NoPeer], order |-> <<>>, stale |-> {},
             complete |-> 0, incomplete |-> 0, listed |-> {}]

KeyOf(p) == IF p.type = "ws" THEN p.peer_id ELSE p.addr

-----------------------------------------------------------------------------
(***************************************************************************)
(* The LRU cache (package "lru"), as swarm.js uses it.                     *)
(***************************************************************************)

Drop(s, k) ==
    [s EXCEPT !.cache[k] = NoPeer,
              !.order = RemoveFirst(@, k),
              !.stale = @ \ {k}]

Touch(s, k) == [s EXCEPT !.order = Append(RemoveFirst(@, k), k)]

(***************************************************************************)
(* _onAnnounceStopped for a peer that is in the swarm. A destroyed socket  *)
(* is never in `listed`, so the code's guard on socket.destroyed is        *)
(* implied. The cache entry removed is the one under `id`, which need not  *)
(* be the entry of `peer`: see Evict.                                      *)
(***************************************************************************)
Stop(s, peer, id) ==
    Drop([s EXCEPT !.complete = IF peer.complete THEN @ - 1 ELSE @,
                      !.incomplete = IF peer.complete THEN @ ELSE @ - 1,
                      !.listed = @ \ {peer.socket}],
            id)

(* Mutant of Evict: the swarm does not listen to 'evict'.                  *)
EvictUnheard(s, k) == Drop(s, k)

(***************************************************************************)
(* The LRU drops the entry under k, then emits 'evict'; the listener sends *)
(* a synthetic `stopped` for the entry, under its peer id.                 *)
(***************************************************************************)
Evict(s, k) == Stop(Drop(s, k), s.cache[k], s.cache[k].peerId)

Peek(s, k) == IF k \in s.stale THEN Evict(s, k) ELSE s

Get(s, k) ==
    IF IsPeer(s.cache[k]) /\ k \notin s.stale THEN Touch(s, k) ELSE Peek(s, k)

(* Mutant of Put: the capacity check is off by one.                        *)
PutOneTooMany(s, k, peer) ==
    LET full == ~IsPeer(s.cache[k]) /\ Len(s.order) > MaxPeers
        room == IF full THEN Evict(s, Head(s.order)) ELSE s
    IN  Touch([room EXCEPT !.cache[k] = peer, !.stale = @ \ {k}], k)

(* Mutant of Put: the most recently used entry makes room.                 *)
PutEvictsNewest(s, k, peer) ==
    LET full == ~IsPeer(s.cache[k]) /\ Len(s.order) = MaxPeers
        room == IF full THEN Evict(s, s.order[MaxPeers]) ELSE s
    IN  Touch([room EXCEPT !.cache[k] = peer, !.stale = @ \ {k}], k)

Put(s, k, peer) ==
    LET full == ~IsPeer(s.cache[k]) /\ Len(s.order) = MaxPeers
        room == IF full THEN Evict(s, Head(s.order)) ELSE s
    IN  Touch([room EXCEPT !.cache[k] = peer, !.stale = @ \ {k}], k)

-----------------------------------------------------------------------------
(***************************************************************************)
(* The announce handlers. `done` stands for params.left === 0. Each event  *)
(* of a peer that is not in the swarm, `stopped` apart, is treated as      *)
(* `started`, and `started` of a peer that is in it as `update`.           *)
(***************************************************************************)

Join(s, p, done) ==
    Put([s EXCEPT !.complete = IF done THEN @ + 1 ELSE @,
                  !.incomplete = IF done THEN @ ELSE @ + 1],
        KeyOf(p),
        [type |-> p.type, complete |-> done, peerId |-> p.peer_id,
         socket |-> p.socket])

(* Mutant of Finish: the peer is also still counted as a leecher.          *)
FinishCountsTwice(s, k) ==
    Put([s EXCEPT !.complete = @ + 1],
        k, [s.cache[k] EXCEPT !.complete = TRUE])

(* complete += 1, incomplete -= 1, peer.complete = true                    *)
Finish(s, k) ==
    Put([s EXCEPT !.complete = @ + 1, !.incomplete = @ - 1],
        k, [s.cache[k] EXCEPT !.complete = TRUE])

(* Mutant of Refresh: a seeder with something left is a leecher again.     *)
RefreshDemotes(s, k, done) ==
    IF done = s.cache[k].complete THEN Put(s, k, s.cache[k])
    ELSE IF done THEN Finish(s, k)
    ELSE Put([s EXCEPT !.complete = @ - 1, !.incomplete = @ + 1],
             k, [s.cache[k] EXCEPT !.complete = FALSE])

Refresh(s, k, done) ==
    IF done /\ ~s.cache[k].complete THEN Finish(s, k) ELSE Put(s, k, s.cache[k])

Handle(s, p, event, done) ==
    LET k == KeyOf(p)
        inSwarm == IsPeer(s.cache[k])
    IN  CASE event \notin Event -> s
          [] event = "stopped" -> IF inSwarm THEN Stop(s, s.cache[k], k) ELSE s
          [] event \in Event \ {"stopped"} /\ ~inSwarm -> Join(s, p, done)
          [] event = "completed" /\ inSwarm -> Refresh(s, k, TRUE)
          [] OTHER -> Refresh(s, k, done)

(* Swarm.announce up to the reply.                                         *)
Announce(s, p, event, done) == Handle(Get(s, KeyOf(p)), p, event, done)

(* _onWebSocketClose for one swarm: `stopped` for the socket's peer id.    *)
Leave(s, id) ==
    LET g == Get(s, id)
    IN  IF IsPeer(g.cache[id]) THEN Stop(g, g.cache[id], id) ELSE g

(* Which peers _getPeers may hand to a requester.                          *)
Eligible(peer, p) ==
    IF p.type = "ws" THEN peer.type = "ws" /\ peer.peerId # p.peer_id
                     ELSE peer.type # "ws"
=============================================================================
