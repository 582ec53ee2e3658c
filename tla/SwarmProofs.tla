---------------------------- MODULE SwarmProofs ----------------------------
(***************************************************************************)
(* Proofs about Swarm, for every number of peers, addresses and sockets,   *)
(* every cache length and every set of endpoints without a hybrid client.  *)
(*                                                                         *)
(* The handlers of SwarmOps are composed of a few small functions, some of *)
(* which leave the counters ahead of the cache for a moment. Sound(s, a, b)*)
(* says of a swarm s all that the invariant says, except that its counters *)
(* are ahead by a and b; each function has a lemma on how it moves them,   *)
(* and on what it does to the cache and to the list of sockets. The        *)
(* invariants about sockets and replies, the action properties and the     *)
(* refinement follow from those lemmas.                                    *)
(***************************************************************************)
EXTENDS Swarm, SwarmOpsProofs

-----------------------------------------------------------------------------
(***************************************************************************)
(* The inductive invariant, as a predicate on swarms. In the middle of a   *)
(* handler the counters run ahead of the cache, by c and i.                *)
(***************************************************************************)
Fitting(s) == \A k \in Members(s) : Fits(k, s.cache[k])

Ahead(s, c, i) ==
    /\ s.complete = Cardinality(Seeders(s)) + c
    /\ s.incomplete = Cardinality(Leechers(s)) + i

Sound(s, c, i) == Sane(s) /\ Fitting(s) /\ Ahead(s, c, i)

LEMMA WithoutSound ==
    ASSUME NEW s, NEW t, NEW c \in Int, NEW i \in Int, NEW k \in Members(s),
           Sound(s, c, i), Without(s, k, t)
    PROVE  Sound(t, c, i) /\ Members(t) = Members(s) \ {k}
<1>1. /\ s \in Swarms /\ t \in Swarms /\ k \in Key
      /\ s.cache \in [Key -> Peer \cup {NoPeer}]
      /\ s.cache[k] \in Peer
      /\ t.cache = [s.cache EXCEPT ![k] = NoPeer]
  BY DEF Sound, Sane, Without, Swarms, Members, IsPeer
<1>2. /\ Members(t) = Members(s) \ {k}
      /\ Cardinality(Seeders(t)) = Cardinality(Seeders(s))
                                     - (IF k \in Seeders(s) THEN 1 ELSE 0)
      /\ Cardinality(Leechers(t)) = Cardinality(Leechers(s))
                                     - (IF k \in Leechers(s) THEN 1 ELSE 0)
  <2>1. NoPeer \in Peer \cup {NoPeer}
    OBVIOUS
  <2>2. /\ Cardinality(Seeders(s)) \in Nat
        /\ Cardinality(Leechers(s)) \in Nat
    BY RolesFinite, FS_CardinalityType
  <2>3. /\ Members(t) = Members(s) \ {k}
        /\ Cardinality(Seeders(t)) = Cardinality(Seeders(s)) + 0
                                       - (IF k \in Seeders(s) THEN 1 ELSE 0)
        /\ Cardinality(Leechers(t)) = Cardinality(Leechers(s)) + 0
                                       - (IF k \in Leechers(s) THEN 1 ELSE 0)
    BY <1>1, <2>1, RoleChange
  <2> QED
    BY <2>2, <2>3
<1>3. /\ k \in Seeders(s) <=> s.cache[k].complete
      /\ k \in Leechers(s) <=> ~s.cache[k].complete
  BY DEF Seeders, Leechers
<1>4. Ahead(t, c, i)
  <2>1. /\ Cardinality(Seeders(s)) \in Nat
        /\ Cardinality(Leechers(s)) \in Nat
    BY RolesFinite, FS_CardinalityType
  <2>2. /\ s.complete = Cardinality(Seeders(s)) + c
        /\ s.incomplete = Cardinality(Leechers(s)) + i
        /\ t.complete = s.complete - (IF k \in Seeders(s) THEN 1 ELSE 0)
        /\ t.incomplete = s.incomplete - (IF k \in Leechers(s) THEN 1 ELSE 0)
    BY <1>3 DEF Ahead, Without, Sound
  <2> DEFINE p == IF k \in Seeders(s) THEN 1 ELSE 0
             q == IF k \in Leechers(s) THEN 1 ELSE 0
  <2>3. p \in Int /\ q \in Int /\ s.complete \in Int /\ s.incomplete \in Int
    BY <1>1 DEF Swarms
  <2>4. /\ Cardinality(Seeders(t)) = Cardinality(Seeders(s)) - p
        /\ Cardinality(Leechers(t)) = Cardinality(Leechers(s)) - q
        /\ t.complete = s.complete - p
        /\ t.incomplete = s.incomplete - q
    BY <1>2, <2>2
  <2> HIDE DEF p, q
  <2> QED
    BY <2>1, <2>2, <2>3, <2>4 DEF Ahead
<1>5. Fitting(t)
  BY <1>1, <1>2 DEF Fitting, Sound
<1> QED
  BY <1>2, <1>4, <1>5 DEF Sound, Without

(* Evicting k also removes the entry under the peer id of k's peer. There  *)
(* is none: this is where hybrid clients would do harm.                    *)
LEMMA EvictWithout ==
    ASSUME NEW s, Sane(s), Fitting(s), NEW k \in Members(s)
    PROVE  Without(s, k, Evict(s, k))
<1> DEFINE peer == s.cache[k]
           id == peer.peerId
           d == Drop(s, k)
           c == IF peer.complete THEN d.complete - 1 ELSE d.complete
           i == IF peer.complete THEN d.incomplete ELSE d.incomplete - 1
           l == d.listed \ {peer.socket}
           u == [d EXCEPT !.complete = c, !.incomplete = i, !.listed = l]
<1>1. /\ k \in Key /\ peer \in Peer /\ id \in PeerId /\ id \in Key
      /\ s \in Swarms /\ Ordered(s)
      /\ s.cache \in [Key -> Peer \cup {NoPeer}]
  BY DEF Sane, Members, IsPeer, Swarms, Peer, Key
<1>2. /\ d \in Swarms
      /\ Ordered(d)
      /\ d.cache = [s.cache EXCEPT ![k] = NoPeer]
      /\ d.complete = s.complete
      /\ d.incomplete = s.incomplete
      /\ d.stale = s.stale \ {k} /\ d.listed = s.listed
      /\ Len(d.order) = Len(s.order) - 1
  BY <1>1, DropFacts
<1>3. /\ u \in Swarms
      /\ u.cache = d.cache /\ u.order = d.order
      /\ u.complete = s.complete - (IF peer.complete THEN 1 ELSE 0)
      /\ u.incomplete = s.incomplete - (IF peer.complete THEN 0 ELSE 1)
      /\ u.stale = s.stale \ {k} /\ u.listed = s.listed \ {peer.socket}
      /\ Members(u) = Members(d)
      /\ Ordered(u)
  <2> HIDE DEF d
  <2>1. /\ c \in Int /\ i \in Int /\ l \in SUBSET Socket
        /\ c = s.complete - (IF peer.complete THEN 1 ELSE 0)
        /\ i = s.incomplete - (IF peer.complete THEN 0 ELSE 1)
        /\ l = s.listed \ {peer.socket}
    BY <1>1, <1>2 DEF Swarms
  <2> HIDE DEF c, i, l, peer
  <2>2. /\ u \in Swarms
        /\ u.cache = d.cache /\ u.order = d.order /\ u.stale = d.stale
        /\ u.complete = c /\ u.incomplete = i /\ u.listed = l
    BY <1>2, <2>1 DEF Swarms
  <2> HIDE DEF u
  <2>3. Members(u) = Members(d)
    BY <2>2 DEF Members
  <2>4. Ordered(u)
    BY <1>2, <2>2, <2>3 DEF Ordered
  <2> QED
    BY <1>2, <2>1, <2>2, <2>3, <2>4
<1>4. Evict(s, k) = Drop(u, id)
  BY DEF Evict, Stop
<1>5. d.cache[id] = NoPeer
  <2>1. CASE peer.type = "ws"
    BY <1>1, <1>2, <2>1 DEF Fitting, Fits
  <2>2. CASE peer.type # "ws"
    <3>1. k \in Addr /\ id \notin WsPeerIds
      BY <2>2 DEF Fitting, Fits
    <3>2. ASSUME id \in Members(s)
          PROVE  FALSE
      <4>1. Fits(id, s.cache[id])
        BY <3>2 DEF Fitting
      <4>2. id \notin Addr
        BY <1>1, SwarmAssumption
      <4> QED
        BY <3>1, <4>1, <4>2 DEF Fits
    <3>3. s.cache[id] = NoPeer
      BY <1>1, <3>2 DEF Members, IsPeer
    <3> QED
      BY <1>1, <1>2, <3>3
  <2> QED
    BY <2>1, <2>2
<1> HIDE DEF d, u, id, peer
<1>6. id \notin Members(u)
  BY <1>3, <1>5 DEF Members, IsPeer
<1>7. [u.cache EXCEPT ![id] = NoPeer] = u.cache
  BY <1>1, <1>3, <1>5 DEF Swarms
<1>8. /\ Drop(u, id) \in Swarms
      /\ Ordered(Drop(u, id))
      /\ Drop(u, id).cache = u.cache
      /\ Drop(u, id).complete = u.complete
      /\ Drop(u, id).incomplete = u.incomplete
      /\ Drop(u, id).order = u.order
      /\ Drop(u, id).stale = u.stale /\ Drop(u, id).listed = u.listed
  <2> DEFINE e == Drop(u, id)
  <2>1. u.stale \ {id} = u.stale
    BY <1>3, <1>6 DEF Ordered
  <2>2. /\ e \in Swarms
        /\ Ordered(e)
        /\ e.cache = [u.cache EXCEPT ![id] = NoPeer]
        /\ e.complete = u.complete
        /\ e.incomplete = u.incomplete
        /\ e.order = u.order
        /\ e.stale = u.stale \ {id}
        /\ e.listed = u.listed
    <3>1. id \in Key /\ u \in Swarms /\ Ordered(u) /\ id \notin Members(u)
      BY <1>1, <1>3, <1>6
    <3> QED
      BY <3>1, DropFacts
  <2> HIDE DEF e
  <2>3. /\ e.cache = u.cache /\ e.stale = u.stale
    BY <1>7, <2>1, <2>2
  <2> QED
    BY <2>2, <2>3 DEF e
<1> QED
  BY <1>2, <1>3, <1>4, <1>8 DEF Without, Sane, peer

LEMMA EvictSound ==
    ASSUME NEW s, NEW c \in Int, NEW i \in Int, Sound(s, c, i),
           NEW k \in Members(s)
    PROVE  /\ Sound(Evict(s, k), c, i)
           /\ Without(s, k, Evict(s, k))
           /\ Members(Evict(s, k)) = Members(s) \ {k}
<1>1. Without(s, k, Evict(s, k))
  BY EvictWithout DEF Sound
<1> QED
  BY <1>1, WithoutSound

LEMMA StopSound ==
    ASSUME NEW s, NEW c \in Int, NEW i \in Int, Sound(s, c, i),
           NEW k \in Members(s)
    PROVE  /\ Sound(Stop(s, s.cache[k], k), c, i)
           /\ Without(s, k, Stop(s, s.cache[k], k))
<1>1. Without(s, k, Stop(s, s.cache[k], k))
  BY StopWithout DEF Sound
<1> QED
  BY <1>1, WithoutSound

LEMMA WithSound ==
    ASSUME NEW s, NEW t, NEW c \in Int, NEW i \in Int, Sound(s, c, i),
           NEW k \in Key, NEW x \in Peer, Fits(k, x), With(s, k, x, t)
    PROVE  Sound(t, c - (IF x.complete THEN 1 ELSE 0)
                      + (IF k \in Seeders(s) THEN 1 ELSE 0),
                    i - (IF ~x.complete THEN 1 ELSE 0)
                      + (IF k \in Leechers(s) THEN 1 ELSE 0))
<1> DEFINE a == IF x.complete THEN 1 ELSE 0
           b == IF ~x.complete THEN 1 ELSE 0
           p == IF k \in Seeders(s) THEN 1 ELSE 0
           q == IF k \in Leechers(s) THEN 1 ELSE 0
<1>1. /\ s \in Swarms /\ t \in Swarms
      /\ s.cache \in [Key -> Peer \cup {NoPeer}]
      /\ t.cache = [s.cache EXCEPT ![k] = x]
      /\ x \in Peer \cup {NoPeer} /\ x # NoPeer
  BY SwarmAssumption DEF Sound, Sane, With, Swarms
<1>2. /\ Members(t) = Members(s) \cup {k}
      /\ Cardinality(Seeders(t)) = Cardinality(Seeders(s)) + a - p
      /\ Cardinality(Leechers(t)) = Cardinality(Leechers(s)) + b - q
  BY <1>1, RoleChange
<1>3. a \in Int /\ b \in Int /\ p \in Int /\ q \in Int
  OBVIOUS
<1>4. /\ Cardinality(Seeders(s)) \in Nat
      /\ Cardinality(Leechers(s)) \in Nat
  BY RolesFinite, FS_CardinalityType
<1>5. /\ t.complete = Cardinality(Seeders(s)) + c
      /\ t.incomplete = Cardinality(Leechers(s)) + i
  BY DEF Sound, Ahead, With
<1>6. Fitting(t)
  BY <1>1, <1>2 DEF Fitting, Sound
<1> HIDE DEF a, b, p, q
<1>7. Ahead(t, c - a + p, i - b + q)
  BY <1>2, <1>3, <1>4, <1>5 DEF Ahead
<1>8. Sound(t, c - a + p, i - b + q)
  BY <1>6, <1>7 DEF Sound, With
<1> QED
  BY <1>8 DEF a, b, p, q

(* LRU.set, which evicts the least recently used key of a full cache.      *)
LEMMA PutFull ==
    ASSUME NEW s, NEW c \in Int, NEW i \in Int, Sound(s, c, i),
           NEW k \in Key, k \notin Members(s), Len(s.order) = MaxPeers,
           NEW peer \in Peer
    PROVE  \E room : /\ Sound(room, c, i)
                     /\ Head(s.order) \in Members(s)
                     /\ Without(s, Head(s.order), room)
                     /\ k \notin Members(room)
                     /\ With(room, k, peer, Put(s, k, peer))
<1> DEFINE t == Put(s, k, peer)
           v == Head(s.order)
           room == Evict(s, v)
<1>1. /\ s \in Swarms /\ Ordered(s) /\ Sane(s)
      /\ s.order \in Seq(Key) /\ Len(s.order) \in Nat
      /\ MaxPeers \in Nat \ {0}
      /\ ~IsPeer(s.cache[k])
  BY SwarmAssumption DEF Sound, Sane, Swarms, Members
<1>2. v \in Members(s)
  <2>1. s.order # <<>> /\ 1 \in DOMAIN s.order /\ Head(s.order) = s.order[1]
    BY <1>1
  <2> QED
    BY <1>1, <2>1 DEF Ordered, Elements
<1>3. /\ Sound(room, c, i)
      /\ Without(s, v, room)
      /\ Members(room) = Members(s) \ {v}
  BY <1>2, EvictSound
<1>4. t = Put(s, k, peer) /\ Put(s, k, peer) =
        Touch([room EXCEPT !.cache[k] = peer, !.stale = @ \ {k}], k)
  BY <1>1 DEF Put
<1> HIDE DEF room, v, t
<1>5. /\ Sane(room) /\ k \notin Members(room) /\ room \in Swarms
      /\ Len(room.order) < MaxPeers /\ Len(room.order) # MaxPeers
      /\ ~IsPeer(room.cache[k])
  BY <1>1, <1>3 DEF Without, Sane, Members
<1>6. t = Put(room, k, peer)
  BY <1>4, <1>5 DEF Put
<1>7. With(room, k, peer, t)
  BY <1>5, <1>6, PutWith
<1> QED
  BY <1>2, <1>3, <1>5, <1>7 DEF v, t

LEMMA PutSound ==
    ASSUME NEW s, NEW c \in Int, NEW i \in Int, Sound(s, c, i),
           NEW k \in Key, NEW peer \in Peer, Fits(k, peer)
    PROVE  Sound(Put(s, k, peer),
                 c - (IF peer.complete THEN 1 ELSE 0)
                   + (IF k \in Seeders(s) THEN 1 ELSE 0),
                 i - (IF ~peer.complete THEN 1 ELSE 0)
                   + (IF k \in Leechers(s) THEN 1 ELSE 0))
<1> DEFINE t == Put(s, k, peer)
<1>1. CASE k \in Members(s) \/ Len(s.order) < MaxPeers
  <2>1. With(s, k, peer, t)
    BY <1>1, PutWith DEF Sound
  <2> HIDE DEF t
  <2> QED
    BY <2>1, WithSound DEF t
<1>2. CASE ~(k \in Members(s) \/ Len(s.order) < MaxPeers)
  <2>1. k \notin Members(s) /\ Len(s.order) = MaxPeers
    BY <1>2, SwarmAssumption DEF Sound, Sane, Swarms, Ordered
  <2>2. PICK room : /\ Sound(room, c, i)
                    /\ k \notin Members(room)
                    /\ With(room, k, peer, t)
    BY <2>1, PutFull
  <2> HIDE DEF t
  <2>3. Sound(t, c - (IF peer.complete THEN 1 ELSE 0)
                   + (IF k \in Seeders(room) THEN 1 ELSE 0),
                 i - (IF ~peer.complete THEN 1 ELSE 0)
                   + (IF k \in Leechers(room) THEN 1 ELSE 0))
    BY <2>2, WithSound
  <2>4. /\ k \notin Seeders(room) /\ k \notin Leechers(room)
        /\ k \notin Seeders(s) /\ k \notin Leechers(s)
    BY <2>1, <2>2 DEF Seeders, Leechers
  <2> QED
    BY <2>3, <2>4 DEF t
<1> QED
  BY <1>1, <1>2

-----------------------------------------------------------------------------
(***************************************************************************)
(* What a handler may do to the cache and to the sockets that name the     *)
(* swarm, whatever evictions it runs into on its way.                      *)
(***************************************************************************)
Kept(s, t) == t.cache = s.cache /\ t.listed = s.listed

Lost(s, t, k) ==
    /\ k \in Members(s)
    /\ t.cache = [s.cache EXCEPT ![k] = NoPeer]
    /\ t.listed = s.listed \ {s.cache[k].socket}

Finished(s, t, k) ==
    /\ k \in Members(s)
    /\ ~s.cache[k].complete
    /\ t.cache = [s.cache EXCEPT ![k] = [s.cache[k] EXCEPT !.complete = TRUE]]
    /\ t.listed = s.listed

(* The entry has expired, and its peer comes in again.                     *)
Renewed(s, t, k, x) ==
    /\ k \in s.stale
    /\ t.cache = [s.cache EXCEPT ![k] = x]
    /\ t.listed = s.listed \ {s.cache[k].socket}

Entered(s, t, k, x) ==
    /\ k \notin Members(s)
    /\ Len(s.order) < MaxPeers
    /\ t.cache = [s.cache EXCEPT ![k] = x]
    /\ t.listed = s.listed

(* The least recently used key makes room for k.                           *)
Displaced(s, t, k, x) ==
    /\ k \notin Members(s)
    /\ Len(s.order) = MaxPeers
    /\ Head(s.order) \in Members(s)
    /\ t.cache = [[s.cache EXCEPT ![Head(s.order)] = NoPeer] EXCEPT ![k] = x]
    /\ t.listed = s.listed \ {s.cache[Head(s.order)].socket}

-----------------------------------------------------------------------------
(***************************************************************************)
(* The handlers.                                                           *)
(***************************************************************************)

LEMMA PeekSound ==
    ASSUME NEW s, Sound(s, 0, 0), NEW k
    PROVE  /\ Sound(Peek(s, k), 0, 0)
           /\ k \in s.stale => Lost(s, Peek(s, k), k)
           /\ k \notin s.stale => Peek(s, k) = s
<1>1. CASE k \in s.stale
  <2>1. k \in Members(s)
    BY <1>1 DEF Sound, Sane, Ordered
  <2>2. Peek(s, k) = Evict(s, k)
    BY <1>1 DEF Peek
  <2>3. Sound(Evict(s, k), 0, 0) /\ Without(s, k, Evict(s, k))
    BY <2>1, EvictSound
  <2> QED
    BY <1>1, <2>1, <2>2, <2>3 DEF Lost, Without
<1> QED
  BY <1>1 DEF Peek

LEMMA GetSound ==
    ASSUME NEW s, Sound(s, 0, 0), NEW k \in Key
    PROVE  LET g == Get(s, k)
           IN  /\ Sound(g, 0, 0)
               /\ k \in Members(s) \ s.stale => Kept(s, g) /\ k \in Members(g)
               /\ k \in s.stale => /\ Lost(s, g, k)
                                   /\ k \notin Members(g)
                                   /\ Len(g.order) < MaxPeers
               /\ k \notin Members(s) => g = s
<1> DEFINE g == Get(s, k)
<1>0. Sane(s)
  BY DEF Sound
<1>1. CASE k \in Members(s) \ s.stale
  <2>1. Reordered(s, g)
    BY <1>0, <1>1, GetFresh
  <2> HIDE DEF g
  <2>2. Sound(g, 0, 0)
    BY <2>1 DEF Sound, Reordered, Fitting, Ahead, Seeders, Leechers, Members
  <2>3. Kept(s, g) /\ k \in Members(g)
    BY <1>1, <2>1 DEF Kept, Reordered, Members
  <2> QED
    BY <1>1, <2>2, <2>3 DEF g
<1>2. CASE k \in s.stale
  <2>1. k \in Members(s)
    BY <1>0, <1>2 DEF Sane, Ordered
  <2>2. g = Evict(s, k)
    BY <1>2 DEF Get, Peek
  <2>3. Sound(g, 0, 0) /\ Without(s, k, g) /\ Members(g) = Members(s) \ {k}
    BY <2>1, <2>2, EvictSound
  <2>4. Len(g.order) < MaxPeers
    BY <1>0, <2>3, SwarmAssumption DEF Without, Sane, Swarms, Ordered
  <2> QED
    BY <1>2, <2>1, <2>3, <2>4 DEF Lost, Without
<1>3. CASE k \notin Members(s)
  <2>1. g = s
    BY <1>0, <1>3, GetAbsent
  <2>2. k \notin s.stale
    BY <1>0, <1>3 DEF Sane, Ordered
  <2> QED
    BY <1>3, <2>1, <2>2
<1> QED
  BY <1>1, <1>2, <1>3

(* A handler may move the counters ahead of the cache before it writes it. *)
Counted(s, c, i) == [s EXCEPT !.complete = s.complete + c,
                              !.incomplete = s.incomplete + i]

LEMMA CountAhead ==
    ASSUME NEW s, Sound(s, 0, 0), NEW c \in Int, NEW i \in Int
    PROVE  LET u == Counted(s, c, i)
           IN  /\ Sound(u, c, i)
               /\ Members(u) = Members(s)
               /\ u.cache = s.cache /\ u.order = s.order
               /\ u.listed = s.listed
<1> DEFINE u == Counted(s, c, i)
<1>1. /\ s \in Swarms
      /\ s.complete = Cardinality(Seeders(s))
      /\ s.incomplete = Cardinality(Leechers(s))
      /\ s.complete \in Int /\ s.incomplete \in Int
  BY RolesFinite, FS_CardinalityType DEF Sound, Sane, Ahead, Swarms
<1>2. /\ u \in Swarms
      /\ u.cache = s.cache /\ u.order = s.order /\ u.stale = s.stale
      /\ u.complete = s.complete + c
      /\ u.incomplete = s.incomplete + i
      /\ u.listed = s.listed
  <2>1. s.complete + c \in Int /\ s.incomplete + i \in Int
    BY <1>1
  <2> QED
    BY <1>1, <2>1 DEF Swarms, Counted
<1> HIDE DEF u
<1>3. /\ Members(u) = Members(s)
      /\ Seeders(u) = Seeders(s)
      /\ Leechers(u) = Leechers(s)
  BY <1>2 DEF Members, Seeders, Leechers
<1>4. Sound(u, c, i)
  BY <1>1, <1>2, <1>3 DEF Sound, Sane, Ordered, Fitting, Ahead
<1> QED
  BY <1>2, <1>3, <1>4 DEF u

LEMMA JoinSound ==
    ASSUME NoHybrid, NEW s, Sound(s, 0, 0), NEW p \in Endpoint,
           NEW done \in BOOLEAN, KeyOf(p) \notin Members(s)
    PROVE  LET t == Join(s, p, done)
               k == KeyOf(p)
               x == NewPeer(p, done)
           IN  /\ Sound(t, 0, 0)
               /\ Entered(s, t, k, x) \/ Displaced(s, t, k, x)
<1> DEFINE k == KeyOf(p)
           peer == NewPeer(p, done)
           c == IF done THEN 1 ELSE 0
           i == IF done THEN 0 ELSE 1
           u == Counted(s, c, i)
           v == [s EXCEPT !.complete = IF done THEN @ + 1 ELSE @,
                          !.incomplete = IF done THEN @ ELSE @ + 1]
           t == Put(u, k, peer)
<1>1. /\ p \in Endpoints /\ p.type \in Type /\ p.peer_id \in PeerId
      /\ p.addr \in Addr /\ p.socket \in Socket \cup {NoSocket}
  BY EndpointAssumption DEF Endpoints
<1>2. k \in Key /\ peer \in Peer
  BY <1>1 DEF KeyOf, Key, Peer, NewPeer
<1>3. Fits(k, peer)
  <2>1. CASE p.type = "ws"
    BY <2>1 DEF Fits, KeyOf, WsPeerIds, NewPeer
  <2>2. CASE p.type # "ws"
    <3>1. p.peer_id \notin WsPeerIds
      BY <2>2 DEF WsPeerIds, NoHybrid
    <3> QED
      BY <1>1, <2>2, <3>1 DEF Fits, KeyOf, NewPeer
  <2> QED
    BY <2>1, <2>2
<1>4. v = u
  <2>1. s.complete \in Int /\ s.incomplete \in Int
    BY DEF Sound, Sane, Swarms
  <2>2. /\ s.complete + c = IF done THEN s.complete + 1 ELSE s.complete
        /\ s.incomplete + i = IF done THEN s.incomplete ELSE s.incomplete + 1
    BY <2>1
  <2> HIDE DEF c, i
  <2> QED
    BY <2>2 DEF Counted
<1>5. Join(s, p, done) = t
  BY <1>4 DEF Join, NewPeer
<1>6. c \in Int /\ i \in Int
  OBVIOUS
<1> HIDE DEF v
<1>7. /\ Sound(u, c, i)
      /\ k \notin Members(u) /\ k \notin Seeders(u) /\ k \notin Leechers(u)
      /\ u.cache = s.cache /\ u.order = s.order /\ u.listed = s.listed
      /\ Members(u) = Members(s)
  <2> HIDE DEF c, i
  <2>1. /\ Sound(u, c, i)
        /\ Members(u) = Members(s)
        /\ u.cache = s.cache /\ u.order = s.order /\ u.listed = s.listed
    BY <1>6, CountAhead
  <2> QED
    BY <2>1 DEF Seeders, Leechers
<1>8. peer.complete = done
  BY DEF NewPeer
<1> HIDE DEF k, peer, u, c, i
<1>9. Sound(t, c - (IF peer.complete THEN 1 ELSE 0)
                 + (IF k \in Seeders(u) THEN 1 ELSE 0),
               i - (IF ~peer.complete THEN 1 ELSE 0)
                 + (IF k \in Leechers(u) THEN 1 ELSE 0))
  BY <1>2, <1>3, <1>6, <1>7, PutSound
<1>10. /\ c - (IF peer.complete THEN 1 ELSE 0)
            + (IF k \in Seeders(u) THEN 1 ELSE 0) = 0
       /\ i - (IF ~peer.complete THEN 1 ELSE 0)
            + (IF k \in Leechers(u) THEN 1 ELSE 0) = 0
  BY <1>7, <1>8 DEF c, i
<1>11. /\ Len(s.order) \in Nat /\ MaxPeers \in Nat
       /\ Len(s.order) <= MaxPeers
  BY SwarmAssumption DEF Sound, Sane, Swarms, Ordered
<1>12. Sound(t, 0, 0)
  BY <1>9, <1>10
<1>13. CASE Len(s.order) < MaxPeers
  <2>1. With(u, k, peer, t)
    <3>1. Sane(u) /\ Len(u.order) < MaxPeers
      BY <1>7, <1>13 DEF Sound
    <3> QED
      BY <1>2, <3>1, PutWith DEF t
  <2> HIDE DEF t
  <2>2. Entered(s, t, k, peer)
    BY <1>7, <1>13, <2>1 DEF Entered, With
  <2> QED
    BY <1>5, <1>12, <2>2 DEF t, k, peer
<1>14. CASE Len(s.order) = MaxPeers
  <2> DEFINE w == Head(u.order)
  <2>1. PICK room : /\ w \in Members(u)
                    /\ Without(u, w, room)
                    /\ With(room, k, peer, t)
    <3>1. Len(u.order) = MaxPeers /\ k \notin Members(u)
      BY <1>7, <1>14
    <3> QED
      BY <1>2, <1>6, <1>7, <3>1, PutFull DEF t
  <2> HIDE DEF t, w
  <2>2. /\ t.cache = [[u.cache EXCEPT ![w] = NoPeer] EXCEPT ![k] = peer]
        /\ t.listed = u.listed \ {u.cache[w].socket}
    BY <2>1 DEF With, Without
  <2>3. Displaced(s, t, k, peer)
    BY <1>7, <1>14, <2>1, <2>2 DEF Displaced, w
  <2> QED
    BY <1>5, <1>12, <2>3 DEF t, k, peer
<1> QED
  BY <1>11, <1>13, <1>14

LEMMA RefreshSound ==
    ASSUME NEW s, Sound(s, 0, 0), NEW k \in Members(s), NEW done \in BOOLEAN
    PROVE  LET t == Refresh(s, k, done)
           IN  /\ Sound(t, 0, 0)
               /\ Kept(s, t) \/ Finished(s, t, k)
<1> DEFINE t == Refresh(s, k, done)
<1>1. /\ s \in Swarms /\ k \in Key
      /\ s.cache \in [Key -> Peer \cup {NoPeer}]
      /\ s.cache[k] \in Peer
      /\ s.cache[k].complete \in BOOLEAN
      /\ Fits(k, s.cache[k])
  BY DEF Sound, Sane, Swarms, Members, IsPeer, Fitting, Peer
<1>2. CASE done /\ ~s.cache[k].complete
  <2> DEFINE peer == [s.cache[k] EXCEPT !.complete = TRUE]
             u == Counted(s, 1, -1)
             v == [s EXCEPT !.complete = @ + 1, !.incomplete = @ - 1]
  <2>1. peer \in Peer /\ Fits(k, peer) /\ peer.complete
    BY <1>1 DEF Peer, Fits
  <2>2. v = u
    BY DEF Sound, Sane, Swarms, Counted
  <2>3. t = Put(u, k, peer)
    BY <1>2, <2>2 DEF Refresh, Finish
  <2>4. /\ Sound(u, 1, -1) /\ k \notin Seeders(u) /\ k \in Leechers(u)
        /\ k \in Members(u)
        /\ u.cache = s.cache /\ u.listed = s.listed
    <3>1. /\ Sound(u, 1, -1)
          /\ Members(u) = Members(s)
          /\ u.cache = s.cache /\ u.listed = s.listed
      BY CountAhead
    <3> QED
      BY <1>2, <3>1 DEF Seeders, Leechers
  <2> HIDE DEF peer, u, v, t
  <2>5. Sound(t, 1 - (IF peer.complete THEN 1 ELSE 0)
                   + (IF k \in Seeders(u) THEN 1 ELSE 0),
                 (-1) - (IF ~peer.complete THEN 1 ELSE 0)
                   + (IF k \in Leechers(u) THEN 1 ELSE 0))
    BY <1>1, <2>1, <2>3, <2>4, PutSound
  <2>7. With(u, k, peer, t)
    BY <1>1, <2>1, <2>3, <2>4, PutWith DEF Sound
  <2>6. Finished(s, t, k)
    BY <1>2, <2>4, <2>7 DEF Finished, With, peer
  <2> QED
    BY <2>1, <2>4, <2>5, <2>6 DEF t
<1>3. CASE ~(done /\ ~s.cache[k].complete)
  <2> DEFINE peer == s.cache[k]
  <2>1. t = Put(s, k, peer)
    BY <1>3 DEF Refresh
  <2>2. /\ k \in Seeders(s) <=> peer.complete
        /\ k \in Leechers(s) <=> ~peer.complete
    BY DEF Seeders, Leechers
  <2>3. [s.cache EXCEPT ![k] = peer] = s.cache
    BY <1>1
  <2> HIDE DEF peer, t
  <2>6. peer \in Peer /\ Fits(k, peer)
    BY <1>1 DEF peer
  <2>4. Sound(t, 0 - (IF peer.complete THEN 1 ELSE 0)
                   + (IF k \in Seeders(s) THEN 1 ELSE 0),
                 0 - (IF ~peer.complete THEN 1 ELSE 0)
                   + (IF k \in Leechers(s) THEN 1 ELSE 0))
    BY <1>1, <2>1, <2>6, PutSound
  <2>7. With(s, k, peer, t)
    BY <1>1, <2>1, <2>6, PutWith DEF Sound
  <2>5. Kept(s, t)
    BY <2>3, <2>7 DEF Kept, With
  <2> QED
    BY <2>2, <2>4, <2>5 DEF t
<1> QED
  BY <1>2, <1>3

(* What an announce of p may do. An event the server does not know only    *)
(* drops an expired entry.                                                 *)
Announced(s, t, p, event, done) ==
    LET k == KeyOf(p)
        x == NewPeer(p, done)
    IN  \/ k \notin s.stale /\ Kept(s, t)
        \/ k \in s.stale /\ Lost(s, t, k)
        \/ /\ event \in Event
           /\ \/ k \notin s.stale /\ Lost(s, t, k)
              \/ k \notin s.stale /\ Finished(s, t, k)
              \/ Renewed(s, t, k, x)
              \/ Entered(s, t, k, x)
              \/ Displaced(s, t, k, x)

LEMMA KeyOfType == \A p \in Endpoint : KeyOf(p) \in Key
BY EndpointAssumption DEF Endpoints, KeyOf, Key

LEMMA HandleSound ==
    ASSUME NoHybrid, NEW s, Sound(s, 0, 0), NEW p \in Endpoint, NEW event,
           NEW done \in BOOLEAN
    PROVE  LET t == Handle(s, p, event, done)
               k == KeyOf(p)
               x == NewPeer(p, done)
           IN  /\ Sound(t, 0, 0)
               /\ \/ Kept(s, t)
                  \/ /\ event \in Event
                     /\ \/ Lost(s, t, k)
                        \/ Finished(s, t, k)
                        \/ Entered(s, t, k, x)
                        \/ Displaced(s, t, k, x)
<1> DEFINE k == KeyOf(p)
           t == Handle(s, p, event, done)
<1>1. k \in Key
  BY KeyOfType
<1>2. IsPeer(s.cache[k]) <=> k \in Members(s)
  BY <1>1 DEF Members
<1>3. CASE event \notin Event
  <2>1. t = s
    BY <1>3 DEF Handle, Event
  <2> HIDE DEF t
  <2> QED
    BY <2>1 DEF Kept, t
<1>4. CASE event = "stopped"
  <2>1. t = IF k \in Members(s) THEN Stop(s, s.cache[k], k) ELSE s
    BY <1>2, <1>4 DEF Handle, Event
  <2>2. event \in Event
    BY <1>4 DEF Event
  <2> HIDE DEF t, k
  <2>3. CASE k \in Members(s)
    <3>1. Sound(t, 0, 0) /\ Without(s, k, t)
      BY <2>1, <2>3, StopSound
    <3>2. Lost(s, t, k)
      BY <2>3, <3>1 DEF Lost, Without
    <3> QED
      BY <2>2, <3>1, <3>2 DEF t, k
  <2>4. CASE k \notin Members(s)
    BY <2>1, <2>4 DEF Kept, t
  <2> QED
    BY <2>3, <2>4
<1>5. CASE event \in Event \ {"stopped"} /\ k \notin Members(s)
  <2>1. t = Join(s, p, done)
    BY <1>2, <1>5 DEF Handle, Event
  <2> HIDE DEF t
  <2> QED
    BY <1>5, <2>1, JoinSound DEF t
<1>6. CASE event \in Event \ {"stopped"} /\ k \in Members(s)
  <2>1. t = Refresh(s, k, TRUE) \/ t = Refresh(s, k, done)
    BY <1>2, <1>6 DEF Handle, Event
  <2> HIDE DEF t, k
  <2>2. Sound(t, 0, 0) /\ (Kept(s, t) \/ Finished(s, t, k))
    BY <1>6, <2>1, RefreshSound
  <2> QED
    BY <1>6, <2>2 DEF t, k
<1> QED
  BY <1>3, <1>4, <1>5, <1>6

LEMMA AnnounceSound ==
    ASSUME NoHybrid, NEW s, Sound(s, 0, 0), NEW p \in Endpoint, NEW event,
           NEW done \in BOOLEAN
    PROVE  LET t == Announce(s, p, event, done)
           IN  /\ Sound(t, 0, 0)
               /\ Announced(s, t, p, event, done)
<1> DEFINE k == KeyOf(p)
           x == NewPeer(p, done)
           g == Get(s, k)
           t == Handle(g, p, event, done)
<1>1. k \in Key
  BY KeyOfType
<1>2. /\ Sound(g, 0, 0)
      /\ k \in Members(s) \ s.stale => Kept(s, g) /\ k \in Members(g)
      /\ k \in s.stale => /\ Lost(s, g, k)
                          /\ k \notin Members(g)
                          /\ Len(g.order) < MaxPeers
      /\ k \notin Members(s) => g = s
  BY <1>1, GetSound
<1>3. Announce(s, p, event, done) = t
  BY DEF Announce
<1> HIDE DEF g
<1>4. /\ Sound(t, 0, 0)
      /\ \/ Kept(g, t)
         \/ /\ event \in Event
            /\ \/ Lost(g, t, k)
               \/ Finished(g, t, k)
               \/ Entered(g, t, k, x)
               \/ Displaced(g, t, k, x)
  BY <1>2, HandleSound
<1> HIDE DEF t, k, x
<1>5. Len(g.order) < MaxPeers => Len(g.order) # MaxPeers
  BY <1>2, SwarmAssumption DEF Sound, Sane, Swarms
<1>6. k \notin Members(s) => k \notin s.stale
  BY DEF Sound, Sane, Ordered
<1>7. CASE k \in Members(s) \ s.stale
  <2>1. Kept(s, g) /\ k \in Members(g) /\ k \notin s.stale /\ k \in Members(s)
    BY <1>2, <1>7
  <2>2. ~Entered(g, t, k, x) /\ ~Displaced(g, t, k, x)
    BY <2>1 DEF Entered, Displaced
  <2>3. CASE Kept(g, t)
    BY <1>3, <1>4, <2>1, <2>3 DEF Announced, Kept, k
  <2>4. CASE event \in Event /\ Lost(g, t, k)
    <3>1. Lost(s, t, k)
      BY <2>1, <2>4 DEF Lost, Kept
    <3> QED
      BY <1>3, <1>4, <2>1, <2>4, <3>1 DEF Announced, k
  <2>5. CASE event \in Event /\ Finished(g, t, k)
    <3>1. Finished(s, t, k)
      BY <2>1, <2>5 DEF Finished, Kept
    <3> QED
      BY <1>3, <1>4, <2>1, <2>5, <3>1 DEF Announced, k
  <2> QED
    BY <1>4, <2>2, <2>3, <2>4, <2>5
<1>8. CASE k \in s.stale
  <2>1. /\ Lost(s, g, k) /\ k \notin Members(g)
        /\ Len(g.order) # MaxPeers
    BY <1>2, <1>5, <1>8
  <2>2. ~Lost(g, t, k) /\ ~Finished(g, t, k) /\ ~Displaced(g, t, k, x)
    BY <2>1 DEF Lost, Finished, Displaced
  <2>3. CASE Kept(g, t)
    <3>1. Lost(s, t, k)
      BY <2>1, <2>3 DEF Lost, Kept
    <3> QED
      BY <1>3, <1>4, <1>8, <3>1 DEF Announced, k
  <2>4. CASE event \in Event /\ Entered(g, t, k, x)
    <3>1. s.cache \in [Key -> Peer \cup {NoPeer}]
      BY DEF Sound, Sane, Swarms
    <3>2. [[s.cache EXCEPT ![k] = NoPeer] EXCEPT ![k] = x]
            = [s.cache EXCEPT ![k] = x]
      BY <3>1
    <3>3. Renewed(s, t, k, x)
      BY <1>8, <2>1, <2>4, <3>2 DEF Renewed, Lost, Entered
    <3> QED
      BY <1>3, <1>4, <2>4, <3>3 DEF Announced, k, x
  <2> QED
    BY <1>4, <2>2, <2>3, <2>4
<1>9. CASE k \notin Members(s)
  <2>1. g = s /\ k \notin s.stale
    BY <1>2, <1>6, <1>9
  <2> QED
    BY <1>3, <1>4, <2>1 DEF Announced, k, x
<1> QED
  BY <1>7, <1>8, <1>9

(* The close of a socket removes the member with the socket's peer id, and *)
(* nothing else, whether its entry has expired or not.                     *)
LEMMA LeaveSound ==
    ASSUME NEW s, Sound(s, 0, 0), NEW id \in PeerId
    PROVE  LET t == Leave(s, id)
           IN  /\ Sound(t, 0, 0)
               /\ id \in Members(s) => Lost(s, t, id)
               /\ id \notin Members(s) => t = s
<1> DEFINE g == Get(s, id)
           t == Leave(s, id)
<1>1. id \in Key
  BY DEF Key
<1>2. /\ Sound(g, 0, 0)
      /\ id \in Members(s) \ s.stale => Kept(s, g) /\ id \in Members(g)
      /\ id \in s.stale => Lost(s, g, id) /\ id \notin Members(g)
      /\ id \notin Members(s) => g = s
  BY <1>1, GetSound
<1>3. t = IF id \in Members(g) THEN Stop(g, g.cache[id], id) ELSE g
  BY <1>1 DEF Leave, Members
<1> HIDE DEF g, t
<1>4. CASE id \in Members(g)
  <2>1. Sound(t, 0, 0) /\ Without(g, id, t)
    BY <1>2, <1>3, <1>4, StopSound
  <2>2. id \in Members(s) => Kept(s, g)
    BY <1>2, <1>4
  <2>3. id \in Members(s)
    BY <1>2, <1>4
  <2>4. Lost(s, t, id)
    BY <2>1, <2>2, <2>3 DEF Lost, Kept, Without
  <2> QED
    BY <2>1, <2>3, <2>4 DEF t
<1>5. CASE id \notin Members(g)
  <2>1. t = g
    BY <1>3, <1>5
  <2>2. id \in Members(s) => Lost(s, g, id)
    BY <1>2, <1>5
  <2> QED
    BY <1>2, <2>1, <2>2 DEF t
<1> QED
  BY <1>4, <1>5

-----------------------------------------------------------------------------
(***************************************************************************)
(* The specification.                                                      *)
(***************************************************************************)

(* CountsMatch alone is not inductive: an eviction takes the oldest key    *)
(* from the recency list, which must be cached, and removes a second entry *)
(* by peer id, which must not be.                                          *)
IInv == TypeOK /\ CacheOrdered /\ KeysFit /\ CountsMatch

LEMMA IInvSound == IInv <=> TypeOK /\ Sound(swarm, 0, 0)
<1>1. ASSUME swarm \in Swarms
      PROVE  CountsMatch <=> Ahead(swarm, 0, 0)
  <2>1. /\ Cardinality(Seeders(swarm)) \in Nat
        /\ Cardinality(Leechers(swarm)) \in Nat
    BY RolesFinite, FS_CardinalityType
  <2> QED
    BY <2>1 DEF CountsMatch, Ahead
<1>2. CacheOrdered <=> Ordered(swarm)
  BY DEF CacheOrdered, Ordered, Elements, Distinct
<1>3. KeysFit <=> Fitting(swarm)
  BY DEF KeysFit, Fitting
<1> QED
  BY <1>1, <1>2, <1>3 DEF IInv, Sound, Sane, TypeOK

LEMMA IInvSoundPrime == IInv' <=> TypeOK' /\ Sound(swarm, 0, 0)'
BY IInvSound, PTL

LEMMA NewSwarmSound == Sound(NewSwarm, 0, 0)
<1>1. NewSwarm \in Swarms
  BY EmptySeq DEF NewSwarm, Swarms
<1>2. /\ NewSwarm.order = <<>> /\ NewSwarm.stale = {}
      /\ NewSwarm.complete = 0 /\ NewSwarm.incomplete = 0
      /\ \A k \in Key : NewSwarm.cache[k] = NoPeer
  BY DEF NewSwarm
<1>3. /\ Members(NewSwarm) = {}
      /\ Seeders(NewSwarm) = {} /\ Leechers(NewSwarm) = {}
  BY <1>2 DEF Members, Seeders, Leechers, IsPeer
<1>4. Ordered(NewSwarm)
  BY <1>2, <1>3, SwarmAssumption DEF Ordered, Elements, Distinct
<1>5. Ahead(NewSwarm, 0, 0)
  BY <1>2, <1>3, FS_EmptySet DEF Ahead
<1> QED
  BY <1>1, <1>3, <1>4, <1>5 DEF Sound, Sane, Fitting

LEMMA InitInv == Init => IInv
<1> SUFFICES ASSUME Init
             PROVE  IInv
  OBVIOUS
<1>1. Sound(swarm, 0, 0)
  BY NewSwarmSound DEF Init
<1>2. TypeOK
  BY <1>1 DEF Init, TypeOK, Sound, Sane, Loops
<1> QED
  BY <1>1, <1>2, IInvSound

(* Only the socket list changes.                                           *)
LEMMA RelistSound ==
    ASSUME NEW s, Sound(s, 0, 0), NEW l \in SUBSET Socket
    PROVE  Sound([s EXCEPT !.listed = l], 0, 0)
<1> DEFINE u == [s EXCEPT !.listed = l]
<1>1. /\ u \in Swarms
      /\ u.cache = s.cache /\ u.order = s.order /\ u.stale = s.stale
      /\ u.complete = s.complete /\ u.incomplete = s.incomplete
  BY DEF Sound, Sane, Swarms
<1> HIDE DEF u
<1>2. Sound(u, 0, 0)
  BY <1>1 DEF Sound, Sane, Ordered, Fitting, Ahead, Seeders, Leechers, Members
<1> QED
  BY <1>2 DEF u

LEMMA StepInv == NoHybrid /\ IInv /\ [Next]_vars => IInv'
<1> SUFFICES ASSUME NoHybrid, IInv, [Next]_vars
             PROVE  TypeOK' /\ Sound(swarm, 0, 0)'
  BY IInvSoundPrime
<1> USE DEF TypeOK
<1>0. TypeOK /\ Sound(swarm, 0, 0)
  BY IInvSound
<1>1. ASSUME NEW p \in Endpoint, NEW event \in Event \cup {"unknown"},
             NEW done \in BOOLEAN, NEW want \in NumWant,
             AnnounceRequest(p, event, done, want)
      PROVE  TypeOK' /\ Sound(swarm, 0, 0)'
  <2>1. Sound(swarm', 0, 0)
    BY <1>0, <1>1, AnnounceSound DEF AnnounceRequest
  <2>2. swarm' \in Swarms
    BY <2>1 DEF Sound, Sane
  <2>3. owner' \in [Socket -> PeerId \cup {NoId}] /\ closed' \subseteq Socket
    BY <1>0, <1>1, EndpointAssumption DEF AnnounceRequest, Endpoints
  <2>4. loop' \in Loops
    <3>1. Members(swarm') \in SUBSET Key
      BY DEF Members
    <3> QED
      BY <1>1, <3>1 DEF AnnounceRequest, Loops, Answering
  <2> QED
    BY <2>1, <2>2, <2>3, <2>4
<1>2. ASSUME NEW k \in Key, PickPeer(k)
      PROVE  TypeOK' /\ Sound(swarm, 0, 0)'
  <2>1. Sound(swarm', 0, 0)
    BY <1>0, <1>2, PeekSound DEF PickPeer
  <2>2. swarm' \in Swarms
    BY <2>1 DEF Sound, Sane
  <2>3. loop' \in Loops
    <3>1. loop \in [run : {"announce"}, by : Endpoint, want : NumWant,
                    todo : SUBSET Key, got : SUBSET Key]
      BY <1>0, <1>2 DEF PickPeer, Loops, Idle
    <3> QED
      BY <1>2, <3>1 DEF PickPeer, Loops
  <2> QED
    BY <1>0, <1>2, <2>1, <2>2, <2>3 DEF PickPeer
<1>3. ASSUME NEW k \in Key, GrowOld(k)
      PROVE  TypeOK' /\ Sound(swarm, 0, 0)'
  <2> DEFINE u == [swarm EXCEPT !.stale = swarm.stale \cup {k}]
  <2>1. swarm' = u /\ k \in Members(swarm)
    BY <1>3 DEF GrowOld
  <2>2. /\ u \in Swarms
        /\ u.cache = swarm.cache /\ u.order = swarm.order
        /\ u.stale = swarm.stale \cup {k}
        /\ u.complete = swarm.complete /\ u.incomplete = swarm.incomplete
    BY <1>0 DEF Swarms
  <2> HIDE DEF u
  <2>3. Sound(u, 0, 0)
    BY <1>0, <2>1, <2>2
    DEF Sound, Sane, Ordered, Fitting, Ahead, Seeders, Leechers, Members
  <2> QED
    BY <1>0, <1>3, <2>1, <2>2, <2>3 DEF GrowOld
<1>4. ASSUME NEW k \in Key, CountPeer(k)
      PROVE  TypeOK' /\ Sound(swarm, 0, 0)'
  <2>1. Sound(swarm', 0, 0)
    BY <1>0, <1>4, PeekSound DEF CountPeer
  <2>2. swarm' \in Swarms
    BY <2>1 DEF Sound, Sane
  <2>3. loop' \in Loops
    <3>1. loop \in [run : {"stats"}, todo : SUBSET Key]
      BY <1>0, <1>4 DEF CountPeer, Loops, Idle
    <3> QED
      BY <1>4, <3>1 DEF CountPeer, Loops
  <2> QED
    BY <1>0, <1>4, <2>1, <2>2, <2>3 DEF CountPeer
<1>5. ASSUME Reply
      PROVE  TypeOK' /\ Sound(swarm, 0, 0)'
  <2>1. Sound(swarm', 0, 0)
    <3>1. CASE loop.by.type = "ws"
      <4>1. loop.by \in Endpoint
        BY <1>0, <1>5 DEF Reply, Loops, Idle
      <4>2. loop.by.socket \in Socket
        BY <3>1, <4>1, EndpointAssumption DEF Endpoints
      <4>3. swarm.listed \cup {loop.by.socket} \in SUBSET Socket
        BY <1>0, <4>2 DEF Swarms
      <4> QED
        BY <1>0, <1>5, <3>1, <4>3, RelistSound DEF Reply
    <3>2. CASE loop.by.type # "ws"
      BY <1>0, <1>5, <3>2 DEF Reply
    <3> QED
      BY <3>1, <3>2
  <2>2. swarm' \in Swarms
    BY <2>1 DEF Sound, Sane
  <2> QED
    BY <1>0, <1>5, <2>1, <2>2 DEF Reply, Loops
<1>6. ASSUME NEW id \in PeerId, RelayAnswer(id)
      PROVE  TypeOK' /\ Sound(swarm, 0, 0)'
  <2>1. Sound(swarm', 0, 0)
    BY <1>0, <1>6, GetSound DEF RelayAnswer, Key
  <2>2. swarm' \in Swarms
    BY <2>1 DEF Sound, Sane
  <2> QED
    BY <1>0, <1>6, <2>1, <2>2 DEF RelayAnswer
<1>7. ASSUME NEW s \in Socket, CloseSocket(s)
      PROVE  TypeOK' /\ Sound(swarm, 0, 0)'
  <2> DEFINE left == IF owner[s] # NoId /\ s \in swarm.listed
                     THEN Leave(swarm, owner[s]) ELSE swarm
  <2>1. Sound(left, 0, 0)
    BY <1>0, LeaveSound
  <2>2. swarm' = [left EXCEPT !.listed = left.listed \ {s}]
    BY <1>7 DEF CloseSocket
  <2> HIDE DEF left
  <2>3. left.listed \ {s} \in SUBSET Socket
    BY <2>1 DEF Sound, Sane, Swarms
  <2>4. Sound(swarm', 0, 0)
    BY <2>1, <2>2, <2>3, RelistSound
  <2>5. swarm' \in Swarms
    BY <2>4 DEF Sound, Sane
  <2> QED
    BY <1>0, <1>7, <2>4, <2>5 DEF CloseSocket
<1>8. ASSUME StatsRequest
      PROVE  TypeOK' /\ Sound(swarm, 0, 0)'
  <2>1. Members(swarm) \in SUBSET Key
    BY DEF Members
  <2> QED
    BY <1>0, <1>8, <2>1 DEF StatsRequest, Loops, Counting
<1>9. ASSUME StatsReply
      PROVE  TypeOK' /\ Sound(swarm, 0, 0)'
  BY <1>0, <1>9 DEF StatsReply, Loops
<1>10. ASSUME UNCHANGED vars
       PROVE  TypeOK' /\ Sound(swarm, 0, 0)'
  BY <1>0, <1>10 DEF vars
<1> QED
  BY <1>1, <1>2, <1>3, <1>4, <1>5, <1>6, <1>7, <1>8, <1>9, <1>10 DEF Next

(* As long as no client is hybrid, the variables keep their types.         *)
THEOREM TypeCorrect == ASSUME NoHybrid PROVE Spec => []TypeOK
<1>1. IInv /\ [Next]_vars => IInv'
  BY StepInv
<1>2. IInv => TypeOK
  BY DEF IInv
<1> QED
  BY <1>1, <1>2, InitInv, PTL DEF Spec

(* The recency list holds each cached key once and stays within the cache  *)
(* length, through every eviction inside a handler.                        *)
THEOREM CacheCorrect == ASSUME NoHybrid PROVE Spec => []CacheOrdered
<1>1. IInv /\ [Next]_vars => IInv'
  BY StepInv
<1>2. IInv => CacheOrdered
  BY DEF IInv
<1> QED
  BY <1>1, <1>2, InitInv, PTL DEF Spec

(* The counters that announce and scrape replies report count the seeders  *)
(* and leechers in the cache, through every eviction inside a handler.     *)
THEOREM CountsCorrect == ASSUME NoHybrid PROVE Spec => []CountsMatch
<1>1. IInv /\ [Next]_vars => IInv'
  BY StepInv
<1>2. IInv => CountsMatch
  BY DEF IInv
<1> QED
  BY <1>1, <1>2, InitInv, PTL DEF Spec

(* Each peer is cached under the key of its type, so what the evict        *)
(* listener removes is never the entry of another peer.                    *)
THEOREM KeysCorrect == ASSUME NoHybrid PROVE Spec => []KeysFit
<1>1. IInv /\ [Next]_vars => IInv'
  BY StepInv
<1>2. IInv => KeysFit
  BY DEF IInv
<1> QED
  BY <1>1, <1>2, InitInv, PTL DEF Spec

-----------------------------------------------------------------------------
(***************************************************************************)
(* Members and their sockets. `c` are the closed sockets, `o` the owners,  *)
(* `h` the socket whose announce is being answered, if any: it may name    *)
(* the swarm only once the reply leaves.                                   *)
(***************************************************************************)
Tied(x, l, c, o) ==
    IF x.type = "ws" THEN /\ x.socket \in l \ c
                          /\ o[x.socket] = x.peerId
                     ELSE x.socket = NoSocket

Linked(s, c, o, h) == \A k \in Members(s) : Tied(s.cache[k], s.listed \cup h, c, o)

LEMMA LinkKept ==
    ASSUME NEW s, NEW t, NEW c, NEW o, NEW h, NEW j,
           Linked(s, c, o, h), Kept(s, t), h \subseteq j
    PROVE  Linked(t, c, o, j)
<1>1. Members(t) = Members(s) /\ t.cache = s.cache /\ t.listed = s.listed
  BY DEF Kept, Members
<1> QED
  BY <1>1 DEF Linked, Tied

(* A member that is lost takes only its own socket along: the members that *)
(* are tied to a socket have the peer id of its owner, so there is one.    *)
LEMMA LinkLost ==
    ASSUME NEW s, NEW t, NEW c, NEW o, NEW h, NEW j, NEW v,
           s \in Swarms, Fitting(s), Linked(s, c, o, h), Lost(s, t, v),
           h \subseteq j
    PROVE  Linked(t, c, o, j)
<1>1. /\ s.cache \in [Key -> Peer \cup {NoPeer}]
      /\ v \in Key /\ v \in Members(s)
      /\ t.cache = [s.cache EXCEPT ![v] = NoPeer]
      /\ t.listed = s.listed \ {s.cache[v].socket}
  BY DEF Swarms, Lost, Members
<1> SUFFICES ASSUME NEW k \in Members(t)
             PROVE  Tied(t.cache[k], t.listed \cup j, c, o)
  BY DEF Linked
<1>2. k \in Members(s) /\ k # v /\ t.cache[k] = s.cache[k]
  BY <1>1 DEF Members, IsPeer
<1>3. Tied(s.cache[k], s.listed \cup h, c, o) /\ Tied(s.cache[v], s.listed \cup h, c, o)
  BY <1>1, <1>2 DEF Linked
<1>4. Fits(k, s.cache[k]) /\ Fits(v, s.cache[v])
  BY <1>1, <1>2 DEF Fitting
<1>5. CASE s.cache[k].type # "ws"
  BY <1>2, <1>3, <1>5 DEF Tied
<1>6. CASE s.cache[k].type = "ws" /\ s.cache[k].socket # s.cache[v].socket
  BY <1>1, <1>2, <1>3, <1>6 DEF Tied
<1>7. CASE s.cache[k].type = "ws" /\ s.cache[k].socket = s.cache[v].socket
  <2>1. CASE s.cache[v].type = "ws"
    BY <1>2, <1>3, <1>4, <1>7, <2>1 DEF Tied, Fits
  <2>2. CASE s.cache[v].type # "ws"
    <3>1. s.cache[v].socket = NoSocket
      BY <1>3, <2>2 DEF Tied
    <3>2. NoSocket \notin s.listed
      BY SwarmAssumption DEF Swarms
    <3>3. t.listed = s.listed
      BY <1>1, <3>1, <3>2
    <3> QED
      BY <1>2, <1>3, <3>3 DEF Tied
  <2> QED
    BY <2>1, <2>2
<1> QED
  BY <1>5, <1>6, <1>7

LEMMA LinkSet ==
    ASSUME NEW s, NEW t, NEW c, NEW o, NEW h, NEW j, NEW k \in Key, NEW x,
           s.cache \in [Key -> Peer \cup {NoPeer}],
           Linked(s, c, o, h), h \subseteq j,
           t.cache = [s.cache EXCEPT ![k] = x], t.listed = s.listed,
           Tied(x, t.listed \cup j, c, o)
    PROVE  Linked(t, c, o, j)
<1> SUFFICES ASSUME NEW l \in Members(t)
             PROVE  Tied(t.cache[l], t.listed \cup j, c, o)
  BY DEF Linked
<1>1. CASE l = k
  BY <1>1
<1>2. CASE l # k
  <2>1. l \in Members(s) /\ t.cache[l] = s.cache[l]
    BY <1>2 DEF Members
  <2> QED
    BY <2>1 DEF Linked, Tied
<1> QED
  BY <1>1, <1>2

(* An announce of p whose socket is the one being answered.                *)
LEMMA LinkAnnounced ==
    ASSUME NEW s, NEW t, NEW c, NEW o, NEW p \in Endpoint, NEW event,
           NEW done \in BOOLEAN,
           Sound(s, 0, 0), Linked(s, c, o, {}), Announced(s, t, p, event, done),
           p.type = "ws" => /\ p.socket \notin c
                            /\ o[p.socket] = p.peer_id
    PROVE  Linked(t, c, o, IF event \in Event THEN {p.socket} \cap Socket ELSE {})
<1> DEFINE k == KeyOf(p)
           x == NewPeer(p, done)
           j == IF event \in Event THEN {p.socket} \cap Socket ELSE {}
<1>1. /\ s \in Swarms /\ s.cache \in [Key -> Peer \cup {NoPeer}]
      /\ Fitting(s) /\ {} \subseteq j
      /\ s.stale \subseteq Members(s)
  BY DEF Sound, Sane, Swarms, Ordered
<1>2. k \in Key
  BY KeyOfType
<1>3. event \in Event => \A l : Tied(x, l \cup j, c, o)
  <2>1. /\ p.type = "ws" => p.socket \in Socket
        /\ p.type # "ws" => p.socket = NoSocket
    BY EndpointAssumption DEF Endpoints
  <2> QED
    BY <2>1 DEF Tied, NewPeer
<1>4. /\ x = NewPeer(p, done)
      /\ \/ Kept(s, t)
         \/ Lost(s, t, k)
         \/ event \in Event /\ Finished(s, t, k)
         \/ event \in Event /\ Renewed(s, t, k, x)
         \/ event \in Event /\ Entered(s, t, k, x)
         \/ event \in Event /\ Displaced(s, t, k, x)
  BY DEF Announced
<1> SUFFICES Linked(t, c, o, j)
  OBVIOUS
<1> HIDE DEF k, x, j
<1>5. CASE Kept(s, t)
  BY <1>1, <1>5, LinkKept
<1>6. CASE Lost(s, t, k)
  BY <1>1, <1>6, LinkLost
<1>7. CASE Finished(s, t, k)
  <2> DEFINE y == [s.cache[k] EXCEPT !.complete = TRUE]
  <2>1. k \in Members(s) /\ s.cache[k] \in Peer
    BY <1>1, <1>7 DEF Finished, Members, IsPeer
  <2>2. /\ y.type = s.cache[k].type /\ y.socket = s.cache[k].socket
        /\ y.peerId = s.cache[k].peerId
    BY <2>1 DEF Peer
  <2>3. Tied(s.cache[k], s.listed, c, o)
    BY <2>1 DEF Linked
  <2>4. /\ t.cache = [s.cache EXCEPT ![k] = y] /\ t.listed = s.listed
    BY <1>7 DEF Finished
  <2> HIDE DEF y
  <2>5. Tied(y, t.listed \cup j, c, o)
    BY <2>2, <2>3, <2>4 DEF Tied
  <2>6. /\ s.cache \in [Key -> Peer \cup {NoPeer}]
        /\ Linked(s, c, o, {}) /\ {} \subseteq j /\ k \in Key
    BY <1>1, <1>2
  <2> QED
    BY <2>4, <2>5, <2>6, LinkSet
<1>8. CASE event \in Event /\ Entered(s, t, k, x)
  <2>1. t.cache = [s.cache EXCEPT ![k] = x] /\ t.listed = s.listed
    BY <1>8 DEF Entered
  <2>2. /\ s.cache \in [Key -> Peer \cup {NoPeer}]
        /\ Linked(s, c, o, {}) /\ {} \subseteq j /\ k \in Key
        /\ Tied(x, t.listed \cup j, c, o)
    BY <1>1, <1>2, <1>3, <1>8
  <2> QED
    BY <2>1, <2>2, LinkSet
<1>9. ASSUME event \in Event, NEW v \in Members(s),
             t.cache = [[s.cache EXCEPT ![v] = NoPeer] EXCEPT ![k] = x],
             t.listed = s.listed \ {s.cache[v].socket}
      PROVE  Linked(t, c, o, j)
  <2> DEFINE u == [cache |-> [s.cache EXCEPT ![v] = NoPeer],
                   listed |-> s.listed \ {s.cache[v].socket}]
  <2>1. Lost(s, u, v)
    BY DEF Lost
  <2>2. Linked(u, c, o, {})
    BY <1>1, <2>1, LinkLost
  <2>3. /\ u.cache \in [Key -> Peer \cup {NoPeer}]
        /\ t.cache = [u.cache EXCEPT ![k] = x] /\ t.listed = u.listed
    BY <1>1, <1>9
  <2> HIDE DEF u
  <2>4. {} \subseteq j /\ k \in Key /\ Tied(x, t.listed \cup j, c, o)
    BY <1>1, <1>2, <1>3, <1>9
  <2> QED
    BY <2>2, <2>3, <2>4, LinkSet
<1>10. CASE event \in Event /\ Renewed(s, t, k, x)
  <2>1. [[s.cache EXCEPT ![k] = NoPeer] EXCEPT ![k] = x] = [s.cache EXCEPT ![k] = x]
    BY <1>1
  <2>2. /\ k \in Members(s)
        /\ t.cache = [[s.cache EXCEPT ![k] = NoPeer] EXCEPT ![k] = x]
        /\ t.listed = s.listed \ {s.cache[k].socket}
    BY <1>1, <1>10, <2>1 DEF Renewed
  <2> QED
    BY <1>9, <1>10, <2>2
<1>11. CASE event \in Event /\ Displaced(s, t, k, x)
  <2>1. /\ Head(s.order) \in Members(s)
        /\ t.cache = [[s.cache EXCEPT ![Head(s.order)] = NoPeer] EXCEPT ![k] = x]
        /\ t.listed = s.listed \ {s.cache[Head(s.order)].socket}
    BY <1>11 DEF Displaced
  <2> QED
    BY <1>9, <1>11, <2>1
<1> QED
  BY <1>4, <1>5, <1>6, <1>7, <1>8, <1>10, <1>11

-----------------------------------------------------------------------------
(***************************************************************************)
(* Every WebSocket member can be found by the close handler of its socket. *)
(* For that the owner of a socket must be the peer id of the clients that  *)
(* announce on it.                                                         *)
(***************************************************************************)
Here == IF loop.run = "announce" THEN {loop.by.socket} \cap Socket ELSE {}

OwnerAnnounced ==
    \A s \in Socket : owner[s] # NoId =>
        \E p \in Endpoint : /\ p.type = "ws" /\ p.socket = s
                            /\ p.peer_id = owner[s]

LInv == Linked(swarm, closed, owner, Here) /\ OwnerAnnounced

LEMMA LinkInit == Init => LInv
<1> SUFFICES ASSUME Init
             PROVE  LInv
  OBVIOUS
<1>1. Members(swarm) = {}
  BY DEF Init, NewSwarm, Members, IsPeer
<1> QED
  BY <1>1 DEF Init, LInv, Linked, OwnerAnnounced

(* The steps that leave the sockets alone: at most one member is lost, and *)
(* the request that is answered stays the same.                            *)
LEMMA LinkQuiet ==
    ASSUME IInv, LInv, UNCHANGED <<closed, owner>>, Here' = Here,
           Kept(swarm, swarm') \/ \E k : Lost(swarm, swarm', k)
    PROVE  LInv'
<1>1. swarm \in Swarms /\ Fitting(swarm) /\ Here \subseteq Here
  BY IInvSound DEF Sound, Sane
<1>2. Linked(swarm, closed, owner, Here)
  BY DEF LInv
<1> DEFINE h == Here
<1> HIDE DEF h
<1>3. Linked(swarm', closed, owner, h)
  <2>1. CASE Kept(swarm, swarm')
    BY <1>1, <1>2, <2>1, LinkKept DEF h
  <2>2. ASSUME NEW k, Lost(swarm, swarm', k)
        PROVE  Linked(swarm', closed, owner, h)
    BY <1>1, <1>2, <2>2, LinkLost DEF h
  <2> QED
    BY <2>1, <2>2
<1> QED
  BY <1>3 DEF LInv, OwnerAnnounced, h

LEMMA LinkStep == NoHybrid /\ NoShared /\ IInv /\ LInv /\ [Next]_vars => LInv'
<1> SUFFICES ASSUME NoHybrid, NoShared, IInv, LInv, [Next]_vars
             PROVE  LInv'
  OBVIOUS
<1>0. /\ TypeOK /\ Sound(swarm, 0, 0)
      /\ swarm \in Swarms /\ Fitting(swarm)
      /\ owner \in [Socket -> PeerId \cup {NoId}] /\ closed \subseteq Socket
  BY IInvSound DEF Sound, Sane, TypeOK
<1>1. ASSUME NEW p \in Endpoint, NEW event \in Event \cup {"unknown"},
             NEW done \in BOOLEAN, NEW want \in NumWant,
             AnnounceRequest(p, event, done, want)
      PROVE  LInv'
  <2>1. /\ Announced(swarm, swarm', p, event, done)
        /\ loop = Idle /\ p.socket \notin closed /\ closed' = closed
    BY <1>0, <1>1, AnnounceSound DEF AnnounceRequest
  <2>2. /\ p.type = "ws" => p.socket \in Socket /\ p.peer_id \in PeerId
        /\ p.type # "ws" => p.socket \notin Socket
    BY EndpointAssumption, SwarmAssumption DEF Endpoints
  <2>3. Here = {} /\ Here' = IF event \in Event THEN {p.socket} \cap Socket ELSE {}
    BY <1>1, <2>1 DEF Here, Idle, AnnounceRequest, Answering
  <2>4. p.type = "ws" /\ owner[p.socket] # NoId => owner[p.socket] = p.peer_id
    BY <2>2 DEF LInv, OwnerAnnounced, NoShared
  <2>5. /\ owner' \in [Socket -> PeerId \cup {NoId}]
        /\ \A s \in Socket : owner[s] # NoId => owner'[s] = owner[s]
        /\ p.type = "ws" => owner'[p.socket] = p.peer_id
        /\ \A s \in Socket : owner'[s] # owner[s] =>
              p.type = "ws" /\ p.socket = s /\ owner'[s] = p.peer_id
    BY <1>0, <1>1, <2>2, <2>4 DEF AnnounceRequest
  <2>6. Linked(swarm, closed, owner', {})
    <3> SUFFICES ASSUME NEW k \in Members(swarm)
                 PROVE  Tied(swarm.cache[k], swarm.listed \cup {}, closed, owner')
      BY DEF Linked
    <3>1. Tied(swarm.cache[k], swarm.listed \cup {}, closed, owner)
      BY <2>3 DEF LInv, Linked
    <3>2. swarm.cache[k] \in Peer
      BY <1>0 DEF Members, IsPeer, Swarms
    <3>3. swarm.cache[k].type = "ws" => swarm.cache[k].socket \in Socket
      BY <1>0, <3>1 DEF Tied, Swarms
    <3>4. swarm.cache[k].peerId # NoId
      BY <3>2, EndpointAssumption DEF Peer
    <3> QED
      BY <2>5, <3>1, <3>3, <3>4 DEF Tied
  <2>7. Linked(swarm', closed, owner',
               IF event \in Event THEN {p.socket} \cap Socket ELSE {})
    <3>1. p.type = "ws" => /\ p.socket \notin closed
                           /\ owner'[p.socket] = p.peer_id
      BY <2>1, <2>5
    <3> QED
      BY <1>0, <2>1, <2>6, <3>1, LinkAnnounced
  <2>8. OwnerAnnounced'
    BY <2>5 DEF LInv, OwnerAnnounced
  <2> QED
    BY <2>1, <2>3, <2>7, <2>8 DEF LInv
<1>2. ASSUME NEW k, swarm' = Peek(swarm, k), Here' = Here,
             UNCHANGED <<closed, owner>>
      PROVE  LInv'
  <2>1. Kept(swarm, swarm') \/ Lost(swarm, swarm', k)
    BY <1>0, <1>2, PeekSound DEF Kept
  <2> QED
    BY <1>2, <2>1, LinkQuiet
<1>3. ASSUME NEW k \in Key, PickPeer(k)
      PROVE  LInv'
  <2>1. loop \in [run : {"announce"}, by : Endpoint, want : NumWant,
                  todo : SUBSET Key, got : SUBSET Key]
    BY <1>0, <1>3 DEF PickPeer, Loops, Idle, TypeOK
  <2>2. loop'.run = loop.run /\ loop'.by = loop.by
    BY <1>3, <2>1 DEF PickPeer
  <2> QED
    BY <1>2, <1>3, <2>2 DEF PickPeer, Here
<1>4. ASSUME NEW k \in Key, GrowOld(k)
      PROVE  LInv'
  <2>1. Kept(swarm, swarm')
    BY <1>0, <1>4 DEF GrowOld, Kept, Swarms
  <2>2. Here' = Here
    BY <1>4 DEF GrowOld, Here
  <2> QED
    BY <1>4, <2>1, <2>2, LinkQuiet DEF GrowOld
<1>5. ASSUME NEW k \in Key, CountPeer(k)
      PROVE  LInv'
  <2>1. loop \in [run : {"stats"}, todo : SUBSET Key]
    BY <1>0, <1>5 DEF CountPeer, Loops, Idle, TypeOK
  <2>2. Here' = Here
    BY <1>5, <2>1 DEF CountPeer, Here
  <2> QED
    BY <1>2, <1>5, <2>2 DEF CountPeer
<1>6. ASSUME Reply
      PROVE  LInv'
  <2>1. /\ loop.by \in Endpoint /\ Here = {loop.by.socket} \cap Socket
        /\ Here' = {}
    BY <1>0, <1>6 DEF Reply, Loops, Idle, TypeOK, Here
  <2>2. swarm'.cache = swarm.cache /\ swarm'.listed = swarm.listed \cup Here
    <3>1. CASE loop.by.type = "ws"
      <4>1. loop.by.socket \in Socket
        BY <2>1, <3>1, EndpointAssumption DEF Endpoints
      <4> QED
        BY <1>0, <1>6, <2>1, <3>1, <4>1 DEF Reply, Swarms
    <3>2. CASE loop.by.type # "ws"
      <4>1. loop.by.socket \notin Socket
        BY <2>1, <3>2, EndpointAssumption, SwarmAssumption DEF Endpoints
      <4> QED
        BY <1>0, <1>6, <2>1, <3>2, <4>1 DEF Reply, Swarms
    <3> QED
      BY <3>1, <3>2
  <2>3. Members(swarm') = Members(swarm)
    BY <2>2 DEF Members
  <2> QED
    BY <1>6, <2>1, <2>2, <2>3 DEF LInv, Linked, Tied, OwnerAnnounced, Reply
<1>7. ASSUME NEW id \in PeerId, RelayAnswer(id)
      PROVE  LInv'
  <2>1. id \in Key
    BY DEF Key
  <2>2. Kept(swarm, swarm') \/ Lost(swarm, swarm', id)
    BY <1>0, <1>7, <2>1, GetSound DEF Kept, RelayAnswer
  <2>3. Here' = Here
    BY <1>7 DEF RelayAnswer, Here
  <2> QED
    BY <1>7, <2>2, <2>3, LinkQuiet DEF RelayAnswer
<1>8. ASSUME NEW s \in Socket, CloseSocket(s)
      PROVE  LInv'
  <2> DEFINE left == IF owner[s] # NoId /\ s \in swarm.listed
                     THEN Leave(swarm, owner[s]) ELSE swarm
  <2>0. /\ Here = {} /\ Here' = {} /\ closed' = closed \cup {s}
        /\ owner' = [owner EXCEPT ![s] = NoId]
        /\ swarm' = [left EXCEPT !.listed = left.listed \ {s}]
    BY <1>8 DEF CloseSocket, Here, Idle
  <2>1. /\ Sound(left, 0, 0)
        /\ Kept(swarm, left) \/ Lost(swarm, left, owner[s])
        /\ s \in swarm.listed /\ owner[s] \in PeerId =>
              owner[s] \notin Members(left)
    <3>1. CASE owner[s] # NoId /\ s \in swarm.listed
      <4>1. owner[s] \in PeerId
        BY <1>0, <3>1
      <4>2. /\ Sound(left, 0, 0)
            /\ owner[s] \in Members(swarm) => Lost(swarm, left, owner[s])
            /\ owner[s] \notin Members(swarm) => left = swarm
        BY <1>0, <3>1, <4>1, LeaveSound
      <4> HIDE DEF left
      <4>3. Lost(swarm, left, owner[s]) => owner[s] \notin Members(left)
        BY <1>0 DEF Lost, Members, IsPeer, Swarms
      <4> QED
        BY <4>2, <4>3 DEF Kept
    <3>2. CASE ~(owner[s] # NoId /\ s \in swarm.listed)
      <4>1. left = swarm
        BY <3>2
      <4> HIDE DEF left
      <4> QED
        BY <1>0, <3>2, <4>1, EndpointAssumption DEF Kept
    <3> QED
      BY <3>1, <3>2
  <2> HIDE DEF left
  <2>2. /\ swarm'.cache = left.cache /\ swarm'.listed = left.listed \ {s}
        /\ Members(swarm') = Members(left) /\ Members(left) \subseteq Members(swarm)
    BY <1>0, <2>0, <2>1 DEF Sound, Sane, Swarms, Members, Kept, Lost, IsPeer
  <2>3. Linked(left, closed, owner, {})
    <3>1. Linked(swarm, closed, owner, {}) /\ {} \subseteq {}
      BY <2>0 DEF LInv
    <3> QED
      BY <1>0, <2>1, <3>1, LinkKept, LinkLost
  <2>4. ASSUME NEW k \in Members(left), NEW x, x = left.cache[k]
        PROVE  Tied(x, left.listed \ {s}, closed', owner')
    <3>1. /\ Tied(x, left.listed, closed, owner) /\ Fits(k, x)
          /\ x \in Peer /\ left.listed \subseteq Socket
      BY <2>1, <2>3, <2>4
      DEF Linked, Sound, Sane, Fitting, Swarms, Members, IsPeer
    <3>2. CASE x.type # "ws"
      BY <3>1, <3>2 DEF Tied
    <3>3. CASE x.type = "ws"
      <4>1. /\ x.socket \in left.listed /\ x.socket \notin closed
            /\ owner[x.socket] = x.peerId /\ x.peerId = k /\ k \in PeerId
        BY <3>1, <3>3 DEF Tied, Fits, Peer
      <4>2. left.listed \subseteq swarm.listed
        BY <2>1 DEF Kept, Lost
      <4>3. x.socket # s
        BY <2>1, <4>1, <4>2
      <4>4. /\ x.socket \in (left.listed \ {s}) \ closed'
            /\ owner'[x.socket] = owner[x.socket]
        BY <1>0, <2>0, <4>1, <4>3
      <4> QED
        BY <3>3, <4>1, <4>4 DEF Tied
    <3> QED
      BY <3>2, <3>3
  <2>5. Linked(swarm', closed', owner', {})
    BY <2>2, <2>4 DEF Linked
  <2>6. OwnerAnnounced'
    <3>1. \A q \in Socket : owner'[q] = IF q = s THEN NoId ELSE owner[q]
      BY <1>0, <2>0
    <3> QED
      BY <3>1 DEF LInv, OwnerAnnounced
  <2> QED
    BY <2>0, <2>5, <2>6 DEF LInv
<1>9. ASSUME StatsRequest
      PROVE  LInv'
  <2>1. Kept(swarm, swarm') /\ Here' = Here
    BY <1>9 DEF StatsRequest, Kept, Here, Idle, Counting
  <2> QED
    BY <1>9, <2>1, LinkQuiet DEF StatsRequest
<1>10. ASSUME StatsReply
       PROVE  LInv'
  <2>1. Kept(swarm, swarm') /\ Here' = Here
    BY <1>10 DEF StatsReply, Kept, Here, Idle
  <2> QED
    BY <1>10, <2>1, LinkQuiet DEF StatsReply
<1>11. ASSUME UNCHANGED vars
       PROVE  LInv'
  <2>1. Kept(swarm, swarm') /\ Here' = Here
    BY <1>11 DEF vars, Kept, Here
  <2> QED
    BY <1>11, <2>1, LinkQuiet DEF vars
<1> QED
  BY <1>1, <1>3, <1>4, <1>5, <1>6, <1>7, <1>8, <1>9, <1>10, <1>11 DEF Next

(* The variables of a behaviour satisfy both invariants together.          *)
LEMMA LinkAlways ==
    ASSUME NoHybrid, NoShared
    PROVE  Spec => [](IInv /\ LInv)
<1>1. IInv /\ LInv /\ [Next]_vars => (IInv /\ LInv)'
  BY StepInv, LinkStep
<1> QED
  BY <1>1, InitInv, LinkInit, PTL DEF Spec

(* When each socket carries one peer id and no client is hybrid, no member *)
(* refers to a socket whose close has been handled.                        *)
THEOREM NoGhosts == ASSUME NoHybrid, NoShared PROVE Spec => []NoGhost
<1>1. IInv /\ LInv => NoGhost
  <2> SUFFICES ASSUME IInv, LInv, NEW k \in Members(swarm)
               PROVE  swarm.cache[k].socket \notin closed
    BY DEF NoGhost
  <2>1. Tied(swarm.cache[k], swarm.listed \cup Here, closed, owner)
    BY DEF LInv, Linked
  <2>2. NoSocket \notin closed
    BY SwarmAssumption DEF IInv, TypeOK
  <2> QED
    BY <2>1, <2>2 DEF Tied
<1> QED
  BY <1>1, LinkAlways, PTL

(* Between two handlers, the socket of a WebSocket member names the swarm. *)
THEOREM MembersListed == ASSUME NoHybrid, NoShared PROVE Spec => []MemberListed
<1>1. LInv => MemberListed
  <2> SUFFICES ASSUME LInv, loop = Idle, NEW k \in Members(swarm),
                      swarm.cache[k].type = "ws"
               PROVE  swarm.cache[k].socket \in swarm.listed \cup closed
    BY DEF MemberListed
  <2>1. Here = {}
    BY DEF Here, Idle
  <2> QED
    BY <2>1 DEF LInv, Linked, Tied
<1> QED
  BY <1>1, LinkAlways, PTL

-----------------------------------------------------------------------------
(***************************************************************************)
(* The peers of a reply. Peeking at a key drops at most that key, which is *)
(* then no longer to be peeked at, so the picked keys stay members.        *)
(***************************************************************************)
PInv ==
    loop.run = "announce" =>
        /\ loop.got \cap loop.todo = {}
        /\ \A k \in loop.got : /\ k \in Members(swarm)
                               /\ Eligible(swarm.cache[k], loop.by)
        /\ \A k \in Members(swarm) : Eligible(swarm.cache[k], loop.by) =>
              k \in loop.got \cup loop.todo

LEMMA PickInit == Init => PInv
BY DEF Init, PInv, Idle

LEMMA PickStep == NoHybrid /\ IInv /\ PInv /\ [Next]_vars => PInv'
<1> SUFFICES ASSUME NoHybrid, IInv, PInv, [Next]_vars
             PROVE  PInv'
  OBVIOUS
<1>0. /\ Sound(swarm, 0, 0) /\ swarm \in Swarms /\ loop \in Loops
      /\ Idle.run # "announce"
  BY IInvSound DEF Sound, Sane, TypeOK, Idle
<1>1. ASSUME NEW p \in Endpoint, NEW event \in Event \cup {"unknown"},
             NEW done \in BOOLEAN, NEW want \in NumWant,
             AnnounceRequest(p, event, done, want)
      PROVE  PInv'
  BY <1>0, <1>1 DEF AnnounceRequest, PInv, Answering
<1>2. ASSUME NEW k \in Key, PickPeer(k)
      PROVE  PInv'
  <2> DEFINE s == Peek(swarm, k)
             picked == IsPeer(s.cache[k]) /\ Eligible(s.cache[k], loop.by)
  <2>1. loop \in [run : {"announce"}, by : Endpoint, want : NumWant,
                  todo : SUBSET Key, got : SUBSET Key]
    BY <1>0, <1>2 DEF PickPeer, Loops, Idle
  <2>2. /\ swarm' = s
        /\ loop'.by = loop.by /\ loop'.todo = loop.todo \ {k}
        /\ loop'.got = IF picked THEN loop.got \cup {k} ELSE loop.got
        /\ k \in loop.todo
    BY <1>2, <2>1 DEF PickPeer
  <2>3. Lost(swarm, s, k) \/ s = swarm
    BY <1>0, PeekSound
  <2> HIDE DEF s
  <2>4. /\ \A l \in Key \ {k} : s.cache[l] = swarm.cache[l]
        /\ k \in Members(s) <=> IsPeer(s.cache[k])
    BY <1>0, <2>3 DEF Lost, Swarms, Members
  <2>5. /\ loop.got \cap loop.todo = {}
        /\ \A l \in loop.got : l \in Members(swarm) /\ Eligible(swarm.cache[l], loop.by)
        /\ \A l \in Members(swarm) : Eligible(swarm.cache[l], loop.by) =>
              l \in loop.got \cup loop.todo
    BY <1>2 DEF PInv, PickPeer
  <2>6. \A l \in Key \ {k} : l \in Members(s) <=> l \in Members(swarm)
    BY <2>4 DEF Members
  <2>7. loop'.got \cap loop'.todo = {}
    BY <2>2, <2>5
  <2>8. ASSUME NEW l \in loop'.got
        PROVE  l \in Members(s) /\ Eligible(s.cache[l], loop.by)
    <3>1. CASE l = k
      BY <2>2, <2>4, <2>5, <2>8, <3>1
    <3>2. CASE l # k
      <4>1. l \in loop.got /\ l \in Key
        BY <2>1, <2>2, <2>8, <3>2
      <4> QED
        BY <2>4, <2>5, <2>6, <3>2, <4>1
    <3> QED
      BY <3>1, <3>2
  <2>9. ASSUME NEW l \in Members(s), Eligible(s.cache[l], loop.by)
        PROVE  l \in loop'.got \cup loop'.todo
    <3>1. CASE l = k
      BY <2>2, <2>4, <2>9, <3>1
    <3>2. CASE l # k
      <4>1. l \in Key
        BY DEF Members
      <4>2. l \in Members(swarm) /\ Eligible(swarm.cache[l], loop.by)
        BY <2>4, <2>6, <2>9, <3>2, <4>1
      <4> QED
        BY <2>2, <2>5, <3>2, <4>2
    <3> QED
      BY <3>1, <3>2
  <2> QED
    BY <2>2, <2>7, <2>8, <2>9 DEF PInv
<1>3. ASSUME UNCHANGED loop, loop.run # "announce"
      PROVE  PInv'
  BY <1>3 DEF PInv
<1>4. ASSUME loop'.run # "announce"
      PROVE  PInv'
  BY <1>4 DEF PInv
<1>5. ASSUME NEW k \in Key, CountPeer(k)
      PROVE  PInv'
  <2>1. loop \in [run : {"stats"}, todo : SUBSET Key]
    BY <1>0, <1>5 DEF CountPeer, Loops, Idle
  <2>2. loop'.run # "announce"
    BY <1>5, <2>1 DEF CountPeer
  <2> QED
    BY <1>4, <2>2
<1>6. ASSUME (\E k \in Key : GrowOld(k)) \/ (\E id \in PeerId : RelayAnswer(id))
               \/ \E s \in Socket : CloseSocket(s)
      PROVE  PInv'
  BY <1>0, <1>3, <1>6 DEF GrowOld, RelayAnswer, CloseSocket
<1>7. ASSUME Reply \/ StatsRequest \/ StatsReply
      PROVE  PInv'
  BY <1>0, <1>4, <1>7 DEF Reply, StatsRequest, StatsReply, Counting
<1>8. ASSUME UNCHANGED vars
      PROVE  PInv'
  BY <1>8 DEF vars, PInv
<1> QED
  BY <1>1, <1>2, <1>5, <1>6, <1>7, <1>8 DEF Next

(* A reply that holds fewer peers than were asked for holds all the peers  *)
(* its requester may have.                                                 *)
THEOREM RepliesComplete == ASSUME NoHybrid PROVE Spec => []ReplyComplete
<1>1. IInv /\ PInv /\ [Next]_vars => (IInv /\ PInv)'
  BY StepInv, PickStep
<1>2. IInv /\ PInv => ReplyComplete
  <2> SUFFICES ASSUME IInv, PInv, loop.run = "announce", PickingDone,
                      Cardinality(loop.got) < loop.want
               PROVE  loop.got = {k \in Members(swarm) :
                                     Eligible(swarm.cache[k], loop.by)}
    BY DEF ReplyComplete
  <2>1. loop \in [run : {"announce"}, by : Endpoint, want : NumWant,
                  todo : SUBSET Key, got : SUBSET Key]
    BY DEF IInv, TypeOK, Loops, Idle
  <2>2. Cardinality(loop.got) \in Nat /\ loop.want \in Nat
    BY <2>1, EndpointAssumption, SwarmAssumption, FS_Subset, FS_CardinalityType
    DEF Key
  <2>3. loop.todo = {}
    BY <2>2 DEF PickingDone
  <2> QED
    BY <2>3 DEF PInv
<1> QED
  BY <1>1, <1>2, InitInv, PickInit, PTL DEF Spec

(* Every peer of a reply is still a member when the reply leaves; those a  *)
(* WebSocket peer gets have an open socket.                                *)
THEOREM PickedUsable ==
    ASSUME NoHybrid, NoShared
    PROVE  Spec => []PickedAreUsable
<1>1. IInv /\ LInv /\ PInv /\ [Next]_vars => (IInv /\ LInv /\ PInv)'
  BY StepInv, LinkStep, PickStep
<1>2. IInv /\ LInv /\ PInv => PickedAreUsable
  <2> SUFFICES ASSUME IInv, LInv, PInv, loop.run = "announce", NEW k \in loop.got
               PROVE  /\ IsPeer(swarm.cache[k])
                      /\ Eligible(swarm.cache[k], loop.by)
                      /\ loop.by.type = "ws" => swarm.cache[k].socket \notin closed
    BY DEF PickedAreUsable
  <2>1. k \in Members(swarm) /\ Eligible(swarm.cache[k], loop.by)
    BY DEF PInv
  <2>2. Tied(swarm.cache[k], swarm.listed \cup Here, closed, owner)
    BY <2>1 DEF LInv, Linked
  <2> QED
    BY <2>1, <2>2 DEF Members, Eligible, Tied
<1> QED
  BY <1>1, <1>2, InitInv, LinkInit, PickInit, PTL DEF Spec

-----------------------------------------------------------------------------
(***************************************************************************)
(* What one step does to the cache.                                        *)
(***************************************************************************)
Effect(s, t) ==
    \/ Kept(s, t)
    \/ \E k \in Key : Lost(s, t, k) \/ Finished(s, t, k)
    \/ \E k \in Key, x \in Peer :
          Renewed(s, t, k, x) \/ Entered(s, t, k, x) \/ Displaced(s, t, k, x)

(* The list of sockets aside, which Reply and CloseSocket also write.      *)
LEMMA StepEffect ==
    ASSUME NoHybrid, IInv, [Next]_vars
    PROVE  \E t : t.cache = swarm'.cache /\ Effect(swarm, t)
<1>0. Sound(swarm, 0, 0) /\ swarm \in Swarms /\ owner \in [Socket -> PeerId \cup {NoId}]
  BY IInvSound DEF Sound, Sane, IInv, TypeOK
<1>1. ASSUME NEW p \in Endpoint, NEW event \in Event \cup {"unknown"},
             NEW done \in BOOLEAN, NEW want \in NumWant,
             AnnounceRequest(p, event, done, want)
      PROVE  Effect(swarm, swarm')
  <2>1. Announced(swarm, swarm', p, event, done)
    BY <1>0, <1>1, AnnounceSound DEF AnnounceRequest
  <2>2. KeyOf(p) \in Key /\ NewPeer(p, done) \in Peer
    BY KeyOfType, EndpointAssumption DEF Endpoints, NewPeer, Peer
  <2> QED
    BY <2>1, <2>2 DEF Announced, Effect
<1>2. ASSUME NEW k \in Key, swarm' = Peek(swarm, k)
      PROVE  Effect(swarm, swarm')
  BY <1>0, <1>2, PeekSound DEF Effect, Kept
<1>3. ASSUME NEW k \in Key, GrowOld(k)
      PROVE  Effect(swarm, swarm')
  BY <1>0, <1>3 DEF GrowOld, Effect, Kept, Swarms
<1>4. ASSUME Reply
      PROVE  \E t : t.cache = swarm'.cache /\ Effect(swarm, t)
  <2>1. swarm'.cache = swarm.cache
    BY <1>0, <1>4 DEF Reply, Swarms
  <2> QED
    BY <2>1 DEF Effect, Kept
<1>5. ASSUME NEW id \in PeerId, RelayAnswer(id)
      PROVE  Effect(swarm, swarm')
  <2>1. id \in Key
    BY DEF Key
  <2> QED
    BY <1>0, <1>5, <2>1, GetSound DEF RelayAnswer, Effect, Kept
<1>6. ASSUME NEW s \in Socket, CloseSocket(s)
      PROVE  \E t : t.cache = swarm'.cache /\ Effect(swarm, t)
  <2> DEFINE left == IF owner[s] # NoId /\ s \in swarm.listed
                     THEN Leave(swarm, owner[s]) ELSE swarm
  <2>1. Effect(swarm, left) /\ left \in Swarms
    <3>1. CASE owner[s] # NoId /\ s \in swarm.listed
      <4>1. owner[s] \in PeerId /\ owner[s] \in Key
        BY <1>0, <3>1 DEF Key
      <4> QED
        BY <1>0, <3>1, <4>1, LeaveSound DEF Effect, Kept, Sound, Sane
    <3>2. CASE ~(owner[s] # NoId /\ s \in swarm.listed)
      BY <1>0, <3>2 DEF Effect, Kept
    <3> QED
      BY <3>1, <3>2
  <2>2. swarm' = [left EXCEPT !.listed = left.listed \ {s}]
    BY <1>6 DEF CloseSocket
  <2> HIDE DEF left
  <2>3. swarm'.cache = left.cache
    BY <2>1, <2>2 DEF Swarms
  <2> QED
    BY <2>1, <2>3
<1>7. ASSUME UNCHANGED swarm
      PROVE  Effect(swarm, swarm')
  BY <1>7 DEF Effect, Kept
<1> QED
  BY <1>1, <1>2, <1>3, <1>4, <1>5, <1>6, <1>7
  DEF Next, PickPeer, CountPeer, StatsRequest, StatsReply, vars

(* Whatever a seeder announces, it stays a seeder while its entry lives.   *)
THEOREM SeedersStay == ASSUME NoHybrid PROVE Spec => SeederStays
<1> DEFINE Step == \A k \in Seeders(swarm) \ swarm.stale :
                      k \in Members(swarm)' => k \in Seeders(swarm)'
<1>1. IInv /\ [Next]_vars => IInv'
  BY StepInv
<1>2. IInv /\ [Next]_vars => [Step]_vars
  <2> SUFFICES ASSUME IInv, [Next]_vars,
                      NEW k \in Seeders(swarm) \ swarm.stale, k \in Members(swarm')
               PROVE  k \in Seeders(swarm')
    BY DEF Step
  <2>1. PICK t : t.cache = swarm'.cache /\ Effect(swarm, t)
    BY StepEffect
  <2>2. /\ k \in Key /\ k \in Members(swarm) /\ swarm.cache[k].complete
        /\ swarm.cache \in [Key -> Peer \cup {NoPeer}]
        /\ IsPeer(t.cache[k])
    BY <2>1 DEF Seeders, Members, IInv, TypeOK, Swarms
  <2>3. t.cache[k] = swarm.cache[k]
    <3>1. CASE Kept(swarm, t)
      BY <3>1 DEF Kept
    <3>2. ASSUME NEW l \in Key, Lost(swarm, t, l)
          PROVE  t.cache[k] = swarm.cache[k]
      BY <2>2, <3>2 DEF Lost, IsPeer
    <3>3. ASSUME NEW l \in Key, Finished(swarm, t, l)
          PROVE  t.cache[k] = swarm.cache[k]
      BY <2>2, <3>3 DEF Finished
    <3>4. ASSUME NEW l \in Key, NEW x \in Peer, Renewed(swarm, t, l, x)
          PROVE  t.cache[k] = swarm.cache[k]
      BY <2>2, <3>4 DEF Renewed
    <3>5. ASSUME NEW l \in Key, NEW x \in Peer, Entered(swarm, t, l, x)
          PROVE  t.cache[k] = swarm.cache[k]
      BY <2>2, <3>5 DEF Entered
    <3>6. ASSUME NEW l \in Key, NEW x \in Peer, Displaced(swarm, t, l, x)
          PROVE  t.cache[k] = swarm.cache[k]
      BY <2>2, <3>6 DEF Displaced, IsPeer
    <3> QED
      BY <2>1, <3>1, <3>2, <3>3, <3>4, <3>5, <3>6 DEF Effect
  <2> QED
    BY <2>1, <2>2, <2>3 DEF Seeders, Members
<1> QED
  BY <1>1, <1>2, InitInv, PTL DEF Spec, SeederStays

(* A fresh member is removed only by its own announce, by the close of a   *)
(* socket that belongs to it, or as the least recently used of a full one. *)
THEOREM RemovalsHaveCause == ASSUME NoHybrid PROVE Spec => RemovedForCause
<1> DEFINE Cause(k) == \/ loop'.run = "announce" /\ KeyOf(loop'.by) = k
                       \/ \E s \in closed' \ closed : owner[s] = k
                       \/ k = Head(swarm.order) /\ Len(swarm.order) = MaxPeers
           Step == \A k \in Members(swarm) \ swarm.stale :
                      k \notin Members(swarm)' => Cause(k)
<1>1. IInv /\ [Next]_vars => IInv'
  BY StepInv
<1>2. IInv /\ [Next]_vars => [Step]_vars
  <2> SUFFICES ASSUME IInv, [Next]_vars,
                      NEW k \in Members(swarm) \ swarm.stale,
                      k \notin Members(swarm')
               PROVE  Cause(k)
    BY DEF Step
  <2> HIDE DEF Step
  <2>0. /\ Sound(swarm, 0, 0) /\ swarm \in Swarms /\ k \in Key
        /\ owner \in [Socket -> PeerId \cup {NoId}]
        /\ swarm.cache \in [Key -> Peer \cup {NoPeer}]
    BY IInvSound DEF Sound, Sane, IInv, TypeOK, Members, Swarms
  <2>1. \A t : Kept(swarm, t) => k \in Members(t)
    BY DEF Kept, Members
  <2>2. \A t, l : Lost(swarm, t, l) /\ k # l => k \in Members(t)
    BY <2>0 DEF Lost, Members
  <2>3. ASSUME NEW p \in Endpoint, NEW event \in Event \cup {"unknown"},
               NEW done \in BOOLEAN, NEW want \in NumWant,
               AnnounceRequest(p, event, done, want)
        PROVE  Cause(k)
    <3> DEFINE l == KeyOf(p)
               x == NewPeer(p, done)
    <3>1. Announced(swarm, swarm', p, event, done)
      BY <2>0, <2>3, AnnounceSound DEF AnnounceRequest
    <3>2. event \in Event => loop'.run = "announce" /\ loop'.by = p
      BY <2>3 DEF AnnounceRequest, Answering
    <3>3. l \in Key /\ x # NoPeer
      BY KeyOfType, EndpointAssumption, SwarmAssumption
      DEF Endpoints, NewPeer, Peer
    <3>4. /\ x = NewPeer(p, done) /\ l = KeyOf(p)
          /\ \/ Kept(swarm, swarm')
             \/ l \in swarm.stale /\ Lost(swarm, swarm', l)
             \/ event \in Event /\ Lost(swarm, swarm', l)
             \/ event \in Event /\ Finished(swarm, swarm', l)
             \/ event \in Event /\ Renewed(swarm, swarm', l, x)
             \/ event \in Event /\ Entered(swarm, swarm', l, x)
             \/ event \in Event /\ Displaced(swarm, swarm', l, x)
      BY <3>1 DEF Announced
    <3> HIDE DEF l, x
    <3>5. CASE l \in swarm.stale /\ Lost(swarm, swarm', l)
      BY <2>2, <3>5
    <3>6. CASE event \in Event /\ Lost(swarm, swarm', l)
      BY <2>2, <3>2, <3>4, <3>6
    <3>7. CASE Finished(swarm, swarm', l)
      <4>1. swarm.cache[l] \in Peer
        BY <2>0, <3>3, <3>7 DEF Finished, Members, IsPeer
      <4>2. [swarm.cache[l] EXCEPT !.complete = TRUE] \in Peer
        BY <4>1 DEF Peer
      <4> QED
        BY <2>0, <3>7, <4>2, SwarmAssumption DEF Finished, Members, IsPeer
    <3>8. CASE Renewed(swarm, swarm', l, x)
      BY <2>0, <3>3, <3>8 DEF Renewed, Members, IsPeer
    <3>9. CASE Entered(swarm, swarm', l, x)
      BY <2>0, <3>3, <3>9 DEF Entered, Members, IsPeer
    <3>10. CASE Displaced(swarm, swarm', l, x)
      BY <2>0, <3>3, <3>10 DEF Displaced, Members, IsPeer
    <3> QED
      BY <2>1, <3>4, <3>5, <3>6, <3>7, <3>8, <3>9, <3>10
  <2>4. ASSUME NEW l, swarm' = Peek(swarm, l)
        PROVE  FALSE
    BY <2>0, <2>2, <2>4, PeekSound
  <2>5. ASSUME NEW l \in Key, GrowOld(l)
        PROVE  FALSE
    BY <2>0, <2>1, <2>5 DEF GrowOld, Kept, Swarms
  <2>6. ASSUME Reply
        PROVE  FALSE
    BY <2>0, <2>6 DEF Reply, Swarms, Members
  <2>7. ASSUME NEW id \in PeerId, RelayAnswer(id)
        PROVE  FALSE
    <3>1. id \in Key
      BY DEF Key
    <3> QED
      BY <2>0, <2>1, <2>2, <2>7, <3>1, GetSound DEF RelayAnswer
  <2>8. ASSUME NEW s \in Socket, CloseSocket(s)
        PROVE  Cause(k)
    <3> DEFINE left == IF owner[s] # NoId /\ s \in swarm.listed
                       THEN Leave(swarm, owner[s]) ELSE swarm
    <3>1. /\ left \in Swarms
          /\ left = swarm \/ Lost(swarm, left, owner[s])
      <4>1. CASE owner[s] # NoId /\ s \in swarm.listed
        <5>1. owner[s] \in PeerId
          BY <2>0, <4>1
        <5> QED
          BY <2>0, <4>1, <5>1, LeaveSound DEF Sound, Sane
      <4> QED
        BY <2>0, <4>1
    <3>2. /\ swarm' = [left EXCEPT !.listed = left.listed \ {s}]
          /\ s \in closed' \ closed
      BY <2>8 DEF CloseSocket
    <3> HIDE DEF left
    <3>3. Members(left) = Members(swarm')
      BY <3>1, <3>2 DEF Swarms, Members
    <3>4. owner[s] = k
      BY <2>2, <3>1, <3>3
    <3> QED
      BY <3>2, <3>4
  <2>9. CASE UNCHANGED swarm
    BY <2>9
  <2> HIDE DEF Cause
  <2> QED
    BY <2>3, <2>4, <2>5, <2>6, <2>7, <2>8, <2>9
    DEF Next, PickPeer, CountPeer, StatsRequest, StatsReply, vars
<1> QED
  BY <1>1, <1>2, InitInv, PTL DEF Spec, RemovedForCause

-----------------------------------------------------------------------------
(***************************************************************************)
(* The refinement: seen from the roles of the keys and the two counters,   *)
(* each step is one of PeerRegistry's or changes nothing.                  *)
(***************************************************************************)

(* Both counters, and the room there is, can be read off the roles.        *)
LEMMA RolesCount ==
    ASSUME NEW s
    PROVE  /\ {k \in Key : Roles(s)[k] = "seeder"} = Seeders(s)
           /\ {k \in Key : Roles(s)[k] = "leecher"} = Leechers(s)
           /\ Leechers(s) \cup Seeders(s) = Members(s)
BY DEF Roles, RoleOf, Seeders, Leechers, Members

(* Writing a cache entry writes the role of its key.                       *)
LEMMA RolesSet ==
    ASSUME NEW s, NEW t, NEW k \in Key, NEW x,
           s.cache \in [Key -> Peer \cup {NoPeer}],
           t.cache = [s.cache EXCEPT ![k] = x]
    PROVE  Roles(t) = [Roles(s) EXCEPT ![k] = RoleOf(x)]
BY DEF Roles

(* The registry counts with the Cardinality of its own copy of FiniteSets. *)
LEMMA SameCardinality == \A S : Registry!Cardinality(S) = Cardinality(S)
BY DEF Registry!Cardinality, Cardinality

LEMMA RegistryInit == Init => Registry!Init
<1> SUFFICES ASSUME Init
             PROVE  Registry!Init
  OBVIOUS
<1>1. Roles(swarm) = [k \in Key |-> "absent"]
  BY DEF Init, NewSwarm, Roles, RoleOf, IsPeer
<1> QED
  BY <1>1 DEF Init, NewSwarm, Registry!Init

LEMMA RegistryStep ==
    ASSUME IInv, IInv', NEW t, t.cache = swarm'.cache, Effect(swarm, t)
    PROVE  [Registry!Next]_(Registry!vars)
<1>1. /\ Sane(swarm)
      /\ swarm.cache \in [Key -> Peer \cup {NoPeer}]
      /\ swarm.complete = Cardinality(Seeders(swarm))
      /\ swarm.incomplete = Cardinality(Leechers(swarm))
      /\ swarm'.complete = Cardinality(Seeders(swarm'))
      /\ swarm'.incomplete = Cardinality(Leechers(swarm'))
  BY IInvSound DEF IInv, TypeOK, CountsMatch, Sound, Swarms
<1>2. Registry!Count
  <2>1. /\ {k \in Key : Roles(swarm')[k] = "seeder"} = Seeders(swarm')
        /\ {k \in Key : Roles(swarm')[k] = "leecher"} = Leechers(swarm')
    BY RolesCount
  <2> QED
    BY <1>1, <2>1, SameCardinality DEF Registry!Count, Registry!In
<1>3. Registry!Present = Members(swarm)
  BY RolesCount DEF Registry!Present, Registry!In
<1>4. Registry!Cardinality(Registry!Present) = Len(swarm.order)
  BY <1>1, <1>3, OrderCounts, SameCardinality
<1>5. /\ \A k \in Key : k \in Members(swarm) <=> Roles(swarm)[k] # "absent"
      /\ Roles(swarm') = Roles(t)
      /\ \A x \in Peer : RoleOf(x) = IF x.complete THEN "seeder" ELSE "leecher"
      /\ RoleOf(NoPeer) = "absent"
  BY SwarmAssumption DEF Roles, RoleOf, Members, IsPeer
<1>6. ASSUME NEW k \in Key, NEW x, t.cache = [swarm.cache EXCEPT ![k] = x]
       PROVE  Roles(swarm') = [Roles(swarm) EXCEPT ![k] = RoleOf(x)]
  <2>1. Roles(t) = [Roles(swarm) EXCEPT ![k] = RoleOf(x)]
    BY <1>1, <1>6, RolesSet
  <2> QED
    BY <1>5, <2>1
<1>7. CASE Kept(swarm, t)
  <2>1. /\ Roles(swarm') = Roles(swarm)
        /\ Seeders(swarm') = Seeders(swarm)
        /\ Leechers(swarm') = Leechers(swarm)
    BY <1>7 DEF Kept, Roles, Seeders, Leechers, Members
  <2> QED
    BY <1>1, <2>1 DEF Registry!vars
<1>8. ASSUME NEW k \in Key, Lost(swarm, t, k)
      PROVE  Registry!Next
  <2>1. Roles(swarm') = [Roles(swarm) EXCEPT ![k] = "absent"]
    <3>1. t.cache = [swarm.cache EXCEPT ![k] = NoPeer]
      BY <1>8 DEF Lost
    <3>2. Roles(swarm') = [Roles(swarm) EXCEPT ![k] = RoleOf(NoPeer)]
      BY <1>6, <3>1
    <3> QED
      BY <1>5, <3>2
  <2>2. Roles(swarm)[k] # "absent"
    BY <1>5, <1>8 DEF Lost
  <2>3. Registry!Exit(k)
    BY <1>2, <2>1, <2>2 DEF Registry!Exit
  <2> QED
    BY <2>3 DEF Registry!Next
<1>9. ASSUME NEW k \in Key, Finished(swarm, t, k)
      PROVE  Registry!Next
  <2> DEFINE x == [swarm.cache[k] EXCEPT !.complete = TRUE]
  <2>1. swarm.cache[k] \in Peer /\ ~swarm.cache[k].complete
    BY <1>1, <1>9 DEF Finished, Members, IsPeer
  <2>2. x \in Peer /\ x.complete
    BY <2>1 DEF Peer
  <2>3. t.cache = [swarm.cache EXCEPT ![k] = x]
    BY <1>9 DEF Finished
  <2> HIDE DEF x
  <2>4. Roles(swarm') = [Roles(swarm) EXCEPT ![k] = "seeder"]
    <3>1. Roles(swarm') = [Roles(swarm) EXCEPT ![k] = RoleOf(x)]
      BY <1>6, <2>3
    <3> QED
      BY <1>5, <2>2, <3>1
  <2>5. Roles(swarm)[k] = "leecher"
    BY <1>5, <2>1 DEF Roles
  <2>6. Registry!Finish(k)
    BY <1>2, <2>4, <2>5 DEF Registry!Finish
  <2> QED
    BY <2>6 DEF Registry!Next
<1>10. ASSUME NEW k \in Key, NEW x \in Peer, Renewed(swarm, t, k, x)
      PROVE  Registry!Next
  <2> DEFINE y == IF x.complete THEN "seeder" ELSE "leecher"
  <2>1. Roles(swarm') = [Roles(swarm) EXCEPT ![k] = y]
    <3>1. t.cache = [swarm.cache EXCEPT ![k] = x]
      BY <1>10 DEF Renewed
    <3>2. Roles(swarm') = [Roles(swarm) EXCEPT ![k] = RoleOf(x)]
      BY <1>6, <3>1
    <3> QED
      BY <1>5, <3>2
  <2>2. Roles(swarm)[k] # "absent"
    BY <1>1, <1>5, <1>10 DEF Renewed, Sane, Ordered
  <2>3. y \in {"leecher", "seeder"}
    OBVIOUS
  <2> HIDE DEF y
  <2>4. Registry!Renew(k, y)
    BY <1>2, <2>1, <2>2 DEF Registry!Renew
  <2> QED
    BY <2>3, <2>4 DEF Registry!Next
<1>11. ASSUME NEW k \in Key, NEW x \in Peer, Entered(swarm, t, k, x)
       PROVE  Registry!Next
  <2> DEFINE y == IF x.complete THEN "seeder" ELSE "leecher"
  <2>1. Roles(swarm') = [Roles(swarm) EXCEPT ![k] = y]
    <3>1. t.cache = [swarm.cache EXCEPT ![k] = x]
      BY <1>11 DEF Entered
    <3>2. Roles(swarm') = [Roles(swarm) EXCEPT ![k] = RoleOf(x)]
      BY <1>6, <3>1
    <3> QED
      BY <1>5, <3>2
  <2>2. Roles(swarm)[k] = "absent" /\ Registry!Cardinality(Registry!Present) < MaxPeers
    BY <1>4, <1>5, <1>11 DEF Entered
  <2>3. y \in {"leecher", "seeder"}
    OBVIOUS
  <2> HIDE DEF y
  <2>4. Registry!Enter(k, y)
    BY <1>2, <2>1, <2>2 DEF Registry!Enter
  <2> QED
    BY <2>3, <2>4 DEF Registry!Next
<1>12. ASSUME NEW k \in Key, NEW x \in Peer, Displaced(swarm, t, k, x)
       PROVE  Registry!Next
  <2> DEFINE y == IF x.complete THEN "seeder" ELSE "leecher"
             v == Head(swarm.order)
             u == [cache |-> [swarm.cache EXCEPT ![v] = NoPeer]]
  <2>1. /\ v \in Members(swarm) /\ v \in Key /\ k # v
        /\ u.cache = [swarm.cache EXCEPT ![v] = NoPeer]
        /\ t.cache = [u.cache EXCEPT ![k] = x]
    BY <1>12 DEF Displaced, Members
  <2> HIDE DEF u, v
  <2>2. u.cache \in [Key -> Peer \cup {NoPeer}]
    BY <1>1, <2>1
  <2>3. Roles(u) = [Roles(swarm) EXCEPT ![v] = "absent"]
    <3>1. Roles(u) = [Roles(swarm) EXCEPT ![v] = RoleOf(NoPeer)]
      BY <1>1, <2>1, RolesSet
    <3> QED
      BY <1>5, <3>1
  <2>4. Roles(t) = [Roles(u) EXCEPT ![k] = y]
    <3>1. Roles(t) = [Roles(u) EXCEPT ![k] = RoleOf(x)]
      <4>1. t.cache = [u.cache EXCEPT ![k] = x]
        BY <2>1
      <4> QED
        BY <2>2, <4>1, RolesSet
    <3> QED
      BY <1>5, <3>1
  <2>5. y \in {"leecher", "seeder"}
    OBVIOUS
  <2> HIDE DEF y
  <2>6. Roles(swarm') = [Roles(swarm) EXCEPT ![k] = y, ![v] = "absent"]
    <3>1. Roles(swarm') = [[Roles(swarm) EXCEPT ![v] = "absent"] EXCEPT ![k] = y]
      BY <1>5, <2>3, <2>4
    <3>2. Roles(swarm) \in [Key -> {"absent", "leecher", "seeder"}]
      BY DEF Roles, RoleOf
    <3> QED
      BY <2>1, <3>1, <3>2
  <2>7. /\ Roles(swarm)[k] = "absent" /\ Registry!Cardinality(Registry!Present) = MaxPeers
        /\ v \in Registry!Present
    BY <1>3, <1>4, <1>5, <1>12, <2>1 DEF Displaced
  <2>8. Registry!Enter(k, y)
    BY <1>2, <2>6, <2>7 DEF Registry!Enter
  <2> QED
    BY <2>5, <2>8 DEF Registry!Next
<1> QED
  BY <1>7, <1>8, <1>9, <1>10, <1>11, <1>12 DEF Effect

(* Seen from the counters and the roles, every handler is one legal step   *)
(* of the registry of peers, whatever it evicts on its way.                *)
THEOREM Implements == ASSUME NoHybrid PROVE Spec => ImplementsRegistry
<1>1. IInv /\ [Next]_vars => IInv'
  BY StepInv
<1>2. IInv /\ IInv' /\ [Next]_vars => [Registry!Next]_(Registry!vars)
  BY StepEffect, RegistryStep
<1> QED
  BY <1>1, <1>2, InitInv, RegistryInit, PTL
  DEF Spec, ImplementsRegistry, Registry!Spec
=============================================================================
