--------------------------- MODULE SwarmOpsProofs ---------------------------
(***************************************************************************)
(* What the functions of SwarmOps do to a swarm, for every number of peers,*)
(* addresses and sockets and every cache length. Swarm and TrackerServer   *)
(* are proved about with these facts.                                      *)
(***************************************************************************)
EXTENDS SwarmOps, TLAPS, FiniteSetTheorems, SequenceTheorems

-----------------------------------------------------------------------------
(***************************************************************************)
(* The recency list: a sequence without repetitions.                       *)
(***************************************************************************)

Elements(q) == {q[i] : i \in DOMAIN q}
Distinct(q) == \A i, j \in DOMAIN q : q[i] = q[j] => i = j

(* Removing a key from the recency list removes its one occurrence.        *)
LEMMA RemoveFirstFacts ==
    ASSUME NEW q \in Seq(Key), NEW k, Distinct(q)
    PROVE  /\ RemoveFirst(q, k) \in Seq(Key)
           /\ Elements(RemoveFirst(q, k)) = Elements(q) \ {k}
           /\ Distinct(RemoveFirst(q, k))
           /\ k \in Elements(q) => Len(RemoveFirst(q, k)) = Len(q) - 1
           /\ k \notin Elements(q) => RemoveFirst(q, k) = q
<1>1. CASE ~ \E i \in 1..Len(q) : q[i] = k
  BY <1>1 DEF RemoveFirst, Elements
<1>2. CASE \E i \in 1..Len(q) : q[i] = k
  <2>1. PICK n \in 1..Len(q) : q[n] = k
    BY <1>2
  <2>2. {i \in 1..Len(q) : q[i] = k} = {n}
    BY <2>1 DEF Distinct
  <2>3. SelectInSeq(q, LAMBDA v : v = k) = n
    <3>1. Min({n}) = n
      BY DEF Min
    <3> QED
      BY <2>2, <3>1 DEF SelectInSeq
  <2>4. RemoveFirst(q, k) = SubSeq(q, 1, n - 1) \o SubSeq(q, n + 1, Len(q))
    BY <1>2, <2>3 DEF RemoveFirst, RemoveAt
  <2> DEFINE r == RemoveFirst(q, k)
             a == SubSeq(q, 1, n - 1)
             b == SubSeq(q, n + 1, Len(q))
  <2>5. /\ a \in Seq(Key)
        /\ Len(a) = n - 1
        /\ \A i \in 1..(n - 1) : a[i] = q[i]
    <3>1. \A i \in 1..(n - 1) : q[i] \in Key
      OBVIOUS
    <3> QED
      BY <3>1, SubSeqProperties
  <2>6. /\ b \in Seq(Key)
        /\ Len(b) = Len(q) - n
        /\ \A i \in 1..(Len(q) - n) : b[i] = q[n + i]
    <3>1. \A i \in (n + 1)..Len(q) : q[i] \in Key
      OBVIOUS
    <3> QED
      BY <3>1, SubSeqProperties
  <2>7. /\ r \in Seq(Key)
        /\ Len(r) = Len(q) - 1
        /\ \A i \in 1..(Len(q) - 1) : r[i] = IF i < n THEN q[i] ELSE q[i + 1]
    <3> HIDE DEF a, b
    <3>1. /\ a \o b \in Seq(Key)
          /\ Len(a \o b) = Len(a) + Len(b)
          /\ \A i \in 1..(Len(a) + Len(b)) :
                (a \o b)[i] = IF i <= Len(a) THEN a[i] ELSE b[i - Len(a)]
      BY <2>5, <2>6, ConcatProperties
    <3>2. r = a \o b
      BY <2>4 DEF a, b
    <3>3. Len(a) + Len(b) = Len(q) - 1
      BY <2>5, <2>6
    <3>4. ASSUME NEW i \in 1..(Len(q) - 1)
          PROVE  (a \o b)[i] = IF i < n THEN q[i] ELSE q[i + 1]
      <4>1. CASE i < n
        BY <3>1, <3>3, <4>1, <2>5
      <4>2. CASE ~ i < n
        <5>1. i - (n - 1) \in 1..(Len(q) - n) /\ n + (i - (n - 1)) = i + 1
          BY <4>2
        <5>2. (a \o b)[i] = b[i - (n - 1)]
          BY <3>1, <3>3, <4>2, <2>5
        <5> QED
          BY <5>1, <5>2, <2>6, <4>2
      <4> QED
        BY <4>1, <4>2
    <3> QED
      BY <3>1, <3>2, <3>3, <3>4
  <2> HIDE DEF r
  <2>8. Elements(r) = Elements(q) \ {k}
    <3>1. \A i \in DOMAIN r : r[i] \in Elements(q) \ {k}
      BY <2>1, <2>7 DEF Elements, Distinct
    <3>2. ASSUME NEW i \in DOMAIN q, q[i] # k
          PROVE  q[i] \in Elements(r)
      <4>1. CASE i < n
        <5>1. i \in DOMAIN r /\ r[i] = q[i]
          BY <4>1, <2>7
        <5> QED
          BY <5>1 DEF Elements
      <4>2. CASE i > n
        <5>1. i - 1 \in DOMAIN r /\ r[i - 1] = q[i]
          BY <4>2, <2>7
        <5> QED
          BY <5>1 DEF Elements
      <4> QED
        BY <4>1, <4>2, <3>2, <2>1
    <3> QED
      BY <3>1, <3>2 DEF Elements
  <2>9. Distinct(r)
    <3> DEFINE At(i) == IF i < n THEN i ELSE i + 1
    <3>1. DOMAIN r = 1..(Len(q) - 1)
      BY <2>7
    <3>2. \A i \in 1..(Len(q) - 1) : At(i) \in DOMAIN q /\ r[i] = q[At(i)]
      BY <2>7
    <3>3. \A i, j \in 1..(Len(q) - 1) : At(i) = At(j) => i = j
      OBVIOUS
    <3> HIDE DEF At
    <3> QED
      BY <3>1, <3>2, <3>3 DEF Distinct
  <2>10. k \in Elements(q)
    BY <2>1 DEF Elements
  <2> QED
    BY <2>7, <2>8, <2>9, <2>10 DEF r
<1> QED
  BY <1>1, <1>2

(* Making a key the most recently used one.                                *)
LEMMA MoveToEnd ==
    ASSUME NEW q \in Seq(Key), NEW k \in Key, Distinct(q)
    PROVE  LET r == Append(RemoveFirst(q, k), k)
           IN  /\ r \in Seq(Key)
               /\ Elements(r) = Elements(q) \cup {k}
               /\ Distinct(r)
               /\ Len(r) = IF k \in Elements(q) THEN Len(q) ELSE Len(q) + 1
<1> DEFINE p == RemoveFirst(q, k)
           r == Append(p, k)
<1>1. /\ p \in Seq(Key)
      /\ Elements(p) = Elements(q) \ {k}
      /\ Distinct(p)
      /\ k \in Elements(q) => Len(p) = Len(q) - 1
      /\ k \notin Elements(q) => Len(p) = Len(q)
  BY RemoveFirstFacts
<1> HIDE DEF p
<1>2. /\ r \in Seq(Key)
      /\ Len(r) = Len(p) + 1
      /\ \A i \in 1..Len(p) : r[i] = p[i]
      /\ r[Len(p) + 1] = k
  BY <1>1, AppendProperties
<1> HIDE DEF r
<1>3. DOMAIN r = DOMAIN p \cup {Len(p) + 1}
  BY <1>1, <1>2
<1>4. Elements(r) = Elements(p) \cup {k}
  BY <1>1, <1>2, <1>3 DEF Elements
<1>5. Distinct(r)
  <2>1. \A i \in DOMAIN p : p[i] # k
    BY <1>1 DEF Elements
  <2> QED
    BY <1>1, <1>2, <1>3, <2>1 DEF Distinct
<1>6. Len(r) = IF k \in Elements(q) THEN Len(q) ELSE Len(q) + 1
  BY <1>1, <1>2
<1> QED
  BY <1>1, <1>2, <1>4, <1>5, <1>6 DEF p, r

-----------------------------------------------------------------------------
(***************************************************************************)
(* The members of a swarm and its recency list.                            *)
(***************************************************************************)

(* The recency list holds each cached key once, and there is room for all. *)
Ordered(s) ==
    /\ Elements(s.order) = Members(s)
    /\ Distinct(s.order)
    /\ Len(s.order) <= MaxPeers
    /\ s.stale \subseteq Members(s)

Sane(s) == s \in Swarms /\ Ordered(s)

(* The peers are finite in number, so they can be counted.                 *)
LEMMA RolesFinite ==
    ASSUME NEW s
    PROVE  IsFiniteSet(Seeders(s)) /\ IsFiniteSet(Leechers(s))
<1>1. Seeders(s) \subseteq Key /\ Leechers(s) \subseteq Key
  BY DEF Seeders, Leechers, Members
<1> QED
  BY <1>1, SwarmAssumption, FS_Subset DEF Key

(* What a change of one cache entry does to the two head counts.           *)
LEMMA RoleChange ==
    ASSUME NEW s \in Swarms, NEW t \in Swarms, NEW k \in Key,
           NEW x \in Peer \cup {NoPeer},
           t.cache = [s.cache EXCEPT ![k] = x]
    PROVE  /\ Members(t) = IF x = NoPeer THEN Members(s) \ {k}
                                         ELSE Members(s) \cup {k}
           /\ Cardinality(Seeders(t)) =
                Cardinality(Seeders(s))
                  + (IF x # NoPeer /\ x.complete THEN 1 ELSE 0)
                  - (IF k \in Seeders(s) THEN 1 ELSE 0)
           /\ Cardinality(Leechers(t)) =
                Cardinality(Leechers(s))
                  + (IF x # NoPeer /\ ~x.complete THEN 1 ELSE 0)
                  - (IF k \in Leechers(s) THEN 1 ELSE 0)
<1>1. /\ s.cache \in [Key -> Peer \cup {NoPeer}]
      /\ t.cache \in [Key -> Peer \cup {NoPeer}]
      /\ t.cache[k] = x
      /\ \A l \in Key \ {k} : t.cache[l] = s.cache[l]
  BY DEF Swarms
<1>2. Members(t) = IF x = NoPeer THEN Members(s) \ {k}
                                 ELSE Members(s) \cup {k}
  BY <1>1 DEF Members, IsPeer
<1>3. IsFiniteSet(Seeders(s)) /\ IsFiniteSet(Leechers(s))
  BY RolesFinite
<1>4. /\ Cardinality(Seeders(s)) \in Nat
      /\ Cardinality(Leechers(s)) \in Nat
  BY <1>3, FS_CardinalityType
<1>5. Seeders(t) = IF x # NoPeer /\ x.complete THEN Seeders(s) \cup {k}
                                               ELSE Seeders(s) \ {k}
  BY <1>1 DEF Seeders, Members, IsPeer
<1>6. Leechers(t) = IF x # NoPeer /\ ~x.complete THEN Leechers(s) \cup {k}
                                                 ELSE Leechers(s) \ {k}
  BY <1>1 DEF Leechers, Members, IsPeer
<1>7. Cardinality(Seeders(t)) =
        Cardinality(Seeders(s))
          + (IF x # NoPeer /\ x.complete THEN 1 ELSE 0)
          - (IF k \in Seeders(s) THEN 1 ELSE 0)
  <2>1. Cardinality(Seeders(s) \cup {k}) =
          IF k \in Seeders(s) THEN Cardinality(Seeders(s))
                           ELSE Cardinality(Seeders(s)) + 1
    BY <1>3, FS_AddElement
  <2>2. Cardinality(Seeders(s) \ {k}) =
          IF k \in Seeders(s) THEN Cardinality(Seeders(s)) - 1
                           ELSE Cardinality(Seeders(s))
    BY <1>3, FS_RemoveElement
  <2> QED
    BY <1>4, <1>5, <2>1, <2>2
<1>8. Cardinality(Leechers(t)) =
        Cardinality(Leechers(s))
          + (IF x # NoPeer /\ ~x.complete THEN 1 ELSE 0)
          - (IF k \in Leechers(s) THEN 1 ELSE 0)
  <2>1. Cardinality(Leechers(s) \cup {k}) =
          IF k \in Leechers(s) THEN Cardinality(Leechers(s))
                           ELSE Cardinality(Leechers(s)) + 1
    BY <1>3, FS_AddElement
  <2>2. Cardinality(Leechers(s) \ {k}) =
          IF k \in Leechers(s) THEN Cardinality(Leechers(s)) - 1
                           ELSE Cardinality(Leechers(s))
    BY <1>3, FS_RemoveElement
  <2> QED
    BY <1>4, <1>6, <2>1, <2>2
<1> QED
  BY <1>2, <1>7, <1>8

-----------------------------------------------------------------------------
(***************************************************************************)
(* The cache operations.                                                   *)
(***************************************************************************)

LEMMA DropFacts ==
    ASSUME NEW s \in Swarms, Ordered(s), NEW k \in Key
    PROVE  /\ Drop(s, k) \in Swarms
           /\ Ordered(Drop(s, k))
           /\ Drop(s, k).cache = [s.cache EXCEPT ![k] = NoPeer]
           /\ Drop(s, k).complete = s.complete
           /\ Drop(s, k).incomplete = s.incomplete
           /\ Drop(s, k).stale = s.stale \ {k}
           /\ Drop(s, k).listed = s.listed
           /\ k \in Members(s) => Len(Drop(s, k).order) = Len(s.order) - 1
           /\ k \notin Members(s) => Drop(s, k).order = s.order
<1> DEFINE t == Drop(s, k)
<1>1. /\ s.order \in Seq(Key)
      /\ Distinct(s.order)
      /\ Elements(s.order) = Members(s)
      /\ Len(s.order) <= MaxPeers
      /\ Len(s.order) \in Nat
      /\ MaxPeers \in Nat
  BY SwarmAssumption DEF Swarms, Ordered
<1>2. /\ t.order = RemoveFirst(s.order, k)
      /\ t.cache = [s.cache EXCEPT ![k] = NoPeer]
      /\ t.stale = s.stale \ {k}
      /\ t.complete = s.complete
      /\ t.incomplete = s.incomplete
      /\ t.listed = s.listed
  BY DEF Drop, Swarms
<1>3. /\ RemoveFirst(s.order, k) \in Seq(Key)
      /\ Elements(RemoveFirst(s.order, k)) = Members(s) \ {k}
      /\ Distinct(RemoveFirst(s.order, k))
      /\ k \in Members(s) => Len(RemoveFirst(s.order, k)) = Len(s.order) - 1
      /\ k \notin Members(s) => RemoveFirst(s.order, k) = s.order
  BY <1>1, RemoveFirstFacts
<1>4. t \in Swarms
  BY <1>3 DEF Drop, Swarms
<1>5. Members(t) = Members(s) \ {k}
  BY <1>2, <1>4, RoleChange
<1>6. Ordered(t)
  BY <1>1, <1>2, <1>3, <1>5 DEF Ordered
<1> QED
  BY <1>2, <1>3, <1>4, <1>6

(* t is s with k the most recently used key.                               *)
Reordered(s, t) ==
    /\ Sane(t)
    /\ t.cache = s.cache /\ t.stale = s.stale /\ t.listed = s.listed
    /\ t.complete = s.complete /\ t.incomplete = s.incomplete

LEMMA TouchFacts ==
    ASSUME NEW s \in Swarms, NEW k \in Members(s),
           Distinct(s.order), s.stale \subseteq Members(s),
           Elements(s.order) \cup {k} = Members(s),
           Len(s.order) <= MaxPeers,
           k \notin Elements(s.order) => Len(s.order) < MaxPeers
    PROVE  Reordered(s, Touch(s, k))
<1> DEFINE r == Append(RemoveFirst(s.order, k), k)
           t == [s EXCEPT !.order = r]
<1>1. /\ s.order \in Seq(Key) /\ k \in Key
      /\ MaxPeers \in Nat /\ Len(s.order) \in Nat
  BY SwarmAssumption DEF Swarms, Members
<1>2. /\ r \in Seq(Key)
      /\ Elements(r) = Elements(s.order) \cup {k}
      /\ Distinct(r)
      /\ Len(r) = IF k \in Elements(s.order) THEN Len(s.order)
                                             ELSE Len(s.order) + 1
  BY <1>1, MoveToEnd
<1>3. Touch(s, k) = t
  BY DEF Touch
<1> HIDE DEF r
<1>4. /\ t \in Swarms
      /\ t.cache = s.cache /\ t.order = r /\ t.stale = s.stale
      /\ t.complete = s.complete /\ t.incomplete = s.incomplete
      /\ t.listed = s.listed
      /\ Members(t) = Members(s)
  BY <1>2 DEF Swarms, Members
<1> HIDE DEF t
<1>5. Len(r) <= MaxPeers
  BY <1>1, <1>2
<1>6. Ordered(t)
  BY <1>2, <1>4, <1>5 DEF Ordered
<1> QED
  BY <1>3, <1>4, <1>6 DEF Reordered, Sane

(* LRU.get of a key that is cached and young, and of one that is not       *)
(* cached.                                                                 *)
LEMMA GetFresh ==
    ASSUME NEW s, Sane(s), NEW k \in Members(s), k \notin s.stale
    PROVE  Reordered(s, Get(s, k))
<1>1. Get(s, k) = Touch(s, k)
  BY DEF Get, Members
<1>2. Elements(s.order) \cup {k} = Members(s) /\ k \in Elements(s.order)
  BY DEF Sane, Ordered
<1> QED
  BY <1>1, <1>2, TouchFacts DEF Sane, Ordered

LEMMA GetAbsent ==
    ASSUME NEW s, Sane(s), NEW k \in Key, k \notin Members(s)
    PROVE  Get(s, k) = s
<1>1. ~IsPeer(s.cache[k]) /\ k \notin s.stale
  BY DEF Members, Sane, Ordered
<1> QED
  BY <1>1 DEF Get, Peek

(* t is s without the member k, and with the counter of its role lowered.  *)
Without(s, k, t) ==
    /\ Sane(t)
    /\ t.cache = [s.cache EXCEPT ![k] = NoPeer]
    /\ t.complete = s.complete - (IF s.cache[k].complete THEN 1 ELSE 0)
    /\ t.incomplete = s.incomplete - (IF s.cache[k].complete THEN 0 ELSE 1)
    /\ t.stale = s.stale \ {k}
    /\ t.listed = s.listed \ {s.cache[k].socket}
    /\ Len(t.order) = Len(s.order) - 1

LEMMA StopWithout ==
    ASSUME NEW s, Sane(s), NEW k \in Members(s)
    PROVE  Without(s, k, Stop(s, s.cache[k], k))
<1> DEFINE done == s.cache[k].complete
           c == IF done THEN s.complete - 1 ELSE s.complete
           i == IF done THEN s.incomplete ELSE s.incomplete - 1
           l == s.listed \ {s.cache[k].socket}
           u == [s EXCEPT !.complete = c, !.incomplete = i, !.listed = l]
<1>0. k \in Key /\ s \in Swarms
  BY DEF Members, Sane
<1>1. /\ c \in Int /\ i \in Int /\ l \in SUBSET Socket
      /\ c = s.complete - (IF done THEN 1 ELSE 0)
      /\ i = s.incomplete - (IF done THEN 0 ELSE 1)
  BY <1>0 DEF Swarms
<1>2. Stop(s, s.cache[k], k) = Drop(u, k)
  BY DEF Stop
<1> HIDE DEF c, i
<1>3. /\ u \in Swarms
      /\ u.cache = s.cache /\ u.order = s.order /\ u.stale = s.stale
      /\ u.complete = c /\ u.incomplete = i /\ u.listed = l
  BY <1>0, <1>1 DEF Swarms
<1> HIDE DEF u, l
<1>4. Members(u) = Members(s)
  BY <1>3 DEF Members
<1>5. Ordered(u)
  BY <1>3, <1>4 DEF Sane, Ordered
<1>6. /\ Drop(u, k) \in Swarms
      /\ Ordered(Drop(u, k))
      /\ Drop(u, k).cache = [u.cache EXCEPT ![k] = NoPeer]
      /\ Drop(u, k).complete = u.complete
      /\ Drop(u, k).incomplete = u.incomplete
      /\ Drop(u, k).stale = u.stale \ {k}
      /\ Drop(u, k).listed = u.listed
      /\ Len(Drop(u, k).order) = Len(u.order) - 1
  BY <1>0, <1>3, <1>4, <1>5, DropFacts
<1> QED
  BY <1>1, <1>2, <1>3, <1>6 DEF Without, Sane, l

(* t is s with x cached under k.                                           *)
With(s, k, x, t) ==
    /\ Sane(t)
    /\ t.cache = [s.cache EXCEPT ![k] = x]
    /\ t.complete = s.complete /\ t.incomplete = s.incomplete
    /\ t.stale = s.stale \ {k}
    /\ t.listed = s.listed

(* LRU.set when the key is cached or there is room for it.                 *)
LEMMA PutWith ==
    ASSUME NEW s, Sane(s), NEW k \in Key, NEW x \in Peer,
           k \in Members(s) \/ Len(s.order) < MaxPeers
    PROVE  With(s, k, x, Put(s, k, x))
<1> DEFINE u == [s EXCEPT !.cache[k] = x, !.stale = @ \ {k}]
<1>1. /\ s \in Swarms /\ Ordered(s)
      /\ Len(s.order) \in Nat /\ MaxPeers \in Nat
      /\ IsPeer(s.cache[k]) <=> k \in Members(s)
  BY SwarmAssumption DEF Sane, Swarms, Members
<1>2. ~(~IsPeer(s.cache[k]) /\ Len(s.order) = MaxPeers)
  BY <1>1
<1>3. Put(s, k, x) = Touch(u, k)
  BY <1>2 DEF Put
<1>4. /\ u \in Swarms
      /\ u.cache = [s.cache EXCEPT ![k] = x]
      /\ u.order = s.order /\ u.stale = s.stale \ {k} /\ u.listed = s.listed
      /\ u.complete = s.complete /\ u.incomplete = s.incomplete
  BY <1>1 DEF Swarms
<1> HIDE DEF u
<1>5. Members(u) = Members(s) \cup {k}
  BY <1>1, <1>4, SwarmAssumption, RoleChange
<1>6. /\ k \in Members(u)
      /\ Distinct(u.order) /\ u.stale \subseteq Members(u)
      /\ Elements(u.order) \cup {k} = Members(u)
      /\ Len(u.order) <= MaxPeers
      /\ k \notin Elements(u.order) => Len(u.order) < MaxPeers
  BY <1>1, <1>4, <1>5 DEF Ordered
<1>7. Reordered(u, Touch(u, k))
  BY <1>4, <1>6, TouchFacts
<1> QED
  BY <1>3, <1>4, <1>7 DEF With, Reordered

(* There are as many members as keys in the recency list.                  *)
LEMMA OrderCounts ==
    ASSUME NEW s, Sane(s)
    PROVE  /\ IsFiniteSet(Members(s))
           /\ Len(s.order) = Cardinality(Members(s))
<1> DEFINE q == s.order
           n == Len(q)
<1>1. /\ q \in Seq(Key) /\ n \in Nat /\ DOMAIN q = 1..n
      /\ Distinct(q) /\ Members(s) = Elements(q)
  BY DEF Sane, Swarms, Ordered
<1>2. IsFiniteSet(1..n) /\ Cardinality(1..n) = n
  BY <1>1, FS_Interval
<1> HIDE DEF q, n
<1>3. q \in Bijection(1..n, Elements(q))
  <2>1. q \in [1..n -> Elements(q)]
    BY <1>1 DEF Elements
  <2> QED
    BY <1>1, <2>1 DEF Bijection, Injection, Surjection, IsInjective, Distinct, Elements
<1>4. IsFiniteSet(Elements(q)) /\ Cardinality(Elements(q)) = Cardinality(1..n)
  BY <1>2, <1>3, FS_Bijection DEF ExistsBijection
<1> QED
  BY <1>1, <1>2, <1>4 DEF q, n

-----------------------------------------------------------------------------
(***************************************************************************)
(* Swarms from which nothing is evicted: no entry is old, and there is room*)
(* for every key.                                                          *)
(***************************************************************************)

Calm(s) == Sane(s) /\ s.stale = {}

(* t has the entries of s, and perhaps other counters and sockets.         *)
Recounted(s, t) ==
    /\ t \in Swarms
    /\ t.cache = s.cache /\ t.order = s.order /\ t.stale = s.stale

LEMMA CalmRecounted ==
    ASSUME NEW s, Calm(s), NEW t, Recounted(s, t)
    PROVE  Calm(t) /\ Members(t) = Members(s)
<1>1. Members(t) = Members(s)
  BY DEF Recounted, Members
<1> QED
  BY <1>1 DEF Calm, Sane, Ordered, Recounted

LEMMA CalmNew == Calm(NewSwarm) /\ Members(NewSwarm) = {}
<1>1. NewSwarm \in Swarms
  BY DEF NewSwarm, Swarms
<1>2. Members(NewSwarm) = {}
  BY DEF NewSwarm, Members, IsPeer
<1>3. /\ NewSwarm.order = <<>> /\ NewSwarm.stale = {}
      /\ DOMAIN NewSwarm.order = {} /\ Len(NewSwarm.order) = 0
  BY DEF NewSwarm
<1>4. Ordered(NewSwarm)
  BY <1>2, <1>3, SwarmAssumption DEF Ordered, Elements, Distinct
<1> QED
  BY <1>1, <1>2, <1>3, <1>4 DEF Calm, Sane

LEMMA CalmRoom ==
    ASSUME Cardinality(Key) <= MaxPeers, NEW s, Calm(s),
           NEW k \in Key, k \notin Members(s)
    PROVE  Len(s.order) < MaxPeers
<1>1. /\ IsFiniteSet(Members(s)) /\ Len(s.order) = Cardinality(Members(s))
      /\ Len(s.order) \in Nat
  BY OrderCounts DEF Calm, Sane, Swarms
<1>2. /\ IsFiniteSet(Key) /\ Members(s) \cup {k} \subseteq Key
  BY SwarmAssumption DEF Key, Members
<1>3. Cardinality(Members(s) \cup {k}) = Cardinality(Members(s)) + 1
  BY <1>1, FS_AddElement
<1>4. Cardinality(Members(s) \cup {k}) <= Cardinality(Key)
  BY <1>2, FS_Subset
<1>5. Cardinality(Key) \in Nat /\ MaxPeers \in Nat
  BY <1>2, FS_CardinalityType, SwarmAssumption
<1> QED
  BY <1>1, <1>3, <1>4, <1>5

LEMMA CalmPut ==
    ASSUME Cardinality(Key) <= MaxPeers, NEW s, Calm(s),
           NEW k \in Key, NEW x \in Peer
    PROVE  /\ Calm(Put(s, k, x))
           /\ Put(s, k, x).cache = [s.cache EXCEPT ![k] = x]
           /\ Put(s, k, x).listed = s.listed
<1>1. k \in Members(s) \/ Len(s.order) < MaxPeers
  BY CalmRoom
<1>2. With(s, k, x, Put(s, k, x))
  BY <1>1, PutWith DEF Calm
<1> QED
  BY <1>2 DEF With, Calm

LEMMA CalmGet ==
    ASSUME NEW s, Calm(s), NEW k \in Key
    PROVE  /\ Calm(Get(s, k))
           /\ Get(s, k).cache = s.cache
           /\ Get(s, k).listed = s.listed
<1>1. CASE k \in Members(s)
  <2>1. Reordered(s, Get(s, k))
    BY <1>1, GetFresh DEF Calm
  <2> QED
    BY <2>1 DEF Reordered, Calm
<1>2. CASE k \notin Members(s)
  <2>1. Get(s, k) = s
    BY <1>2, GetAbsent DEF Calm
  <2> QED
    BY <2>1
<1> QED
  BY <1>1, <1>2

(* t is s without k, if it had it.                                         *)
Leaves(s, t, k) ==
    /\ t.cache = [s.cache EXCEPT ![k] = NoPeer]
    /\ t.listed = IF k \in Members(s) THEN s.listed \ {s.cache[k].socket}
                                      ELSE s.listed

LEMMA CalmStop ==
    ASSUME NEW s, Calm(s), NEW k \in Key
    PROVE  LET t == IF IsPeer(s.cache[k]) THEN Stop(s, s.cache[k], k) ELSE s
           IN  Calm(t) /\ Leaves(s, t, k)
<1>1. CASE k \in Members(s)
  <2>1. Without(s, k, Stop(s, s.cache[k], k))
    BY <1>1, StopWithout DEF Calm
  <2>2. IsPeer(s.cache[k])
    BY <1>1 DEF Members
  <2> QED
    BY <1>1, <2>1, <2>2 DEF Without, Calm, Leaves
<1>2. CASE k \notin Members(s)
  <2>1. ~IsPeer(s.cache[k]) /\ s.cache[k] = NoPeer
    BY <1>2 DEF Members, IsPeer
  <2>2. s.cache = [s.cache EXCEPT ![k] = NoPeer]
    BY <2>1 DEF Calm, Sane, Swarms
  <2> QED
    BY <1>2, <2>1, <2>2 DEF Leaves
<1> QED
  BY <1>1, <1>2

LEMMA CalmLeave ==
    ASSUME NEW s, Calm(s), NEW k \in Key
    PROVE  Calm(Leave(s, k)) /\ Leaves(s, Leave(s, k), k)
<1> DEFINE g == Get(s, k)
<1>1. Calm(g) /\ g.cache = s.cache /\ g.listed = s.listed
  BY CalmGet
<1>2. Leave(s, k) = IF IsPeer(g.cache[k]) THEN Stop(g, g.cache[k], k) ELSE g
  BY DEF Leave
<1> HIDE DEF g
<1>3. Calm(Leave(s, k)) /\ Leaves(g, Leave(s, k), k)
  BY <1>1, <1>2, CalmStop
<1>4. Members(g) = Members(s)
  BY <1>1 DEF Members
<1> QED
  BY <1>1, <1>3, <1>4 DEF Leaves

(* Who a cached peer is: all of it but the role.                           *)
Same(x, y) == x.type = y.type /\ x.peerId = y.peerId /\ x.socket = y.socket

NewPeer(p, done) == [type |-> p.type, complete |-> done, peerId |-> p.peer_id,
                     socket |-> p.socket]

(* t is s after an announce other than `stopped` of p: p keeps the entry   *)
(* that it had, or gets one.                                               *)
Stays(s, t, p) ==
    LET k == KeyOf(p)
    IN  \E x \in Peer :
            /\ t.cache = [s.cache EXCEPT ![k] = x]
            /\ t.listed = s.listed
            /\ k \in Members(s) => Same(x, s.cache[k])
            /\ k \notin Members(s) => Same(x, NewPeer(p, TRUE))

LEMMA CalmJoin ==
    ASSUME Cardinality(Key) <= MaxPeers, NEW s, Calm(s), NEW p \in Endpoints,
           NEW done \in BOOLEAN, KeyOf(p) \in Key, KeyOf(p) \notin Members(s)
    PROVE  Calm(Join(s, p, done)) /\ Stays(s, Join(s, p, done), p)
<1> DEFINE c == IF done THEN s.complete + 1 ELSE s.complete
           i == IF done THEN s.incomplete ELSE s.incomplete + 1
           u == [s EXCEPT !.complete = c, !.incomplete = i]
           x == NewPeer(p, done)
<1>1. Join(s, p, done) = Put(u, KeyOf(p), x)
  BY DEF Join, NewPeer
<1>2. c \in Int /\ i \in Int /\ s \in Swarms
  BY DEF Calm, Sane, Swarms
<1> HIDE DEF c, i
<1>3. Recounted(s, u) /\ u.listed = s.listed
  BY <1>2 DEF Swarms, Recounted
<1>4. x \in Peer /\ Same(x, NewPeer(p, TRUE))
  BY DEF Endpoints, NewPeer, Peer, Same
<1> HIDE DEF u, x
<1>5. Calm(u) /\ u.cache = s.cache
  BY <1>3, CalmRecounted DEF Recounted
<1>6. /\ Calm(Put(u, KeyOf(p), x))
      /\ Put(u, KeyOf(p), x).cache = [s.cache EXCEPT ![KeyOf(p)] = x]
      /\ Put(u, KeyOf(p), x).listed = s.listed
  BY <1>3, <1>4, <1>5, CalmPut
<1> QED
  BY <1>1, <1>4, <1>6 DEF Stays

LEMMA CalmRefresh ==
    ASSUME Cardinality(Key) <= MaxPeers, NEW s, Calm(s), NEW p \in Endpoints,
           NEW done \in BOOLEAN, KeyOf(p) \in Members(s)
    PROVE  LET t == Refresh(s, KeyOf(p), done)
           IN  Calm(t) /\ Stays(s, t, p)
<1> DEFINE k == KeyOf(p)
           c == s.complete + 1
           i == s.incomplete - 1
           u == [s EXCEPT !.complete = c, !.incomplete = i]
           x == [s.cache[k] EXCEPT !.complete = TRUE]
           t == Refresh(s, k, done)
<1>1. k \in Key /\ s \in Swarms /\ s.cache[k] \in Peer
  BY DEF Members, IsPeer, Calm, Sane, Swarms
<1>2. x \in Peer /\ Same(x, s.cache[k]) /\ Same(s.cache[k], s.cache[k])
  BY <1>1 DEF Peer, Same
<1>3. t = Put(u, k, x) \/ t = Put(s, k, s.cache[k])
  BY DEF Refresh, Finish
<1>4. c \in Int /\ i \in Int
  BY <1>1 DEF Swarms
<1> HIDE DEF c, i
<1>5. Recounted(s, u) /\ u.listed = s.listed
  BY <1>4, <1>1 DEF Swarms, Recounted
<1> HIDE DEF u, x, t
<1>6. CASE t = Put(u, k, x)
  <2>1. Calm(u) /\ u.cache = s.cache
    BY <1>5, CalmRecounted DEF Recounted
  <2>2. Calm(t) /\ t.cache = [s.cache EXCEPT ![k] = x] /\ t.listed = s.listed
    BY <1>1, <1>2, <1>5, <1>6, <2>1, CalmPut
  <2> QED
    BY <1>2, <2>2 DEF t, Stays
<1>7. CASE t = Put(s, k, s.cache[k])
  <2>1. Calm(t) /\ t.cache = [s.cache EXCEPT ![k] = s.cache[k]]
        /\ t.listed = s.listed
    BY <1>1, <1>7, CalmPut
  <2> QED
    BY <1>1, <1>2, <2>1 DEF t, Stays
<1> QED
  BY <1>3, <1>6, <1>7

(* An announce in a swarm from which nothing is evicted.                   *)
LEMMA CalmAnnounce ==
    ASSUME Cardinality(Key) <= MaxPeers, NEW s, Calm(s), NEW p \in Endpoints,
           NEW event \in Event, NEW done \in BOOLEAN
    PROVE  LET t == Announce(s, p, event, done)
           IN  /\ Calm(t)
               /\ event = "stopped" => Leaves(s, t, KeyOf(p))
               /\ event # "stopped" => Stays(s, t, p)
<1> DEFINE k == KeyOf(p)
           g == Get(s, k)
           t == Announce(s, p, event, done)
<1>1. k \in Key
  BY DEF KeyOf, Endpoints, Key
<1>2. Calm(g) /\ g.cache = s.cache /\ g.listed = s.listed
  BY <1>1, CalmGet
<1>3. Members(g) = Members(s) /\ (IsPeer(g.cache[k]) <=> k \in Members(g))
  BY <1>1, <1>2 DEF Members
<1>4. t = Handle(g, p, event, done)
  BY DEF Announce
<1> HIDE DEF g, t
<1>5. CASE event = "stopped"
  <2>1. t = IF IsPeer(g.cache[k]) THEN Stop(g, g.cache[k], k) ELSE g
    BY <1>4, <1>5 DEF Handle, Event
  <2>2. Calm(t) /\ Leaves(g, t, k)
    BY <1>1, <1>2, <2>1, CalmStop
  <2> QED
    BY <1>2, <1>3, <1>5, <2>2 DEF t, Leaves
<1>6. CASE event # "stopped"
  <2>1. Calm(t) /\ Stays(g, t, p)
    <3>1. CASE k \notin Members(g)
      <4>1. t = Join(g, p, done)
        BY <1>3, <1>4, <1>6, <3>1 DEF Handle, Event
      <4> QED
        BY <1>1, <1>2, <3>1, <4>1, CalmJoin
    <3>2. CASE k \in Members(g)
      <4>1. t = Refresh(g, k, TRUE) \/ t = Refresh(g, k, done)
        BY <1>3, <1>4, <1>6, <3>2 DEF Handle, Event
      <4> QED
        BY <1>2, <3>2, <4>1, CalmRefresh
    <3> QED
      BY <3>1, <3>2
  <2> QED
    BY <1>2, <1>3, <1>6, <2>1 DEF t, Stays
<1> QED
  BY <1>5, <1>6 DEF t
=============================================================================
