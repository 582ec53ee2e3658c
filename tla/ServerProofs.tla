---------------------------- MODULE ServerProofs ----------------------------
(***************************************************************************)
(* The request pipeline of TrackerServer: types, each request settled once,*)
(* no orphaned swarm, no peer that outlives its socket unnoticed, and the  *)
(* last announce decides.                                                  *)
(***************************************************************************)
EXTENDS TrackerServer, SwarmOpsProofs

(* The swarms are those of SwarmOps, and nothing is evicted from them.     *)
SwarmsCalm ==
    /\ swarms \in Seq(Swarms)
    /\ \A o \in DOMAIN swarms : Calm(swarms[o])

(* Only announces create swarms.                                           *)
CreatesAnnounce ==
    \A i \in DOMAIN ticks :
        ticks[i].step = "create" => received[ticks[i].id].action = "announce"

TInv == TypeOK /\ SwarmsCalm /\ CreatesAnnounce

-----------------------------------------------------------------------------
(***************************************************************************)
(* Swarm objects as SwarmOps sees them.                                    *)
(***************************************************************************)

(* What is known of an announce.                                           *)
LEMMA RequestType ==
    ASSUME NEW r \in Request
    PROVE  /\ r.by \in Endpoints /\ r.hash \in Hash
           /\ r.by.type = "ws" => r.by.socket \in Socket
           /\ r.by.type = "ws" => r.by.peer_id \in PeerId
           /\ r.action = "announce" => r.event \in Event /\ r.done \in BOOLEAN
           /\ KeyOf(r.by) \in Key
<1>1. r \in Requests
  BY PipelineAssumption
<1>2. /\ r.by \in Endpoints /\ r.hash \in Hash
      /\ r.action = "announce" => r.event \in Event /\ r.done \in BOOLEAN
  BY <1>1 DEF Requests
<1> QED
  BY <1>2 DEF Endpoints, KeyOf, Key

LEMMA StoreCalm ==
    ASSUME NEW s, Calm(s)
    PROVE  /\ Store(s) \in Swarms /\ Calm(Store(s))
           /\ Store(s).cache = s.cache
<1>1. Recounted(s, Store(s)) /\ Store(s).cache = s.cache
  BY DEF Calm, Sane, Swarms, Recounted, Store
<1> QED
  BY <1>1, CalmRecounted DEF Recounted

LEMMA LoadCalm ==
    ASSUME NEW objects, NEW o, Calm(objects[o]), NEW h \in Hash,
           listing \in [Hash -> SUBSET (Socket \ closed)]
    PROVE  LET s == Load(objects, o, h)
           IN  /\ Calm(s)
               /\ s.cache = objects[o].cache
               /\ s.listed = listing[h]
               /\ Members(s) = Members(objects[o])
<1>1. listing[h] \in SUBSET Socket /\ objects[o] \in Swarms
  BY DEF Calm, Sane
<1>2. /\ Recounted(objects[o], Load(objects, o, h))
      /\ Load(objects, o, h).listed = listing[h]
  BY <1>1 DEF Swarms, Recounted, Load
<1> QED
  BY <1>2, CalmRecounted DEF Recounted

(* t is the swarm after announce id.                                       *)
Answered(objects, o, id, t) ==
    LET r == received[id]
        dropped == Unreachable(r.by)
    IN  /\ Calm(t)
        /\ r.event = "stopped" => Leaves(Load(objects, o, r.hash), t, KeyOf(r.by))
        /\ r.event # "stopped" => Stays(Load(objects, o, r.hash), t, r.by)
        /\ swarms' = [objects EXCEPT ![o] = Store(t)]
        /\ listing' = [listing EXCEPT ![r.hash] =
                         IF r.by.type = "ws" /\ ~dropped
                         THEN t.listed \cup {r.by.socket} ELSE t.listed]
        /\ status' = [status EXCEPT ![id] = IF dropped THEN "dropped" ELSE "ok"]

LEMMA AnswerFacts ==
    ASSUME TypeOK, NEW objects, NEW o, Calm(objects[o]),
           NEW id \in DOMAIN received, received[id].action = "announce",
           AnnounceTo(objects, o, id)
    PROVE  \E t : Answered(objects, o, id, t)
<1> DEFINE r == received[id]
           s == Load(objects, o, r.hash)
           t == Announce(s, r.by, r.event, r.done)
<1>1. r \in Request
  BY DEF TypeOK
<1>2. r.by \in Endpoints /\ r.hash \in Hash /\ r.event \in Event /\ r.done \in BOOLEAN
  BY <1>1, RequestType
<1>3. Calm(s)
  BY <1>2, LoadCalm DEF TypeOK
<1>4. /\ Calm(t)
      /\ r.event = "stopped" => Leaves(s, t, KeyOf(r.by))
      /\ r.event # "stopped" => Stays(s, t, r.by)
  <2> HIDE DEF r, s
  <2> QED
    BY <1>2, <1>3, CalmAnnounce, PipelineAssumption
<1>5. Answered(objects, o, id, t)
  BY <1>4 DEF AnnounceTo, Answered
<1> QED
  BY <1>5

-----------------------------------------------------------------------------
(***************************************************************************)
(* Sequences as functions.                                                 *)
(***************************************************************************)

LEMMA FunctionIsSeq ==
    ASSUME NEW S, NEW n \in Nat, NEW f \in [1..n -> S]
    PROVE  f \in Seq(S) /\ Len(f) = n
  OBVIOUS

LEMMA SeqIsFunction ==
    ASSUME NEW S, NEW f \in Seq(S)
    PROVE  Len(f) \in Nat /\ f \in [1..Len(f) -> S]
  OBVIOUS

LEMMA JoinedSeqs ==
    ASSUME NEW S, NEW f \in Seq(S), NEW g \in Seq(S)
    PROVE  /\ f \o g \in Seq(S)
           /\ Len(f \o g) = Len(f) + Len(g)
           /\ \A i \in 1..Len(f) : (f \o g)[i] = f[i]
           /\ \A i \in 1..Len(g) : (f \o g)[Len(f) + i] = g[i]
<1>1. /\ f \o g \in Seq(S) /\ Len(f \o g) = Len(f) + Len(g)
      /\ \A i \in 1..(Len(f) + Len(g)) :
            (f \o g)[i] = IF i <= Len(f) THEN f[i] ELSE g[i - Len(f)]
  BY ConcatProperties
<1>2. Len(f) \in Nat /\ Len(g) \in Nat
  OBVIOUS
<1>3. \A i \in 1..Len(f) : (f \o g)[i] = f[i]
  BY <1>1, <1>2
<1>4. ASSUME NEW i \in 1..Len(g) PROVE (f \o g)[Len(f) + i] = g[i]
  <2>1. /\ Len(f) + i \in 1..(Len(f) + Len(g))
        /\ ~(Len(f) + i <= Len(f)) /\ (Len(f) + i) - Len(f) = i
    BY <1>2
  <2> QED
    BY <1>1, <2>1
<1> QED
  BY <1>1, <1>3, <1>4

-----------------------------------------------------------------------------
(***************************************************************************)
(* Types.                                                                  *)
(***************************************************************************)

LEMMA TypeInit == Init => TInv
<1> SUFFICES ASSUME Init PROVE TInv
  OBVIOUS
<1>1. TypeOK
  <2>1. /\ DOMAIN received = {} /\ received = <<>> /\ Len(received) = 0
        /\ status = <<>> /\ DOMAIN status = {} /\ swarms = <<>> /\ Len(swarms) = 0
    BY DEF Init
  <2>2. status \in [DOMAIN received -> {"pending", "ok", "rejected", "dropped"}]
    BY <2>1
  <2>3. ticks \in Seq([step : {"get", "create"}, id : DOMAIN received])
    BY DEF Init
  <2>4. torrents \in [Hash -> 0..Len(swarms)]
    BY <2>1 DEF Init
  <2>5. Len(received) <= MaxRequests /\ received \in Seq(Request)
    BY <2>1, PipelineAssumption
  <2> QED
    BY <2>1, <2>2, <2>3, <2>4, <2>5 DEF Init, TypeOK
<1>2. SwarmsCalm /\ CreatesAnnounce
  BY DEF Init, SwarmsCalm, CreatesAnnounce
<1> QED
  BY <1>1, <1>2 DEF TInv

(* A batch joins the requests, and nothing has become of it yet.           *)
LEMMA ReceiveAppends ==
    ASSUME TInv, NEW n \in 1..MaxBatch, NEW batch \in [1..n -> Request],
           NEW late \in SUBSET (1..n), Receive(batch, late)
    PROVE  /\ n \in Nat /\ Len(received) \in Nat
           /\ DOMAIN received = 1..Len(received)
           /\ received' \in Seq(Request) /\ Len(received') = Len(received) + n
           /\ DOMAIN received' = 1..(Len(received) + n)
           /\ Len(received') <= MaxRequests
           /\ \A i \in DOMAIN received : /\ received'[i] = received[i]
                                         /\ status'[i] = status[i]
           /\ \A i \in 1..n : /\ received'[Len(received) + i] = batch[i]
                               /\ status'[Len(received) + i] = "pending"
           /\ status' \in [DOMAIN received' -> {"pending", "ok", "rejected", "dropped"}]
<1> DEFINE first == Len(received)
           St == {"pending", "ok", "rejected", "dropped"}
           added == [m \in DOMAIN batch |-> "pending"]
<1>1. /\ received \in Seq(Request) /\ status \in [DOMAIN received -> St]
      /\ n \in Nat
  BY PipelineAssumption DEF TInv, TypeOK
<1>2. /\ first \in Nat /\ DOMAIN received = 1..first
      /\ batch \in Seq(Request) /\ Len(batch) = n
      /\ status \in [1..first -> St] /\ added \in [1..n -> St]
      /\ \A i \in 1..n : added[i] = "pending"
  BY <1>1, FunctionIsSeq
<1>3. /\ status \in Seq(St) /\ Len(status) = first
      /\ added \in Seq(St) /\ Len(added) = n
  <2> HIDE DEF first, St, added
  <2> QED
    BY <1>1, <1>2, FunctionIsSeq
<1>4. /\ received' = received \o batch /\ status' = status \o added
      /\ first + n <= MaxRequests
  BY <1>2 DEF Receive
<1> HIDE DEF St, added
<1>5. /\ received \o batch \in Seq(Request) /\ Len(received \o batch) = first + n
      /\ \A i \in 1..first : (received \o batch)[i] = received[i]
      /\ \A i \in 1..n : (received \o batch)[first + i] = batch[i]
  BY <1>1, <1>2, JoinedSeqs
<1>6. /\ status \o added \in Seq(St) /\ Len(status \o added) = first + n
      /\ \A i \in 1..first : (status \o added)[i] = status[i]
      /\ \A i \in 1..n : (status \o added)[first + i] = added[i]
  <2> HIDE DEF first
  <2>1. /\ status \o added \in Seq(St)
        /\ Len(status \o added) = Len(status) + Len(added)
        /\ \A i \in 1..Len(status) : (status \o added)[i] = status[i]
        /\ \A i \in 1..Len(added) : (status \o added)[Len(status) + i] = added[i]
    <3>1. \A f, g \in Seq(St) :
             /\ f \o g \in Seq(St)
             /\ Len(f \o g) = Len(f) + Len(g)
             /\ \A i \in 1..Len(f) : (f \o g)[i] = f[i]
             /\ \A i \in 1..Len(g) : (f \o g)[Len(f) + i] = g[i]
      BY JoinedSeqs
    <3> QED
      BY <1>3, <3>1
  <2> QED
    BY <1>3, <2>1
<1>7. /\ DOMAIN received' = 1..(first + n)
      /\ status' \in [1..(first + n) -> St]
  BY <1>4, <1>5, <1>6, SeqIsFunction
<1> QED
  BY <1>1, <1>2, <1>4, <1>5, <1>6, <1>7 DEF St

LEMMA TypeReceive ==
    ASSUME TInv, NEW n \in 1..MaxBatch, NEW batch \in [1..n -> Request],
           NEW late \in SUBSET (1..n), Receive(batch, late)
    PROVE  TInv'
<1> DEFINE first == Len(received)
           by == batch[1].by
           kept == DOMAIN batch \ late
<1>1. /\ first = Len(received)
      /\ n \in Nat \ {0} /\ 1 \in 1..n /\ DOMAIN batch = 1..n
      /\ batch[1] \in Request /\ first \in Nat /\ DOMAIN received = 1..first
  BY PipelineAssumption DEF TInv, TypeOK
<1>2. /\ filtering' = filtering \cup {first + m : m \in late}
      /\ UNCHANGED <<hasFilter, swarms, torrents, listing, closed, destroyed>>
  BY DEF Receive, state
<1>3. /\ received' \in Seq(Request) /\ DOMAIN received' = 1..(first + n)
      /\ Len(received') <= MaxRequests
      /\ status' \in [DOMAIN received' -> {"pending", "ok", "rejected", "dropped"}]
  BY ReceiveAppends
<1>4. filtering' \subseteq DOMAIN received'
  BY <1>1, <1>2, <1>3 DEF TInv, TypeOK
<1>5. /\ ticks' \in Seq([step : {"get", "create"}, id : DOMAIN received'])
      /\ \A i \in DOMAIN ticks' : ticks'[i].step = "get"
  <2>1. PICK q \in Ascending(kept) :
                ticks' = [i \in DOMAIN q |-> Tick("get", first + q[i])]
    BY DEF Receive
  <2>2. IsFiniteSet(kept) /\ kept \subseteq 1..n
    <3>1. IsFiniteSet(1..n) /\ kept \in SUBSET (1..n)
      BY <1>1, FS_Interval
    <3> QED
      BY <3>1, FS_Subset
  <2>3. Cardinality(kept) \in Nat /\ DOMAIN q = 1..Cardinality(kept)
        /\ \A i \in DOMAIN q : q[i] \in 1..n
    BY <2>2, FS_CardinalityType DEF Ascending
  <2>4. \A i \in DOMAIN q : first + q[i] \in DOMAIN received'
    <3> HIDE DEF first, kept
    <3>1. \A j \in 1..n : first + j \in 1..(first + n)
      BY <1>1
    <3> QED
      BY <1>3, <2>3, <3>1
  <2> DEFINE t == [i \in 1..Cardinality(kept) |-> Tick("get", first + q[i])]
  <2>5. t \in [1..Cardinality(kept) -> [step : {"get", "create"}, id : DOMAIN received']]
    BY <2>3, <2>4 DEF Tick
  <2>6. t \in Seq([step : {"get", "create"}, id : DOMAIN received'])
    <3> HIDE DEF t, kept
    <3> QED
      BY <2>3, <2>5, FunctionIsSeq
  <2>7. ticks' = t /\ \A i \in DOMAIN t : t[i].step = "get"
    BY <2>1, <2>3 DEF Tick
  <2> QED
    BY <2>6, <2>7
<1>6. owner' \in [Socket -> PeerId \cup {NoId}]
  <2>1. CASE by.type = "ws" /\ owner' # owner
    <3>1. PICK m \in DOMAIN batch :
                  owner' = [owner EXCEPT ![by.socket] = batch[m].by.peer_id]
      BY <2>1 DEF Receive
    <3>2. batch[m].by.peer_id \in PeerId
      BY <1>1, PipelineAssumption DEF Requests, Endpoints
    <3> QED
      BY <3>1, <3>2 DEF TInv, TypeOK
  <2>2. CASE owner' = owner
    BY <2>2 DEF TInv, TypeOK
  <2>3. by.type # "ws" => owner' = owner
    BY DEF Receive
  <2> QED
    BY <2>1, <2>2, <2>3
<1>7. TypeOK'
  BY <1>2, <1>3, <1>4, <1>5, <1>6 DEF TInv, TypeOK
<1>8. SwarmsCalm' /\ CreatesAnnounce'
  BY <1>2, <1>5 DEF TInv, SwarmsCalm, CreatesAnnounce
<1> QED
  BY <1>7, <1>8 DEF TInv

LEMMA TypeFilter ==
    ASSUME TInv, NEW id \in filtering, FilterAllows(id) \/ FilterRejects(id)
    PROVE  TInv'
<1>1. id \in DOMAIN received
  BY DEF TInv, TypeOK
<1>2. /\ filtering' = filtering \ {id}
      /\ UNCHANGED <<hasFilter, received, owner, closed, destroyed>>
      /\ UNCHANGED <<swarms, torrents, listing>>
  BY DEF FilterAllows, FilterRejects, inputs, state
<1>3. CASE FilterAllows(id)
  <2>1. /\ ticks' = <<Tick("get", id)>> /\ status' = status
        /\ Tick("get", id) \in [step : {"get", "create"}, id : DOMAIN received]
        /\ Tick("get", id).step = "get"
    BY <1>1, <1>3 DEF FilterAllows, Tick
  <2>2. /\ ticks' \in Seq([step : {"get", "create"}, id : DOMAIN received])
        /\ \A i \in DOMAIN ticks' : ticks'[i].step = "get"
    <3> HIDE <1>3
    <3> QED
      BY <2>1 DEF Tick
  <2> QED
    BY <1>2, <2>1, <2>2 DEF TInv, TypeOK, SwarmsCalm, CreatesAnnounce
<1>4. CASE FilterRejects(id)
  <2>1. /\ ticks' = ticks
        /\ \E v \in {"dropped", "rejected"} : status' = [status EXCEPT ![id] = v]
    BY <1>4 DEF FilterRejects
  <2>2. status' \in [DOMAIN received -> {"pending", "ok", "rejected", "dropped"}]
    BY <1>1, <2>1 DEF TInv, TypeOK
  <2> QED
    BY <1>2, <2>1, <2>2 DEF TInv, TypeOK, SwarmsCalm, CreatesAnnounce
<1> QED
  BY <1>3, <1>4

(* What closing a socket does to the swarm of a torrent.                   *)
Named(s) == {h \in Hash : s \in listing[h] /\ torrents[h] # 0 /\ owner[s] # NoId}
LeftBy(s, h) == Leave(Load(swarms, torrents[h], h), owner[s])

LEMMA LeaveFacts ==
    ASSUME TInv, NEW s \in Socket, NEW h \in Named(s)
    PROVE  /\ torrents[h] \in DOMAIN swarms
           /\ owner[s] \in PeerId /\ owner[s] \in Key
           /\ Calm(LeftBy(s, h)) /\ LeftBy(s, h) \in Swarms
           /\ Leaves(Load(swarms, torrents[h], h), LeftBy(s, h), owner[s])
           /\ LeftBy(s, h).cache =
                 [swarms[torrents[h]].cache EXCEPT ![owner[s]] = NoPeer]
           /\ LeftBy(s, h).listed =
                 IF owner[s] \in Members(swarms[torrents[h]])
                 THEN listing[h] \ {swarms[torrents[h]].cache[owner[s]].socket}
                 ELSE listing[h]
<1> DEFINE o == torrents[h]
           k == owner[s]
           u == Load(swarms, o, h)
           t == LeftBy(s, h)
<1>1. /\ h \in Hash /\ o \in DOMAIN swarms /\ k \in PeerId /\ k \in Key
  BY DEF Named, TInv, TypeOK, SwarmsCalm, Key
<1>2. /\ Calm(u) /\ u.cache = swarms[o].cache /\ u.listed = listing[h]
      /\ Members(u) = Members(swarms[o])
  <2>1. Calm(swarms[o]) /\ listing \in [Hash -> SUBSET (Socket \ closed)]
    BY <1>1 DEF TInv, TypeOK, SwarmsCalm
  <2> HIDE DEF o
  <2> QED
    BY <1>1, <2>1, LoadCalm
<1>3. t = Leave(u, k)
  BY DEF LeftBy
<1> HIDE DEF u, t
<1>4. Calm(t) /\ Leaves(u, t, k)
  BY <1>1, <1>2, <1>3, CalmLeave
<1> QED
  BY <1>1, <1>2, <1>4 DEF Leaves, Calm, Sane, t, u

LEMMA CloseFacts ==
    ASSUME TInv, NEW s \in Socket, CloseSocket(s)
    PROVE  /\ s \notin closed /\ closed' = closed \cup {s} /\ ticks = <<>>
           /\ UNCHANGED <<hasFilter, received, status, filtering, ticks>>
           /\ UNCHANGED <<torrents, destroyed>>
           /\ owner' = [owner EXCEPT ![s] = NoId]
           /\ swarms' \in Seq(Swarms) /\ DOMAIN swarms' = DOMAIN swarms
           /\ Len(swarms') = Len(swarms)
           /\ \A o \in DOMAIN swarms :
                 \/ /\ swarms'[o] = swarms[o]
                    /\ \A h \in Named(s) : torrents[h] # o
                 \/ \E h \in Named(s) : /\ torrents[h] = o
                                        /\ swarms'[o] = Store(LeftBy(s, h))
           /\ listing' = [h \in Hash |->
                            (IF h \in Named(s) THEN LeftBy(s, h).listed
                                               ELSE listing[h]) \ {s}]
<1>1. /\ s \notin closed /\ closed' = closed \cup {s} /\ ticks = <<>>
      /\ UNCHANGED <<hasFilter, received, status, filtering, ticks>>
      /\ UNCHANGED <<torrents, destroyed>>
      /\ owner' = [owner EXCEPT ![s] = NoId]
  BY DEF CloseSocket
<1>2. listing' = [h \in Hash |->
                     (IF h \in Named(s) THEN LeftBy(s, h).listed ELSE listing[h]) \ {s}]
  BY DEF CloseSocket, Named, LeftBy
<1>3. swarms' = [o \in DOMAIN swarms |->
                    IF \E h \in Named(s) : torrents[h] = o
                    THEN Store(LeftBy(s, CHOOSE h \in Named(s) : torrents[h] = o))
                    ELSE swarms[o]]
  BY DEF CloseSocket, Named, LeftBy
<1>4. swarms \in Seq(Swarms) /\ DOMAIN swarms = 1..Len(swarms) /\ Len(swarms) \in Nat
  BY DEF TInv, SwarmsCalm
<1>5. \A o \in DOMAIN swarms :
         \/ /\ swarms'[o] = swarms[o]
            /\ \A h \in Named(s) : torrents[h] # o
         \/ \E h \in Named(s) : torrents[h] = o /\ swarms'[o] = Store(LeftBy(s, h))
  BY <1>3
<1>6. \A h \in Named(s) : Store(LeftBy(s, h)) \in Swarms
  BY LeaveFacts, StoreCalm
<1>7. \A o \in DOMAIN swarms : swarms'[o] \in Swarms
  BY <1>4, <1>5, <1>6
<1>8. swarms' \in [1..Len(swarms) -> Swarms]
  BY <1>3, <1>4, <1>7
<1>9. /\ swarms' \in Seq(Swarms) /\ Len(swarms') = Len(swarms)
      /\ DOMAIN swarms' = DOMAIN swarms
  BY <1>4, <1>8, FunctionIsSeq
<1> QED
  BY <1>1, <1>2, <1>5, <1>9

LEMMA TypeClose ==
    ASSUME TInv, NEW s \in Socket, CloseSocket(s)
    PROVE  TInv'
<1>1. /\ closed' = closed \cup {s}
      /\ UNCHANGED <<hasFilter, received, status, filtering, ticks>>
      /\ UNCHANGED <<torrents, destroyed>>
      /\ owner' = [owner EXCEPT ![s] = NoId]
      /\ swarms' \in Seq(Swarms) /\ DOMAIN swarms' = DOMAIN swarms
      /\ Len(swarms') = Len(swarms)
  BY CloseFacts
<1>2. \A o \in DOMAIN swarms' : Calm(swarms'[o])
  <2> SUFFICES ASSUME NEW o \in DOMAIN swarms PROVE Calm(swarms'[o])
    BY <1>1
  <2>1. \/ swarms'[o] = swarms[o]
        \/ \E h \in Named(s) : swarms'[o] = Store(LeftBy(s, h))
    BY CloseFacts
  <2>2. ASSUME NEW h \in Named(s) PROVE Calm(Store(LeftBy(s, h)))
    <3>1. Calm(LeftBy(s, h))
      BY LeaveFacts
    <3> QED
      BY <3>1, StoreCalm
  <2> QED
    BY <2>1, <2>2 DEF TInv, SwarmsCalm
<1>3. listing' \in [Hash -> SUBSET (Socket \ closed')]
  <2>1. listing' = [h \in Hash |->
                     (IF h \in Named(s) THEN LeftBy(s, h).listed ELSE listing[h]) \ {s}]
    BY CloseFacts
  <2>2. ASSUME NEW h \in Named(s) PROVE LeftBy(s, h).listed \subseteq listing[h]
    <3>1. LeftBy(s, h).listed =
            IF owner[s] \in Members(swarms[torrents[h]])
            THEN listing[h] \ {swarms[torrents[h]].cache[owner[s]].socket}
            ELSE listing[h]
      BY LeaveFacts
    <3> QED
      BY <3>1
  <2>3. listing \in [Hash -> SUBSET (Socket \ closed)]
    BY DEF TInv, TypeOK
  <2> QED
    BY <1>1, <2>1, <2>2, <2>3
<1>4. TypeOK'
  BY <1>1, <1>3 DEF TInv, TypeOK
<1>5. SwarmsCalm' /\ CreatesAnnounce'
  BY <1>1, <1>2 DEF TInv, SwarmsCalm, CreatesAnnounce
<1> QED
  BY <1>4, <1>5 DEF TInv

(* What the head of the queue is.                                          *)
LEMMA HeadFacts ==
    ASSUME TInv, ticks # <<>>
    PROVE  /\ Head(ticks).id \in DOMAIN received
           /\ received[Head(ticks).id] \in Request
           /\ Head(ticks).step = "create" =>
                 received[Head(ticks).id].action = "announce"
           /\ Tail(ticks) \in Seq([step : {"get", "create"}, id : DOMAIN received])
           /\ \A i \in DOMAIN Tail(ticks) :
                 Tail(ticks)[i].step = "create" =>
                    received[Tail(ticks)[i].id].action = "announce"
<1> DEFINE T == [step : {"get", "create"}, id : DOMAIN received]
<1>1. ticks \in Seq(T) /\ received \in Seq(Request)
  BY DEF TInv, TypeOK
<1> HIDE DEF T
<1>2. /\ Head(ticks) = ticks[1] /\ 1 \in DOMAIN ticks /\ ticks[1] \in T
      /\ Tail(ticks) \in Seq(T)
      /\ \A i \in DOMAIN Tail(ticks) : i + 1 \in DOMAIN ticks /\ Tail(ticks)[i] = ticks[i + 1]
  BY <1>1, HeadTailProperties
<1>3. \A i \in DOMAIN ticks :
         ticks[i].step = "create" => received[ticks[i].id].action = "announce"
  BY DEF TInv, CreatesAnnounce
<1>4. Head(ticks).id \in DOMAIN received
  BY <1>2 DEF T
<1> QED
  BY <1>1, <1>2, <1>3, <1>4 DEF T

(* An announce leaves everything typed.                                    *)
LEMMA TypeAnswer ==
    ASSUME TInv, NEW objects \in Seq(Swarms), \A n \in DOMAIN objects : Calm(objects[n]),
           NEW o \in DOMAIN objects, NEW id \in DOMAIN received,
           received[id].action = "announce", AnnounceTo(objects, o, id)
    PROVE  /\ swarms' \in Seq(Swarms) /\ Len(swarms') = Len(objects)
           /\ \A n \in DOMAIN swarms' : Calm(swarms'[n])
           /\ listing' \in [Hash -> SUBSET (Socket \ closed)]
           /\ status' \in [DOMAIN received -> {"pending", "ok", "rejected", "dropped"}]
<1> DEFINE r == received[id]
<1>1. PICK t : Answered(objects, o, id, t)
  BY AnswerFacts DEF TInv
<1>2. /\ r \in Request /\ r.by \in Endpoints /\ r.hash \in Hash
      /\ r.by.type = "ws" => r.by.socket \in Socket
  <2>1. r \in Request
    BY DEF TInv, TypeOK
  <2> QED
    BY <2>1, RequestType
<1>3. Calm(t) /\ Store(t) \in Swarms /\ Calm(Store(t))
  BY <1>1, StoreCalm DEF Answered
<1>4. swarms' = [objects EXCEPT ![o] = Store(t)]
  BY <1>1 DEF Answered
<1>5. /\ swarms' \in Seq(Swarms) /\ Len(swarms') = Len(objects)
      /\ \A n \in DOMAIN swarms' : Calm(swarms'[n])
  BY <1>3, <1>4
<1>6. t.listed \subseteq listing[r.hash]
  <2>1. /\ listing \in [Hash -> SUBSET (Socket \ closed)] /\ Calm(objects[o])
    BY DEF TInv, TypeOK
  <2>2. Load(objects, o, r.hash).listed = listing[r.hash]
    BY <1>2, <2>1, LoadCalm
  <2> QED
    BY <1>1, <2>2 DEF Answered, Leaves, Stays
<1>7. listing' \in [Hash -> SUBSET (Socket \ closed)]
  <2>1. listing' = [listing EXCEPT ![r.hash] =
                         IF r.by.type = "ws" /\ ~Unreachable(r.by)
                         THEN t.listed \cup {r.by.socket} ELSE t.listed]
    BY <1>1 DEF Answered
  <2>2. /\ listing \in [Hash -> SUBSET (Socket \ closed)]
        /\ ~Unreachable(r.by) => r.by.socket \notin closed
    BY DEF TInv, TypeOK, Unreachable
  <2> HIDE DEF r
  <2> QED
    BY <1>2, <1>6, <2>1, <2>2
<1>8. status' \in [DOMAIN received -> {"pending", "ok", "rejected", "dropped"}]
  BY <1>1 DEF Answered, TInv, TypeOK
<1> QED
  BY <1>5, <1>7, <1>8

LEMMA TypeGet == ASSUME TInv, GetSwarm PROVE TInv'
<1> DEFINE id == Head(ticks).id
           o == torrents[received[id].hash]
<1>1. /\ ticks # <<>> /\ received[id].action = "announce"
      /\ UNCHANGED <<hasFilter, received, owner, closed, destroyed>>
      /\ UNCHANGED <<torrents, filtering>>
  BY DEF GetSwarm, inputs
<1>2. /\ id \in DOMAIN received /\ received[id] \in Request
      /\ Tail(ticks) \in Seq([step : {"get", "create"}, id : DOMAIN received])
      /\ \A i \in DOMAIN Tail(ticks) :
            Tail(ticks)[i].step = "create" =>
               received[Tail(ticks)[i].id].action = "announce"
  BY <1>1, HeadFacts
<1>3. CASE o = 0
  <2>1. /\ ticks' = Append(Tail(ticks), Tick("create", id))
        /\ UNCHANGED <<status, swarms, listing>>
    BY <1>3 DEF GetSwarm
  <2>2. /\ Tick("create", id) \in [step : {"get", "create"}, id : DOMAIN received]
        /\ Tick("create", id).id = id
    BY <1>2 DEF Tick
  <2>3. /\ ticks' \in Seq([step : {"get", "create"}, id : DOMAIN received])
        /\ \A i \in DOMAIN ticks' :
              (i \in DOMAIN Tail(ticks) /\ ticks'[i] = Tail(ticks)[i])
                \/ ticks'[i] = Tick("create", id)
    <3> DEFINE T == [step : {"get", "create"}, id : DOMAIN received]
    <3> HIDE DEF T, id
    <3> QED
      BY <1>2, <2>1, <2>2, AppendProperties DEF T
  <2>4. \A i \in DOMAIN ticks' :
           ticks'[i].step = "create" => received[ticks'[i].id].action = "announce"
    BY <1>1, <1>2, <2>2, <2>3
  <2> QED
    BY <1>1, <2>1, <2>3, <2>4 DEF TInv, TypeOK, SwarmsCalm, CreatesAnnounce
<1>4. CASE o # 0
  <2>1. AnnounceTo(swarms, o, id) /\ ticks' = Tail(ticks)
    BY <1>3, <1>4 DEF GetSwarm
  <2>2. o \in DOMAIN swarms /\ swarms \in Seq(Swarms)
        /\ \A n \in DOMAIN swarms : Calm(swarms[n])
    <3>1. received[id].hash \in Hash
      BY <1>2, RequestType
    <3> QED
      BY <1>4, <3>1 DEF TInv, TypeOK, SwarmsCalm
  <2>3. /\ swarms' \in Seq(Swarms) /\ Len(swarms') = Len(swarms)
        /\ \A n \in DOMAIN swarms' : Calm(swarms'[n])
        /\ listing' \in [Hash -> SUBSET (Socket \ closed)]
        /\ status' \in [DOMAIN received -> {"pending", "ok", "rejected", "dropped"}]
    <3> HIDE DEF id, o
    <3> QED
      BY <1>1, <1>2, <2>1, <2>2, TypeAnswer
  <2> QED
    BY <1>1, <1>2, <2>1, <2>3 DEF TInv, TypeOK, SwarmsCalm, CreatesAnnounce
<1> QED
  BY <1>3, <1>4

(* The objects once createSwarm has made one more.                         *)
LEMMA Created ==
    ASSUME TInv
    PROVE  LET objects == Append(swarms, NewSwarm)
           IN  /\ objects \in Seq(Swarms) /\ Len(objects) = Len(swarms) + 1
               /\ Len(objects) \in DOMAIN objects
               /\ DOMAIN objects = DOMAIN swarms \cup {Len(objects)}
               /\ Len(objects) \notin DOMAIN swarms
               /\ \A n \in DOMAIN swarms : objects[n] = swarms[n]
               /\ objects[Len(objects)] = NewSwarm
               /\ \A n \in DOMAIN objects : Calm(objects[n])
<1>1. swarms \in Seq(Swarms) /\ \A n \in DOMAIN swarms : Calm(swarms[n])
  BY DEF TInv, SwarmsCalm
<1>2. NewSwarm \in Swarms /\ Calm(NewSwarm)
  BY CalmNew DEF Calm, Sane
<1> QED
  BY <1>1, <1>2, AppendProperties

LEMMA TypeCreate == ASSUME TInv, CreateSwarm PROVE TInv'
<1> DEFINE id == Head(ticks).id
           objects == Append(swarms, NewSwarm)
<1>1. /\ ticks # <<>> /\ Head(ticks).step = "create"
      /\ torrents' = [torrents EXCEPT ![received[id].hash] = Len(objects)]
      /\ AnnounceTo(objects, Len(objects), id)
      /\ ticks' = Tail(ticks)
      /\ UNCHANGED <<hasFilter, received, owner, closed, destroyed, filtering>>
  BY DEF CreateSwarm, inputs
<1>2. /\ id \in DOMAIN received /\ received[id] \in Request
      /\ received[id].action = "announce"
      /\ Tail(ticks) \in Seq([step : {"get", "create"}, id : DOMAIN received])
      /\ \A i \in DOMAIN Tail(ticks) :
            Tail(ticks)[i].step = "create" =>
               received[Tail(ticks)[i].id].action = "announce"
  BY <1>1, HeadFacts
<1>3. /\ objects \in Seq(Swarms) /\ Len(objects) = Len(swarms) + 1
      /\ Len(objects) \in DOMAIN objects
      /\ \A n \in DOMAIN objects : Calm(objects[n])
  BY Created
<1> HIDE DEF id, objects
<1>4. /\ swarms' \in Seq(Swarms) /\ Len(swarms') = Len(objects)
      /\ \A n \in DOMAIN swarms' : Calm(swarms'[n])
      /\ listing' \in [Hash -> SUBSET (Socket \ closed)]
      /\ status' \in [DOMAIN received -> {"pending", "ok", "rejected", "dropped"}]
  BY <1>1, <1>2, <1>3, TypeAnswer
<1>5. torrents' \in [Hash -> 0..Len(swarms')]
  <2>1. /\ torrents \in [Hash -> 0..Len(swarms)] /\ Len(swarms) \in Nat
    BY DEF TInv, TypeOK, SwarmsCalm
  <2>2. /\ 0..Len(swarms) \subseteq 0..Len(swarms')
        /\ Len(objects) \in 0..Len(swarms')
    BY <1>3, <1>4, <2>1
  <2> QED
    BY <1>1, <2>1, <2>2
<1> QED
  BY <1>1, <1>2, <1>4, <1>5 DEF TInv, TypeOK, SwarmsCalm, CreatesAnnounce

LEMMA TypeScrape == ASSUME TInv, Scrape PROVE TInv'
<1> DEFINE id == Head(ticks).id
<1>1. /\ ticks # <<>> /\ ticks' = Tail(ticks)
      /\ \E v \in {"dropped", "ok"} : status' = [status EXCEPT ![id] = v]
      /\ UNCHANGED <<hasFilter, received, owner, closed, destroyed>>
      /\ UNCHANGED <<swarms, torrents, listing, filtering>>
  BY DEF Scrape, inputs, state
<1>2. /\ id \in DOMAIN received
      /\ Tail(ticks) \in Seq([step : {"get", "create"}, id : DOMAIN received])
      /\ \A i \in DOMAIN Tail(ticks) :
            Tail(ticks)[i].step = "create" =>
               received[Tail(ticks)[i].id].action = "announce"
  BY <1>1, HeadFacts
<1> HIDE DEF id
<1>3. status' \in [DOMAIN received -> {"pending", "ok", "rejected", "dropped"}]
  BY <1>1 DEF TInv, TypeOK
<1> QED
  BY <1>1, <1>2, <1>3 DEF TInv, TypeOK, SwarmsCalm, CreatesAnnounce

LEMMA TypeStep == TInv /\ [Next]_vars => TInv'
<1> SUFFICES ASSUME TInv, [Next]_vars PROVE TInv'
  OBVIOUS
<1>1. CASE UNCHANGED vars
  BY <1>1 DEF vars, inputs, state, TInv, TypeOK, SwarmsCalm, CreatesAnnounce
<1>2. CASE \E n \in 1..MaxBatch :
              \E batch \in [1..n -> Request], late \in SUBSET (1..n) : Receive(batch, late)
  BY <1>2, TypeReceive
<1>3. CASE \E id \in filtering : FilterAllows(id) \/ FilterRejects(id)
  BY <1>3, TypeFilter
<1>4. CASE \E s \in Socket : CloseSocket(s)
  BY <1>4, TypeClose
<1>5. CASE Close
  BY <1>5 DEF Close, state, TInv, TypeOK, SwarmsCalm, CreatesAnnounce
<1>6. CASE GetSwarm \/ CreateSwarm \/ Scrape
  BY <1>6, TypeGet, TypeCreate, TypeScrape
<1> QED
  BY <1>1, <1>2, <1>3, <1>4, <1>5, <1>6 DEF Next

(* The variables of the pipeline have their types, however many requests   *)
(* an I/O callback carries: no swarm is looked up that was never created,  *)
(* nothing waits for a request that did not come, and infoHashes hold open *)
(* sockets only.                                                           *)
THEOREM TypeCorrect == Spec => []TypeOK
<1>1. TInv => TypeOK
  BY DEF TInv
<1> QED
  BY TypeInit, TypeStep, <1>1, PTL DEF Spec

-----------------------------------------------------------------------------
(***************************************************************************)
(* No request is forgotten, and none is settled twice: the safety core of  *)
(* AllSettled.                                                             *)
(***************************************************************************)

(* A request is pending exactly while its filter or one tick has it.       *)
Tracked ==
    /\ \A j, k \in DOMAIN ticks : ticks[j].id = ticks[k].id => j = k
    /\ \A k \in DOMAIN ticks : ticks[k].id \notin filtering
    /\ \A i \in DOMAIN received :
          status[i] = "pending" <=>
              i \in filtering \/ \E k \in DOMAIN ticks : ticks[k].id = i

(* What has become of a request does not change.                           *)
DecidedStep == \A i \in DOMAIN received : status[i] # "pending" => status'[i] = status[i]
DecidedOnce == [][DecidedStep]_vars

(* The head of the queue is the only one that has its request.             *)
LEMMA HeadOnly ==
    ASSUME TInv, Tracked, ticks # <<>>
    PROVE  LET id == Head(ticks).id
           IN  /\ id \in DOMAIN received /\ id \notin filtering /\ status[id] = "pending"
               /\ Tail(ticks) \in Seq([step : {"get", "create"}, id : DOMAIN received])
               /\ \A k \in DOMAIN Tail(ticks) :
                     /\ Tail(ticks)[k].id # id /\ Tail(ticks)[k].id \notin filtering
                     /\ \A j \in DOMAIN Tail(ticks) :
                           Tail(ticks)[j].id = Tail(ticks)[k].id => j = k
               /\ \A i \in DOMAIN received :
                     (\E k \in DOMAIN ticks : ticks[k].id = i) <=>
                         i = id \/ \E k \in DOMAIN Tail(ticks) : Tail(ticks)[k].id = i
<1> DEFINE T == [step : {"get", "create"}, id : DOMAIN received]
           id == Head(ticks).id
<1>1. ticks \in Seq(T) /\ id \in DOMAIN received
  BY HeadFacts DEF TInv, TypeOK
<1> HIDE DEF T
<1>2. /\ Head(ticks) = ticks[1] /\ 1 \in DOMAIN ticks
      /\ Tail(ticks) \in Seq(T)
      /\ Len(ticks) \in Nat /\ DOMAIN ticks = 1 .. Len(ticks)
      /\ DOMAIN Tail(ticks) = 1 .. Len(ticks) - 1
      /\ \A i \in DOMAIN Tail(ticks) : Tail(ticks)[i] = ticks[i + 1]
  BY <1>1, HeadTailProperties
<1>3. \A k \in DOMAIN ticks : k = 1 \/ (k - 1 \in DOMAIN Tail(ticks) /\ (k - 1) + 1 = k)
  BY <1>2
<1>4. \A k \in DOMAIN Tail(ticks) : k + 1 \in DOMAIN ticks /\ k + 1 # 1 /\ (k + 1) - 1 = k
  BY <1>2
<1>5. /\ \A j, k \in DOMAIN ticks : ticks[j].id = ticks[k].id => j = k
      /\ \A k \in DOMAIN ticks : ticks[k].id \notin filtering
      /\ status[id] = "pending" /\ id \notin filtering
  BY <1>1, <1>2 DEF Tracked
<1>6. ASSUME NEW k \in DOMAIN Tail(ticks)
      PROVE  /\ Tail(ticks)[k].id # id /\ Tail(ticks)[k].id \notin filtering
             /\ \A j \in DOMAIN Tail(ticks) : Tail(ticks)[j].id = Tail(ticks)[k].id => j = k
  <2>1. \A j \in DOMAIN Tail(ticks) : j + 1 = k + 1 => j = k
    BY <1>2
  <2> QED
    BY <1>2, <1>4, <1>5, <2>1
<1>7. \A i \in DOMAIN received :
         (\E k \in DOMAIN ticks : ticks[k].id = i) <=>
             i = id \/ \E k \in DOMAIN Tail(ticks) : Tail(ticks)[k].id = i
  BY <1>2, <1>3, <1>4
<1> QED
  BY <1>1, <1>2, <1>5, <1>6, <1>7 DEF T

(* A tick that settles its request.                                        *)
LEMMA SettlesOne ==
    ASSUME TInv, Tracked, ticks # <<>>, ticks' = Tail(ticks),
           UNCHANGED <<received, filtering>>,
           NEW v, v # "pending", status' = [status EXCEPT ![Head(ticks).id] = v]
    PROVE  Tracked' /\ DecidedStep
<1> DEFINE id == Head(ticks).id
           left == Tail(ticks)
<1>1. /\ id \in DOMAIN received /\ id \notin filtering /\ status[id] = "pending"
      /\ \A k \in DOMAIN left :
            /\ left[k].id # id /\ left[k].id \notin filtering
            /\ \A j \in DOMAIN left : left[j].id = left[k].id => j = k
      /\ \A i \in DOMAIN received :
            (\E k \in DOMAIN ticks : ticks[k].id = i) <=>
                i = id \/ \E k \in DOMAIN left : left[k].id = i
  BY HeadOnly
<1>2. status \in [DOMAIN received -> {"pending", "ok", "rejected", "dropped"}]
  BY DEF TInv, TypeOK
<1>3. /\ ticks' = left /\ received' = received /\ filtering' = filtering
      /\ status'[id] = v /\ \A i \in DOMAIN received \ {id} : status'[i] = status[i]
  BY <1>1, <1>2
<1> HIDE DEF id, left
<1>4. \A i \in DOMAIN received :
         status'[i] = "pending" <=> i \in filtering \/ \E k \in DOMAIN left : left[k].id = i
  BY <1>1, <1>3 DEF Tracked
<1> QED
  BY <1>1, <1>3, <1>4 DEF Tracked, DecidedStep

(* A batch: each request waits for the filter or gets one tick.            *)
LEMMA ReceiveTracks ==
    ASSUME TInv, Tracked, NEW n \in 1..MaxBatch, NEW batch \in [1..n -> Request],
           NEW late \in SUBSET (1..n), Receive(batch, late)
    PROVE  Tracked' /\ DecidedStep
<1> DEFINE first == Len(received)
           kept == (1..n) \ late
           N == Cardinality(kept)
<1>1. /\ n \in Nat /\ first \in Nat /\ DOMAIN received = 1..first
      /\ DOMAIN received' = 1..(first + n)
      /\ \A i \in DOMAIN received : status'[i] = status[i]
      /\ \A i \in 1..n : status'[first + i] = "pending"
  BY ReceiveAppends
<1>2. PICK q \in Ascending(kept) :
              ticks' = [i \in DOMAIN q |-> Tick("get", first + q[i])]
  BY DEF Receive
<1>3. IsFiniteSet(kept) /\ N \in Nat
  <2>1. IsFiniteSet(1..n) /\ kept \in SUBSET (1..n)
    BY <1>1, FS_Interval
  <2> QED
    BY <2>1, FS_Subset, FS_CardinalityType
<1>4. /\ q \in [1..N -> kept]
      /\ \A i, j \in 1..N : i < j => q[i] < q[j]
  BY <1>2 DEF Ascending
<1> HIDE DEF N, first
<1>5. \A i, j \in 1..N : q[i] = q[j] => i = j
  <2> SUFFICES ASSUME NEW i \in 1..N, NEW j \in 1..N, q[i] = q[j] PROVE i = j
    OBVIOUS
  <2>1. q[i] \in Int /\ q[j] \in Int /\ i \in Int /\ j \in Int
    BY <1>3, <1>4
  <2>2. ~(q[i] < q[j]) /\ ~(q[j] < q[i])
    BY <2>1
  <2>3. ~(i < j) /\ ~(j < i)
    BY <1>4, <2>2
  <2> QED
    BY <2>1, <2>3
<1>6. \A m \in kept : \E i \in 1..N : q[i] = m
  <2>1. q \in Injection(1..N, kept)
    <3> HIDE DEF kept
    <3> QED
      BY <1>4, <1>5 DEF Injection, IsInjective
  <2>2. IsFiniteSet(1..N) /\ Cardinality(1..N) = N /\ Cardinality(kept) = N
    BY <1>3, FS_Interval DEF N
  <2>3. q \in Surjection(1..N, kept)
    <3> HIDE DEF kept
    <3> QED
      BY <1>3, <2>1, <2>2, FS_Injection
  <2> QED
    BY <2>3 DEF Surjection
<1>7. /\ DOMAIN ticks' = 1..N
      /\ \A k \in 1..N : ticks'[k].id = first + q[k] /\ q[k] \in 1..n /\ q[k] \notin late
  BY <1>2, <1>4 DEF Tick
<1>8. /\ ticks = <<>> /\ DOMAIN ticks = {}
      /\ filtering' = filtering \cup {first + m : m \in late}
      /\ filtering \subseteq 1..first
  BY <1>1 DEF Receive, TInv, TypeOK, first
<1>9. \A j, k \in DOMAIN ticks' : ticks'[j].id = ticks'[k].id => j = k
  <2>1. \A j, k \in 1..N : first + q[j] = first + q[k] => q[j] = q[k]
    BY <1>1, <1>7
  <2> QED
    BY <1>5, <1>7, <2>1
<1>10. \A k \in DOMAIN ticks' : ticks'[k].id \notin filtering'
  <2> SUFFICES ASSUME NEW k \in 1..N PROVE first + q[k] \notin filtering'
    BY <1>7
  <2>1. first + q[k] \notin 1..first
    BY <1>1, <1>7
  <2>2. \A m \in late : first + q[k] # first + m
    <3>1. q[k] \in 1..n /\ q[k] \notin late
      BY <1>7
    <3>2. \A m \in late : m \in 1..n /\ m # q[k]
      BY <3>1
    <3> QED
      BY <1>1, <3>1, <3>2
  <2> QED
    BY <1>8, <2>1, <2>2
<1>11. ASSUME NEW i \in DOMAIN received'
       PROVE  status'[i] = "pending" <=>
                  i \in filtering' \/ \E k \in DOMAIN ticks' : ticks'[k].id = i
  <2>1. CASE i \in 1..first
    <3>1. status'[i] = "pending" <=> i \in filtering
      BY <1>1, <1>8, <2>1 DEF Tracked
    <3>2. \A m \in 1..n : first + m # i
      BY <1>1, <2>1
    <3>3. \A m \in late : first + m # i
      BY <3>2
    <3>4. \A k \in DOMAIN ticks' : ticks'[k].id # i
      BY <1>7, <3>2
    <3> QED
      BY <1>8, <3>1, <3>3, <3>4
  <2>2. CASE i \notin 1..first
    <3> DEFINE m == i - first
    <3>1. m \in 1..n /\ i = first + m
      BY <1>1, <1>11, <2>2
    <3> HIDE DEF m
    <3>2. status'[i] = "pending"
      BY <1>1, <3>1
    <3>3. CASE m \in late
      BY <1>8, <3>1, <3>2, <3>3
    <3>4. CASE m \notin late
      <4>1. PICK k \in 1..N : q[k] = m
        BY <1>6, <3>1, <3>4
      <4> QED
        BY <1>7, <3>1, <3>2, <4>1
    <3> QED
      BY <3>3, <3>4
  <2> QED
    BY <2>1, <2>2
<1> QED
  BY <1>1, <1>9, <1>10, <1>11 DEF Tracked, DecidedStep

(* The filter calls back: its request gets a tick, or is settled.          *)
LEMMA FilterTracks ==
    ASSUME TInv, Tracked, NEW id \in filtering, FilterAllows(id) \/ FilterRejects(id)
    PROVE  Tracked' /\ DecidedStep
<1>1. /\ ticks = <<>> /\ DOMAIN ticks = {}
      /\ filtering' = filtering \ {id} /\ received' = received
      /\ id \in DOMAIN received /\ status[id] = "pending"
      /\ \A i \in DOMAIN received : status[i] = "pending" <=> i \in filtering
  BY DEF FilterAllows, FilterRejects, inputs, TInv, TypeOK, Tracked
<1>2. CASE FilterAllows(id)
  <2>1. DOMAIN ticks' = 1..1 /\ ticks'[1].id = id /\ status' = status
    BY <1>2 DEF FilterAllows, Tick
  <2> QED
    BY <1>1, <2>1 DEF Tracked, DecidedStep
<1>3. CASE FilterRejects(id)
  <2>1. /\ ticks' = ticks
        /\ \E v \in {"dropped", "rejected"} : status' = [status EXCEPT ![id] = v]
    BY <1>3 DEF FilterRejects
  <2>2. status \in [DOMAIN received -> {"pending", "ok", "rejected", "dropped"}]
    BY DEF TInv, TypeOK
  <2> QED
    BY <1>1, <2>1, <2>2 DEF Tracked, DecidedStep
<1> QED
  BY <1>2, <1>3

LEMMA StaysTracked ==
    ASSUME Tracked, UNCHANGED <<received, status, filtering, ticks>>
    PROVE  Tracked' /\ DecidedStep
  BY DEF Tracked, DecidedStep

(* A tick settles its request, or asks for another tick.                   *)
LEMMA TickTracks ==
    ASSUME TInv, Tracked, GetSwarm \/ CreateSwarm \/ Scrape
    PROVE  Tracked' /\ DecidedStep
<1> DEFINE id == Head(ticks).id
           left == Tail(ticks)
<1>1. /\ ticks # <<>> /\ UNCHANGED <<received, filtering>>
  BY DEF GetSwarm, CreateSwarm, Scrape, inputs
<1>2. CASE ticks' = left /\ \E v \in {"ok", "dropped"} : status' = [status EXCEPT ![id] = v]
  BY <1>1, <1>2, SettlesOne
<1>3. CASE ticks' = Append(left, Tick("create", id)) /\ status' = status
  <2>1. /\ id \in DOMAIN received /\ id \notin filtering /\ status[id] = "pending"
        /\ left \in Seq([step : {"get", "create"}, id : DOMAIN received])
        /\ \A k \in DOMAIN left :
              /\ left[k].id # id /\ left[k].id \notin filtering
              /\ \A j \in DOMAIN left : left[j].id = left[k].id => j = k
        /\ \A i \in DOMAIN received :
              (\E k \in DOMAIN ticks : ticks[k].id = i) <=>
                  i = id \/ \E k \in DOMAIN left : left[k].id = i
    BY <1>1, HeadOnly
  <2>2. Tick("create", id) \in [step : {"get", "create"}, id : DOMAIN received]
        /\ Tick("create", id).id = id
    BY <2>1 DEF Tick
  <2> HIDE DEF id, left
  <2>3. /\ DOMAIN ticks' = DOMAIN left \cup {Len(left) + 1}
        /\ Len(left) + 1 \notin DOMAIN left
        /\ ticks'[Len(left) + 1].id = id
        /\ \A k \in DOMAIN left : ticks'[k] = left[k]
    <3> DEFINE T == [step : {"get", "create"}, id : DOMAIN received]
    <3> HIDE DEF T
    <3> QED
      BY <1>3, <2>1, <2>2, AppendProperties DEF T
  <2>4. \A i \in DOMAIN received :
           (\E k \in DOMAIN ticks' : ticks'[k].id = i) <=>
               i = id \/ \E k \in DOMAIN left : left[k].id = i
    BY <2>3
  <2>5. \A i \in DOMAIN received :
           status[i] = "pending" <=> i \in filtering \/ \E k \in DOMAIN ticks' : ticks'[k].id = i
    BY <2>1, <2>4 DEF Tracked
  <2>6. \A j, k \in DOMAIN ticks' : ticks'[j].id = ticks'[k].id => j = k
    BY <2>1, <2>3
  <2> QED
    BY <1>1, <1>3, <2>1, <2>3, <2>5, <2>6 DEF Tracked, DecidedStep
<1>4. CASE GetSwarm
  BY <1>2, <1>3, <1>4 DEF GetSwarm, AnnounceTo
<1>5. CASE CreateSwarm
  BY <1>2, <1>5 DEF CreateSwarm, AnnounceTo
<1>6. CASE Scrape
  BY <1>2, <1>6 DEF Scrape
<1> QED
  BY <1>4, <1>5, <1>6

LEMMA TrackedInit == Init => Tracked
  BY DEF Init, Tracked

LEMMA TrackedStep == TInv /\ Tracked /\ [Next]_vars => Tracked' /\ DecidedStep
<1> SUFFICES ASSUME TInv, Tracked, [Next]_vars PROVE Tracked' /\ DecidedStep
  OBVIOUS
<1>1. CASE UNCHANGED vars
  BY <1>1, StaysTracked DEF vars, inputs
<1>2. CASE \E n \in 1..MaxBatch :
              \E batch \in [1..n -> Request], late \in SUBSET (1..n) : Receive(batch, late)
  BY <1>2, ReceiveTracks
<1>3. CASE \E id \in filtering : FilterAllows(id) \/ FilterRejects(id)
  BY <1>3, FilterTracks
<1>4. CASE \E s \in Socket : CloseSocket(s)
  BY <1>4, StaysTracked DEF CloseSocket
<1>5. CASE Close
  BY <1>5, StaysTracked DEF Close
<1>6. CASE GetSwarm \/ CreateSwarm \/ Scrape
  BY <1>6, TickTracks
<1> QED
  BY <1>1, <1>2, <1>3, <1>4, <1>5, <1>6 DEF Next

(* A request that is not settled waits for the filter, which has not       *)
(* called back yet, or for one tick, however many requests an I/O callback *)
(* carries, whichever sockets close and whatever createSwarm replaces.     *)
THEOREM RequestsTracked == Spec => []Tracked
  BY TypeInit, TypeStep, TrackedInit, TrackedStep, PTL DEF Spec

(* A request is settled once: no filter and no tick comes back to one that *)
(* is answered, rejected or dropped.                                       *)
THEOREM SettledOnce == Spec => DecidedOnce
<1>1. TInv /\ Tracked /\ [Next]_vars => [DecidedStep]_vars
  BY TrackedStep
<1> QED
  BY <1>1, TypeInit, TypeStep, TrackedInit, TrackedStep, PTL DEF Spec, DecidedOnce

-----------------------------------------------------------------------------
(***************************************************************************)
(* One announce, one request at a time.                                    *)
(***************************************************************************)

(* One request is handled at a time: while it waits for createSwarm, its   *)
(* torrent has no swarm. Every object ever created is the swarm of one     *)
(* torrent.                                                                *)
OInv ==
    /\ ticks # <<>> => Tail(ticks) = <<>>
    /\ ticks # <<>> /\ Head(ticks).step = "create" =>
          torrents[received[Head(ticks).id].hash] = 0
    /\ \A o \in DOMAIN swarms : \E h \in Hash : torrents[h] = o
    /\ \A g, h \in Hash : torrents[g] = torrents[h] /\ torrents[g] # 0 => g = h

(* The head of the queue is an announce that a swarm handles, and s and t  *)
(* are the torrent's swarm before and after.                               *)
Serves == \/ GetSwarm /\ torrents[received[Head(ticks).id].hash] # 0
          \/ CreateSwarm

Served(s, t) ==
    LET id == Head(ticks).id
        r == received[id]
        h == r.hash
    IN  /\ Calm(s) /\ s.listed = listing[h] /\ Members(s) = Current(h)
        /\ torrents[h] # 0 => s.cache = swarms[torrents[h]].cache
        /\ Calm(t)
        /\ r.event = "stopped" => Leaves(s, t, KeyOf(r.by))
        /\ r.event # "stopped" => Stays(s, t, r.by)
        /\ torrents'[h] # 0 /\ swarms'[torrents'[h]].cache = t.cache
        /\ \A g \in Hash \ {h} :
              /\ torrents'[g] = torrents[g]
              /\ torrents[g] # 0 => swarms'[torrents[g]] = swarms[torrents[g]]
        /\ listing' = [listing EXCEPT ![h] =
                         IF r.by.type = "ws" /\ ~Unreachable(r.by)
                         THEN t.listed \cup {r.by.socket} ELSE t.listed]
        /\ status' = [status EXCEPT ![id] =
                         IF Unreachable(r.by) THEN "dropped" ELSE "ok"]

LEMMA ServedFacts ==
    ASSUME TInv, OInv, Serves
    PROVE  /\ \E s, t : Served(s, t)
           /\ ticks # <<>> /\ ticks' = <<>>
           /\ UNCHANGED <<inputs, filtering>>
           /\ received[Head(ticks).id].action = "announce"
           /\ torrents'[received[Head(ticks).id].hash] =
                 IF torrents[received[Head(ticks).id].hash] = 0
                 THEN Len(swarms) + 1 ELSE torrents[received[Head(ticks).id].hash]
           /\ DOMAIN swarms' = 1..(IF torrents[received[Head(ticks).id].hash] = 0
                                   THEN Len(swarms) + 1 ELSE Len(swarms))
<1> DEFINE id == Head(ticks).id
           r == received[id]
           h == r.hash
           o == torrents[h]
           made == Append(swarms, NewSwarm)
<1>1. /\ ticks # <<>> /\ Tail(ticks) = <<>> /\ ticks' = Tail(ticks)
      /\ UNCHANGED <<inputs, filtering>>
  BY DEF Serves, GetSwarm, CreateSwarm, OInv
<1>2. /\ id \in DOMAIN received /\ r \in Request /\ h \in Hash
      /\ r.action = "announce"
      /\ o \in 0..Len(swarms) /\ Len(swarms) \in Nat
      /\ DOMAIN swarms = 1..Len(swarms)
  <2>1. id \in DOMAIN received /\ r \in Request
        /\ (Head(ticks).step = "create" => r.action = "announce")
    BY <1>1, HeadFacts
  <2>2. h \in Hash
    BY <2>1, RequestType
  <2>3. r.action = "announce"
    BY <2>1 DEF Serves, GetSwarm, CreateSwarm
  <2> QED
    BY <2>1, <2>2, <2>3 DEF TInv, TypeOK, SwarmsCalm
<1>3. CASE GetSwarm /\ o # 0
  <2>1. AnnounceTo(swarms, o, id) /\ torrents' = torrents
    BY <1>3 DEF GetSwarm
  <2>2. /\ o \in DOMAIN swarms /\ Calm(swarms[o]) /\ swarms \in Seq(Swarms)
        /\ listing \in [Hash -> SUBSET (Socket \ closed)]
    <3>1. o \in DOMAIN swarms
      BY <1>2, <1>3
    <3> HIDE DEF o
    <3> QED
      BY <3>1 DEF TInv, TypeOK, SwarmsCalm
  <2> HIDE DEF id
  <2>3. PICK t : Answered(swarms, o, id, t)
    BY <1>2, <2>1, <2>2, AnswerFacts DEF TInv
  <2>4. LET s == Load(swarms, o, h)
        IN  /\ Calm(s) /\ s.cache = swarms[o].cache /\ s.listed = listing[h]
            /\ Members(s) = Members(swarms[o])
    BY <1>2, <2>2, LoadCalm
  <2>5. /\ swarms' = [swarms EXCEPT ![o] = Store(t)]
        /\ Store(t).cache = t.cache
    BY <2>3, StoreCalm DEF Answered
  <2>6. \A g \in Hash \ {h} : torrents[g] # 0 => swarms'[torrents[g]] = swarms[torrents[g]]
    BY <1>2, <1>3, <2>5 DEF OInv, TInv, TypeOK
  <2>7. Served(Load(swarms, o, h), t)
    BY <1>3, <2>1, <2>2, <2>3, <2>4, <2>5, <2>6 DEF Served, Answered, Current, id
  <2> QED
    BY <1>1, <1>2, <1>3, <2>1, <2>5, <2>7 DEF id
<1>4. CASE CreateSwarm
  <2>1. /\ AnnounceTo(made, Len(made), id)
        /\ torrents' = [torrents EXCEPT ![h] = Len(made)]
        /\ o = 0
    BY <1>4 DEF CreateSwarm, OInv
  <2>2. /\ made \in Seq(Swarms) /\ Len(made) = Len(swarms) + 1
        /\ Len(made) \in DOMAIN made
        /\ \A n \in DOMAIN swarms : made[n] = swarms[n]
        /\ made[Len(made)] = NewSwarm
        /\ Calm(made[Len(made)])
        /\ DOMAIN made = 1..(Len(swarms) + 1)
    BY Created
  <2> HIDE DEF id, made
  <2>3. PICK t : Answered(made, Len(made), id, t)
    BY <1>2, <2>1, <2>2, AnswerFacts DEF TInv
  <2>4. LET s == Load(made, Len(made), h)
        IN  Calm(s) /\ s.listed = listing[h] /\ Members(s) = {}
    <3>1. listing \in [Hash -> SUBSET (Socket \ closed)]
      BY DEF TInv, TypeOK
    <3> QED
      BY <1>2, <2>2, <3>1, LoadCalm, CalmNew
  <2>5. /\ swarms' = [made EXCEPT ![Len(made)] = Store(t)]
        /\ Store(t).cache = t.cache
    BY <2>3, StoreCalm DEF Answered
  <2>6. ASSUME NEW g \in Hash \ {h}
        PROVE  /\ torrents'[g] = torrents[g]
               /\ torrents[g] # 0 => swarms'[torrents[g]] = swarms[torrents[g]]
    <3>1. torrents[g] \in 0..Len(swarms) /\ torrents \in [Hash -> 0..Len(swarms)]
      BY DEF TInv, TypeOK
    <3>2. torrents[g] # 0 => torrents[g] \in DOMAIN swarms /\ torrents[g] # Len(made)
                             /\ torrents[g] \in DOMAIN made
      BY <1>2, <2>2, <3>1
    <3> QED
      BY <2>1, <2>2, <2>5, <3>1, <3>2
  <2>7. /\ torrents'[h] = Len(made) /\ torrents'[h] # 0
        /\ swarms'[torrents'[h]].cache = t.cache
    <3>1. torrents'[h] = Len(made)
      BY <1>2, <2>1 DEF TInv, TypeOK
    <3> QED
      BY <1>2, <2>2, <2>5, <3>1
  <2>8. Served(Load(made, Len(made), h), t)
    BY <2>1, <2>3, <2>4, <2>6, <2>7 DEF Served, Answered, Current, id
  <2>9. DOMAIN swarms' = 1..(Len(swarms) + 1)
    BY <2>2, <2>5
  <2> QED
    BY <1>1, <1>2, <2>1, <2>2, <2>7, <2>8, <2>9 DEF id
<1> QED
  BY <1>3, <1>4 DEF Serves

LEMMA AppendFirst ==
    ASSUME NEW q, q = <<>>, NEW x
    PROVE  /\ Append(q, x) # <<>>
           /\ Head(Append(q, x)) = x /\ Tail(Append(q, x)) = <<>>
  OBVIOUS

(* With one request per I/O callback, what it puts in the queue.           *)
LEMMA ReceiveOne ==
    ASSUME MaxBatch = 1, TInv, NEW n \in 1..MaxBatch,
           NEW batch \in [1..n -> Request], NEW late \in SUBSET (1..n),
           Receive(batch, late)
    PROVE  /\ ticks = <<>>
           /\ UNCHANGED <<hasFilter, swarms, torrents, listing, closed, destroyed>>
           /\ batch[1] \in Request /\ batch[1].by.socket \notin closed
           /\ Len(received) \in Nat
           /\ DOMAIN received = 1..Len(received)
           /\ DOMAIN received' = 1..(Len(received) + 1)
           /\ Len(received') = Len(received) + 1
           /\ \A i \in DOMAIN received : /\ received'[i] = received[i]
                                         /\ status'[i] = status[i]
           /\ received'[Len(received) + 1] = batch[1]
           /\ status'[Len(received) + 1] = "pending"
           /\ \/ /\ ticks' = <<Tick("get", Len(received) + 1)>>
                 /\ filtering' = filtering
              \/ /\ ticks' = <<>>
                 /\ filtering' = filtering \cup {Len(received) + 1}
                 /\ hasFilter
           /\ IF /\ batch[1].by.type = "ws" /\ owner[batch[1].by.socket] = NoId
                 /\ batch[1].action = "announce"
              THEN owner' = [owner EXCEPT ![batch[1].by.socket] = batch[1].by.peer_id]
              ELSE owner' = owner
<1> DEFINE first == Len(received)
<1>1. /\ first \in Nat /\ DOMAIN received = 1..first
      /\ DOMAIN received' = 1..(first + n) /\ Len(received') = first + n
      /\ \A i \in DOMAIN received : received'[i] = received[i] /\ status'[i] = status[i]
      /\ \A i \in 1..n : /\ received'[first + i] = batch[i]
                          /\ status'[first + i] = "pending"
  BY ReceiveAppends
<1>2. n = 1 /\ 1 \in 1..n /\ DOMAIN batch = {1} /\ batch[1] \in Request
  OBVIOUS
<1>3. /\ filtering' = filtering \cup {first + i : i \in late}
      /\ ticks = <<>> /\ batch[1].by.socket \notin closed
      /\ UNCHANGED <<hasFilter, swarms, torrents, listing, closed, destroyed>>
  BY DEF Receive, state
<1> HIDE DEF first
<1>4. \/ ticks' = <<Tick("get", first + 1)>> /\ filtering' = filtering
      \/ ticks' = <<>> /\ filtering' = filtering \cup {first + 1} /\ hasFilter
  <2>1. PICK q \in Ascending(DOMAIN batch \ late) :
                ticks' = [i \in DOMAIN q |-> Tick("get", first + q[i])]
    BY DEF Receive, first
  <2>2. CASE late = {}
    <3>1. DOMAIN batch \ late = {1} /\ Cardinality({1}) = 1 /\ 1..1 = {1}
      BY <1>2, <2>2, FS_Singleton
    <3>2. q \in [{1} -> {1}]
      BY <3>1 DEF Ascending
    <3>3. ticks' = [i \in 1..1 |-> Tick("get", first + 1)]
      BY <2>1, <3>1, <3>2
    <3>4. [i \in 1..1 |-> Tick("get", first + 1)] = <<Tick("get", first + 1)>>
      OBVIOUS
    <3>5. filtering' = filtering
      BY <1>3, <2>2
    <3> QED
      BY <3>3, <3>4, <3>5
  <2>3. CASE late # {}
    <3>1. late = {1} /\ DOMAIN batch \ late = {}
      <4>1. late \subseteq {1}
        BY <1>2
      <4> QED
        BY <1>2, <2>3, <4>1
    <3>0. Cardinality({}) = 0 /\ 1..0 = {}
      BY FS_EmptySet
    <3>2. q \in [{} -> {}]
      BY <3>0, <3>1 DEF Ascending
    <3>3. DOMAIN q = {}
      BY <3>2
    <3>4. ticks' = <<>>
      BY <2>1, <3>3
    <3>5. filtering' = filtering \cup {first + 1} /\ hasFilter
      BY <1>3, <2>3, <3>1 DEF Receive
    <3> QED
      BY <3>4, <3>5
  <2> QED
    BY <2>2, <2>3
<1>5. IF /\ batch[1].by.type = "ws" /\ owner[batch[1].by.socket] = NoId
         /\ batch[1].action = "announce"
      THEN owner' = [owner EXCEPT ![batch[1].by.socket] = batch[1].by.peer_id]
      ELSE owner' = owner
  <2> DEFINE announces == {i \in DOMAIN batch : batch[i].action = "announce"}
  <2>1. announces = IF batch[1].action = "announce" THEN {1} ELSE {}
    BY <1>2
  <2>2. IF batch[1].by.type = "ws" /\ owner[batch[1].by.socket] = NoId /\ announces # {}
        THEN \E i \in announces :
                owner' = [owner EXCEPT ![batch[1].by.socket] = batch[i].by.peer_id]
        ELSE owner' = owner
    BY DEF Receive
  <2> HIDE DEF announces
  <2> QED
    BY <2>1, <2>2
<1> QED
  BY <1>1, <1>2, <1>3, <1>4, <1>5 DEF first

LEMMA OrphanInit == Init => OInv
  BY DEF Init, OInv

LEMMA OrphanStep == MaxBatch = 1 /\ TInv /\ OInv /\ [Next]_vars => OInv'
<1> SUFFICES ASSUME MaxBatch = 1, TInv, OInv, [Next]_vars PROVE OInv'
  OBVIOUS
<1>1. CASE \E n \in 1..MaxBatch :
              \E batch \in [1..n -> Request], late \in SUBSET (1..n) : Receive(batch, late)
  <2>1. PICK n \in 1..MaxBatch :
              \E batch \in [1..n -> Request], late \in SUBSET (1..n) : Receive(batch, late)
    BY <1>1
  <2>2. /\ ticks' = <<Tick("get", Len(received) + 1)>> \/ ticks' = <<>>
        /\ UNCHANGED <<swarms, torrents>>
    BY <2>1, ReceiveOne
  <2>3. /\ ticks' # <<>> => Tail(ticks') = <<>> /\ Head(ticks').step = "get"
    <3>1. CASE ticks' = <<Tick("get", Len(received) + 1)>>
      BY <3>1 DEF Tick
    <3> QED
      BY <2>2, <3>1
  <2> QED
    BY <2>2, <2>3 DEF OInv
<1>2. CASE \E id \in filtering : FilterAllows(id) \/ FilterRejects(id)
  <2>1. PICK id \in filtering : FilterAllows(id) \/ FilterRejects(id)
    BY <1>2
  <2>2. /\ ticks' = <<Tick("get", id)>> \/ (ticks = <<>> /\ ticks' = ticks)
        /\ UNCHANGED <<swarms, torrents>>
    BY <2>1 DEF FilterAllows, FilterRejects, state
  <2>3. ticks' # <<>> => Tail(ticks') = <<>> /\ Head(ticks').step = "get"
    <3>1. CASE ticks' = <<Tick("get", id)>>
      BY <3>1 DEF Tick
    <3> QED
      BY <2>2, <3>1
  <2> QED
    BY <2>2, <2>3 DEF OInv
<1>3. CASE \E s \in Socket : CloseSocket(s)
  <2>1. /\ UNCHANGED <<ticks, torrents>> /\ ticks = <<>>
        /\ DOMAIN swarms' = DOMAIN swarms
    BY <1>3, CloseFacts
  <2> QED
    BY <2>1 DEF OInv
<1>4. CASE UNCHANGED vars \/ Close
  <2>1. UNCHANGED <<swarms, torrents, ticks, received>>
    BY <1>4 DEF vars, Close, inputs, state
  <2> QED
    BY <2>1 DEF OInv
<1>5. CASE Serves
  <2> DEFINE h == received[Head(ticks).id].hash
             n == Len(swarms)
  <2>1. /\ ticks # <<>> /\ ticks' = <<>>
        /\ torrents'[h] = IF torrents[h] = 0 THEN n + 1 ELSE torrents[h]
        /\ DOMAIN swarms' = 1..(IF torrents[h] = 0 THEN n + 1 ELSE n)
    BY <1>5, ServedFacts
  <2>2. \A g \in Hash \ {h} : torrents'[g] = torrents[g]
    <3>1. \E s, t : Served(s, t)
      BY <1>5, ServedFacts
    <3> QED
      BY <3>1 DEF Served
  <2>3. /\ h \in Hash /\ n \in Nat /\ DOMAIN swarms = 1..n
        /\ \A g \in Hash : torrents[g] \in 0..n
    <3>1. received[Head(ticks).id] \in Request
      BY <2>1, HeadFacts
    <3> QED
      BY <3>1, RequestType DEF TInv, TypeOK, SwarmsCalm
  <2>4. /\ \A o \in 1..n : \E g \in Hash : torrents[g] = o
        /\ \A f, g \in Hash : torrents[f] = torrents[g] /\ torrents[f] # 0 => f = g
    BY <2>3 DEF OInv
  <2> HIDE DEF h, n
  <2>5. \A o \in DOMAIN swarms' : \E g \in Hash : torrents'[g] = o
    <3> SUFFICES ASSUME NEW o \in DOMAIN swarms' PROVE \E g \in Hash : torrents'[g] = o
      OBVIOUS
    <3>1. CASE o \in 1..n
      <4>1. PICK g \in Hash : torrents[g] = o
        BY <2>4, <3>1
      <4>2. torrents'[g] = o
        BY <2>1, <2>2, <2>3, <3>1, <4>1
      <4> QED
        BY <4>2
    <3>2. CASE o \notin 1..n
      <4>1. torrents'[h] = o
        BY <2>1, <2>3, <3>2
      <4> QED
        BY <2>3, <4>1
    <3> QED
      BY <3>1, <3>2
  <2>6. ASSUME NEW f \in Hash, NEW g \in Hash, torrents'[f] = torrents'[g], torrents'[f] # 0
        PROVE  f = g
    <3>1. \A e \in Hash : \/ torrents'[e] = torrents[e]
                          \/ e = h /\ torrents[h] = 0 /\ torrents'[h] = n + 1
      BY <2>1, <2>2
    <3>2. \A e \in Hash : torrents[e] # n + 1
      BY <2>3
    <3> QED
      BY <2>4, <2>6, <3>1, <3>2
  <2> QED
    BY <2>1, <2>5, <2>6 DEF OInv
<1>6. CASE GetSwarm /\ torrents[received[Head(ticks).id].hash] = 0
  <2> DEFINE id == Head(ticks).id
  <2>1. /\ ticks # <<>> /\ Tail(ticks) = <<>>
        /\ ticks' = Append(Tail(ticks), Tick("create", id))
        /\ UNCHANGED <<swarms, torrents, received>>
    BY <1>6 DEF GetSwarm, inputs, OInv
  <2>2. Head(ticks') = Tick("create", id) /\ Tail(ticks') = <<>>
    BY <2>1, AppendFirst
  <2>3. Tick("create", id).id = id /\ torrents[received[id].hash] = 0
    BY <1>6 DEF Tick
  <2> HIDE DEF id
  <2> QED
    BY <2>1, <2>2, <2>3 DEF OInv
<1>7. CASE Scrape
  <2>1. ticks' = <<>> /\ UNCHANGED <<swarms, torrents>>
    BY <1>7 DEF Scrape, state, OInv
  <2> QED
    BY <2>1 DEF OInv
<1> QED
  BY <1>1, <1>2, <1>3, <1>4, <1>5, <1>6, <1>7 DEF Next, Serves

-----------------------------------------------------------------------------
(***************************************************************************)
(* Announces that share an I/O callback.                                   *)
(***************************************************************************)

(* What waits for createSwarm is for a torrent that still has no swarm,    *)
(* and every object ever created is the swarm of a torrent.                *)
Creating ==
    \A k \in DOMAIN ticks :
        ticks[k].step = "create" => torrents[received[ticks[k].id].hash] = 0
Registered == \A o \in DOMAIN swarms : \E h \in Hash : torrents[h] = o

LEMMA RegisteredInit == Init => Creating /\ Registered
  BY DEF Init, Creating, Registered

(* I/O callbacks queue no creation and register no object.                 *)
LEMMA RegisteredIO ==
    ASSUME TInv, Creating, Registered, UNCHANGED torrents,
           DOMAIN swarms' = DOMAIN swarms,
           \/ \A k \in DOMAIN ticks' : ticks'[k].step = "get"
           \/ UNCHANGED <<ticks, received>>
    PROVE  Creating' /\ Registered'
<1>1. CASE \A k \in DOMAIN ticks' : ticks'[k].step = "get"
  BY <1>1 DEF Creating, Registered
<1>2. CASE UNCHANGED <<ticks, received>>
  BY <1>2 DEF Creating, Registered
<1> QED
  BY <1>1, <1>2

(* The tick at the head of the queue, and the ticks behind it.             *)
LEMMA QueueFacts ==
    ASSUME TInv, ticks # <<>>
    PROVE  /\ 1 \in DOMAIN ticks /\ ticks[1] = Head(ticks)
           /\ \A k \in DOMAIN Tail(ticks) :
                 /\ k + 1 \in DOMAIN ticks /\ k + 1 # 1
                 /\ Tail(ticks)[k] = ticks[k + 1]
<1> DEFINE T == [step : {"get", "create"}, id : DOMAIN received]
<1>1. ticks \in Seq(T)
  BY DEF TInv, TypeOK
<1> HIDE DEF T
<1> QED
  BY <1>1, HeadTailProperties

LEMMA RegisteredTick ==
    ASSUME TInv, Creating, Registered, Alone, GetSwarm \/ CreateSwarm \/ Scrape
    PROVE  Creating' /\ Registered'
<1> DEFINE id == Head(ticks).id
           h == received[id].hash
           left == Tail(ticks)
<1>1. /\ ticks # <<>> /\ UNCHANGED received
  BY DEF GetSwarm, CreateSwarm, Scrape, inputs
<1>2. /\ 1 \in DOMAIN ticks /\ ticks[1] = Head(ticks)
      /\ \A k \in DOMAIN left : /\ k + 1 \in DOMAIN ticks /\ k + 1 # 1
                                 /\ left[k] = ticks[k + 1]
  BY <1>1, QueueFacts
<1>3. \A k \in DOMAIN left :
         left[k].step = "create" => torrents[received[left[k].id].hash] = 0
  BY <1>2 DEF Creating
<1>4. CASE ticks' = left /\ UNCHANGED torrents /\ DOMAIN swarms' = DOMAIN swarms
  BY <1>1, <1>3, <1>4 DEF Creating, Registered
<1>5. CASE Scrape
  BY <1>4, <1>5 DEF Scrape, state
<1>6. CASE GetSwarm /\ torrents[h] # 0
  <2>1. DOMAIN swarms' = DOMAIN swarms
    BY <1>6 DEF GetSwarm, AnnounceTo
  <2> QED
    BY <1>4, <1>6, <2>1 DEF GetSwarm
<1>7. CASE GetSwarm /\ torrents[h] = 0
  <2>1. /\ ticks' = Append(left, Tick("create", id))
        /\ UNCHANGED <<torrents, swarms>>
    BY <1>7 DEF GetSwarm
  <2>2. left \in Seq([step : {"get", "create"}, id : DOMAIN received])
        /\ Tick("create", id) \in [step : {"get", "create"}, id : DOMAIN received]
    BY <1>1, HeadFacts DEF Tick
  <2>3. Tick("create", id).id = id
    BY DEF Tick
  <2> HIDE DEF left, id
  <2>4. \A k \in DOMAIN ticks' :
           \/ ticks'[k] = Tick("create", id)
           \/ k \in DOMAIN left /\ ticks'[k] = left[k]
    <3> DEFINE T == [step : {"get", "create"}, id : DOMAIN received]
    <3> HIDE DEF T
    <3> QED
      BY <2>1, <2>2, AppendProperties DEF T
  <2> QED
    BY <1>1, <1>3, <1>7, <2>1, <2>3, <2>4 DEF Creating, Registered
<1>8. CASE CreateSwarm
  <2> DEFINE n == Len(swarms)
  <2>1. /\ ticks' = left
        /\ torrents' = [torrents EXCEPT ![h] = Len(Append(swarms, NewSwarm))]
        /\ DOMAIN swarms' = DOMAIN Append(swarms, NewSwarm)
        /\ Head(ticks).step = "create"
    BY <1>8 DEF CreateSwarm, AnnounceTo
  <2>2. received[id].action = "announce" /\ h \in Hash /\ torrents[h] = 0
    <3>1. received[id] \in Request /\ received[id].action = "announce"
      BY <1>1, <2>1, HeadFacts
    <3>2. torrents[h] = 0
      BY <1>2, <2>1 DEF Creating
    <3> QED
      BY <3>1, <3>2, RequestType
  <2>3. /\ n \in Nat /\ DOMAIN swarms = 1..n
        /\ torrents \in [Hash -> 0..n]
    BY DEF TInv, TypeOK, SwarmsCalm
  <2>4. Len(Append(swarms, NewSwarm)) = n + 1 /\ DOMAIN swarms' = 1..(n + 1)
    BY <2>1, Created
  <2>5. ASSUME NEW k \in DOMAIN left, left[k].step = "create"
        PROVE  torrents'[received[left[k].id].hash] = 0
    <3> DEFINE g == received[left[k].id].hash
    <3>1. torrents[g] = 0 /\ received[left[k].id].action = "announce"
      BY <1>1, <1>3, <2>5, HeadFacts
    <3>2. g # h
      BY <1>2, <2>2, <3>1 DEF Alone
    <3> QED
      BY <2>1, <2>3, <3>1, <3>2
  <2>6. Creating'
    BY <1>1, <2>1, <2>5 DEF Creating
  <2>7. Registered'
    <3> SUFFICES ASSUME NEW o \in 1..(n + 1) PROVE \E g \in Hash : torrents'[g] = o
      BY <2>4 DEF Registered
    <3> HIDE DEF h, n
    <3>1. torrents'[h] = n + 1 /\ \A g \in Hash \ {h} : torrents'[g] = torrents[g]
      BY <2>1, <2>2, <2>3, <2>4
    <3>2. CASE o = n + 1
      BY <2>2, <3>1, <3>2
    <3>3. CASE o # n + 1
      <4>1. o \in 1..n /\ o # 0
        BY <2>3, <3>3
      <4>2. PICK g \in Hash : torrents[g] = o
        BY <2>3, <4>1 DEF Registered
      <4> QED
        BY <2>2, <3>1, <4>1, <4>2
    <3> QED
      BY <3>2, <3>3
  <2> QED
    BY <2>6, <2>7
<1> QED
  BY <1>5, <1>6, <1>7, <1>8

LEMMA RegisteredStep ==
    TInv /\ Creating /\ Registered /\ Alone /\ [Next]_vars => (Creating /\ Registered)'
<1> SUFFICES ASSUME TInv, Creating, Registered, Alone, [Next]_vars
             PROVE  Creating' /\ Registered'
  OBVIOUS
<1>1. CASE UNCHANGED vars \/ Close
  BY <1>1, RegisteredIO DEF vars, Close, inputs, state
<1>2. ASSUME NEW n \in 1..MaxBatch, NEW batch \in [1..n -> Request],
             NEW late \in SUBSET (1..n), Receive(batch, late)
      PROVE  Creating' /\ Registered'
  <2>1. PICK q : ticks' = [i \in DOMAIN q |-> Tick("get", Len(received) + q[i])]
    BY <1>2 DEF Receive
  <2>2. \A k \in DOMAIN ticks' : ticks'[k].step = "get"
    BY <2>1 DEF Tick
  <2> QED
    BY <1>2, <2>2, RegisteredIO DEF Receive, state
<1>3. ASSUME NEW id \in filtering, FilterAllows(id) \/ FilterRejects(id)
      PROVE  Creating' /\ Registered'
  <2>1. CASE FilterAllows(id)
    <3>1. \A k \in DOMAIN ticks' : ticks'[k].step = "get"
      BY <2>1 DEF FilterAllows, Tick
    <3> QED
      BY <2>1, <3>1, RegisteredIO DEF FilterAllows, state
  <2>2. CASE FilterRejects(id)
    BY <2>2, RegisteredIO DEF FilterRejects, state, inputs
  <2> QED
    BY <1>3, <2>1, <2>2
<1>4. CASE \E s \in Socket : CloseSocket(s)
  <2>1. /\ UNCHANGED <<ticks, received, torrents>>
        /\ DOMAIN swarms' = DOMAIN swarms
    BY <1>4 DEF CloseSocket
  <2> QED
    BY <2>1, RegisteredIO
<1>5. CASE GetSwarm \/ CreateSwarm \/ Scrape
  BY <1>5, RegisteredTick
<1> QED
  BY <1>1, <1>2, <1>3, <1>4, <1>5 DEF Next

(* A queue of one tick.                                                    *)
LEMMA OneIsAlone == TInv /\ OInv => Alone
<1> SUFFICES ASSUME TInv, OInv, NEW j \in DOMAIN ticks, NEW k \in DOMAIN ticks
             PROVE  j = k
  BY DEF Alone
<1> DEFINE T == [step : {"get", "create"}, id : DOMAIN received]
<1>1. ticks \in Seq(T)
  BY DEF TInv, TypeOK
<1>2. ticks # <<>> /\ Tail(ticks) = <<>>
  <2> HIDE DEF T
  <2> QED
    BY <1>1, EmptySeq DEF OInv
<1> HIDE DEF T
<1>3. Len(Tail(ticks)) = Len(ticks) - 1
  BY <1>1, <1>2, HeadTailProperties
<1>4. Len(<<>>) = 0
  OBVIOUS
<1>5. Len(ticks) \in Nat /\ Len(ticks) - 1 = 0 /\ DOMAIN ticks = 1..Len(ticks)
  <2>1. Len(ticks) \in Nat /\ DOMAIN ticks = 1..Len(ticks)
    BY <1>1
  <2>2. Len(ticks) - 1 = 0
    <3>1. Len(Tail(ticks)) = Len(<<>>)
      BY <1>2, Zenon
    <3> QED
      BY <1>3, <1>4, <3>1
  <2> QED
    BY <2>1, <2>2
<1> QED
  BY <1>5

(* Two such announces never meet where every I/O callback carries one      *)
(* request only: what UDP clients, and clients that await each reply, do.  *)
THEOREM OneByOne == ASSUME MaxBatch = 1 PROVE Spec => []Alone
<1>1. TInv /\ OInv /\ [Next]_vars => (TInv /\ OInv)'
  BY TypeStep, OrphanStep
<1>2. Init => TInv /\ OInv
  BY TypeInit, OrphanInit
<1> QED
  BY <1>1, <1>2, OneIsAlone, PTL DEF Spec

(* getOrCreateSwarm finds the swarm that exists, however many requests an  *)
(* I/O callback carries, as long as no two announces for a torrent without *)
(* a swarm are in one: no object with members is ever replaced as its      *)
(* torrent's swarm. Two such announces do break it, and nothing else can.  *)
THEOREM NoOrphans == Spec => OrphansTakeTwo
<1>1. Registered => NoOrphan
  BY DEF Registered, NoOrphan
<1>2. TInv /\ Creating /\ Registered /\ Alone /\ [Next]_vars
      => (TInv /\ Creating /\ Registered)'
  BY TypeStep, RegisteredStep
<1>3. Init => TInv /\ Creating /\ Registered
  BY TypeInit, RegisteredInit
<1> QED
  BY <1>1, <1>2, <1>3, PTL DEF Spec, OrphansTakeTwo

-----------------------------------------------------------------------------
(***************************************************************************)
(* Peers and their sockets.                                                *)
(***************************************************************************)

(* Peer k came over socket s.                                              *)
Came(k, s) == \E r \in Request : OverWs(r, k, s)

(* The peers of whom an announce for h came too late to be answered.       *)
Late(h) == {k \in Key : CameLate(k, h)}

(* An entry x under k is not of a WebSocket peer, or the server will find  *)
(* it when the socket closes: the socket names the swarm (it is in l) and  *)
(* belongs to k, unless an announce of k came late.                        *)
Tied(k, x, l, own, late) ==
    \/ k \in Addr /\ x.socket = NoSocket
    \/ /\ Came(k, x.socket)
       /\ k \in late \/ (x.socket \in l /\ own[x.socket] = k)
AllTied(s, l, own, late) == \A k \in Members(s) : Tied(k, s.cache[k], l, own, late)

LEMMA CameType ==
    ASSUME NEW k, NEW s, Came(k, s) PROVE k \in PeerId /\ s \in Socket
<1>1. PICK r \in Request : OverWs(r, k, s)
  BY DEF Came
<1> QED
  BY <1>1, RequestType DEF OverWs

LEMMA CameOnce ==
    ASSUME NoShared, NEW j, NEW k, NEW s, Came(j, s), Came(k, s) PROVE j = k
<1>1. j \in PeerId /\ k \in PeerId /\ s \in Socket
  BY CameType
<1> QED
  BY <1>1 DEF Came, NoShared

LEMMA TiesGrow ==
    ASSUME NEW s, NEW l, NEW L, NEW own, NEW late, NEW later,
           AllTied(s, l, own, late), l \subseteq L, late \subseteq later,
           NEW t, t.cache = s.cache
    PROVE  AllTied(t, L, own, later)
  BY DEF AllTied, Tied, Members

(* k leaves: the other members use other sockets.                          *)
LEMMA TiesLeave ==
    ASSUME NoShared, NEW s, Calm(s), NEW t, NEW k \in Key, Leaves(s, t, k),
           NEW own, NEW late, AllTied(s, s.listed, own, late)
    PROVE  AllTied(t, t.listed, own, late)
<1> SUFFICES ASSUME NEW j \in Members(t)
             PROVE  Tied(j, t.cache[j], t.listed, own, late)
  BY DEF AllTied
<1>1. /\ t.cache = [s.cache EXCEPT ![k] = NoPeer]
      /\ t.listed = IF k \in Members(s) THEN s.listed \ {s.cache[k].socket} ELSE s.listed
      /\ s.cache \in [Key -> Peer \cup {NoPeer}]
  BY DEF Leaves, Calm, Sane, Swarms
<1>2. j \in Key /\ j # k /\ t.cache[j] = s.cache[j] /\ j \in Members(s)
  BY <1>1 DEF Members, IsPeer
<1>3. Tied(j, s.cache[j], s.listed, own, late)
  BY <1>2 DEF AllTied
<1>4. ASSUME ~(j \in Addr /\ s.cache[j].socket = NoSocket), k \in Members(s)
      PROVE  s.cache[j].socket # s.cache[k].socket
  <2> SUFFICES ASSUME s.cache[j].socket = s.cache[k].socket PROVE FALSE
    OBVIOUS
  <2>1. Tied(k, s.cache[k], s.listed, own, late)
    BY <1>4 DEF AllTied
  <2>2. Came(j, s.cache[j].socket)
    BY <1>3, <1>4 DEF Tied
  <2>3. Came(k, s.cache[j].socket)
    BY <2>1, <2>2, CameType, SwarmAssumption DEF Tied
  <2> QED
    BY <1>2, <2>2, <2>3, CameOnce
<1> QED
  BY <1>1, <1>2, <1>3, <1>4 DEF Tied

(* An announce of request r: a late one, or one over an open socket, which *)
(* names the swarm from then on.                                           *)
LEMMA TiesStay ==
    ASSUME NEW s, Calm(s), NEW r \in Request, NEW t, Stays(s, t, r.by),
           NEW own, NEW late, AllTied(s, s.listed, own, late),
           NEW L, s.listed \subseteq L, NEW later, late \subseteq later,
           r.by.type = "ws" =>
              \/ r.by.peer_id \in later
              \/ r.by.socket \in L /\ own[r.by.socket] = r.by.peer_id
    PROVE  AllTied(t, L, own, later)
<1> DEFINE p == r.by
           k == KeyOf(p)
<1>1. PICK x \in Peer :
            /\ t.cache = [s.cache EXCEPT ![k] = x]
            /\ k \in Members(s) => Same(x, s.cache[k])
            /\ k \notin Members(s) => Same(x, NewPeer(p, TRUE))
  BY DEF Stays
<1>2. /\ p \in Endpoints /\ k \in Key /\ s.cache \in [Key -> Peer \cup {NoPeer}]
  BY RequestType DEF Calm, Sane, Swarms
<1> SUFFICES ASSUME NEW j \in Members(t) PROVE Tied(j, t.cache[j], L, own, later)
  BY DEF AllTied
<1>3. j \in Key
  BY DEF Members
<1>4. CASE j # k
  <2>1. t.cache[j] = s.cache[j] /\ j \in Members(s)
    BY <1>1, <1>2, <1>3, <1>4 DEF Members
  <2> QED
    BY <2>1 DEF AllTied, Tied
<1>5. CASE j = k /\ k \in Members(s)
  <2>1. t.cache[j].socket = s.cache[j].socket
    BY <1>1, <1>2, <1>5 DEF Same
  <2>2. Tied(j, s.cache[j], s.listed, own, late)
    BY <1>5 DEF AllTied
  <2> QED
    BY <2>1, <2>2 DEF Tied
<1>6. CASE j = k /\ k \notin Members(s)
  <2>1. t.cache[j].socket = p.socket
    BY <1>1, <1>2, <1>6 DEF Same, NewPeer
  <2>2. CASE p.type = "ws"
    <3>1. j = p.peer_id
      BY <1>6, <2>2 DEF KeyOf
    <3>2. Came(j, p.socket)
      BY <2>2, <3>1 DEF Came, OverWs
    <3> QED
      BY <2>1, <2>2, <3>1, <3>2 DEF Tied
  <2>3. CASE p.type # "ws"
    BY <1>2, <1>6, <2>1, <2>3 DEF Tied, Endpoints, KeyOf
  <2> QED
    BY <2>2, <2>3
<1> QED
  BY <1>4, <1>5, <1>6

(* Socket c is cut off once its peer has left.                             *)
LEMMA TiesCut ==
    ASSUME NEW s, NEW l, NEW own \in [Socket -> PeerId \cup {NoId}], NEW late,
           AllTied(s, l, own, late), NEW c \in Socket,
           own[c] \notin Members(s) \/ c \notin l \/ own[c] = NoId
    PROVE  AllTied(s, l \ {c}, [own EXCEPT ![c] = NoId], late)
<1> SUFFICES ASSUME NEW j \in Members(s)
             PROVE  Tied(j, s.cache[j], l \ {c}, [own EXCEPT ![c] = NoId], late)
  BY DEF AllTied
<1> DEFINE x == s.cache[j]
<1>1. Tied(j, x, l, own, late)
  BY DEF AllTied
<1>2. CASE (j \in Addr /\ x.socket = NoSocket) \/ j \in late
  BY <1>1, <1>2 DEF Tied
<1>3. CASE ~(j \in Addr /\ x.socket = NoSocket) /\ j \notin late
  <2>1. /\ Came(j, x.socket) /\ x.socket \in l /\ own[x.socket] = j
    BY <1>1, <1>3 DEF Tied
  <2>2. x.socket \in Socket /\ j # NoId
    BY <2>1, CameType, PipelineAssumption
  <2>3. x.socket # c
    BY <2>1, <2>2
  <2> QED
    BY <2>1, <2>2, <2>3 DEF Tied
<1> QED
  BY <1>2, <1>3

(* A socket that belonged to nobody gets an owner.                         *)
LEMMA TiesNamed ==
    ASSUME NEW s, NEW l, NEW own \in [Socket -> PeerId \cup {NoId}], NEW late,
           AllTied(s, l, own, late), NEW c \in Socket, own[c] = NoId, NEW i
    PROVE  AllTied(s, l, [own EXCEPT ![c] = i], late)
<1> SUFFICES ASSUME NEW j \in Members(s)
             PROVE  Tied(j, s.cache[j], l, [own EXCEPT ![c] = i], late)
  BY DEF AllTied
<1> DEFINE x == s.cache[j]
<1>1. Tied(j, x, l, own, late)
  BY DEF AllTied
<1>2. ASSUME ~(j \in Addr /\ x.socket = NoSocket)
      PROVE  x.socket \in Socket /\ j # NoId
  BY <1>1, <1>2, CameType, PipelineAssumption DEF Tied
<1> QED
  BY <1>1, <1>2 DEF Tied

(* What is still outstanding is undecided: nothing is settled twice.       *)
Outstanding ==
    /\ \A id \in filtering : status[id] = "pending"
    /\ ticks # <<>> => /\ Head(ticks).id \notin filtering
                       /\ status[Head(ticks).id] = "pending"

(* A socket belongs to a peer that uses it, and an open one over which an  *)
(* announce came belongs to somebody.                                      *)
Owners ==
    /\ \A s \in Socket : owner[s] # NoId => Came(owner[s], s)
    /\ \A n \in DOMAIN received :
          LET p == received[n].by
          IN  p.type = "ws" /\ received[n].action = "announce" /\ p.socket \notin closed
                 => owner[p.socket] # NoId

Ties ==
    \A h \in Hash : torrents[h] # 0 =>
        AllTied(swarms[torrents[h]], listing[h], owner, Late(h))

GInv == Outstanding /\ Owners /\ Ties

LEMMA LateGrows ==
    ASSUME \A n \in DOMAIN received :
              /\ n \in DOMAIN received' /\ received'[n] = received[n]
              /\ status[n] = "dropped" => status'[n] = "dropped"
    PROVE  \A h \in Hash : Late(h) \subseteq Late(h)'
  BY DEF Late, CameLate

LEMMA GhostInit == Init => GInv
<1> SUFFICES ASSUME Init PROVE GInv
  OBVIOUS
<1>1. Outstanding /\ Ties
  BY DEF Init, Outstanding, Ties
<1>2. DOMAIN received = {}
  BY DEF Init
<1>3. Owners
  BY <1>2 DEF Init, Owners
<1> QED
  BY <1>1, <1>3 DEF GInv

LEMMA GhostReceive ==
    ASSUME MaxBatch = 1, TInv, GInv, NEW n \in 1..MaxBatch,
           NEW batch \in [1..n -> Request], NEW late \in SUBSET (1..n),
           Receive(batch, late)
    PROVE  GInv'
<1> DEFINE new == Len(received) + 1
           r == batch[1]
           p == r.by
<1>1. /\ UNCHANGED <<hasFilter, swarms, torrents, listing, closed, destroyed>>
      /\ r \in Request /\ p.socket \notin closed
      /\ Len(received) \in Nat
      /\ DOMAIN received = 1..Len(received)
      /\ DOMAIN received' = 1..new
      /\ \A i \in DOMAIN received : received'[i] = received[i] /\ status'[i] = status[i]
      /\ received'[new] = r /\ status'[new] = "pending"
      /\ \/ ticks' = <<Tick("get", new)>> /\ filtering' = filtering
         \/ ticks' = <<>> /\ filtering' = filtering \cup {new}
      /\ IF p.type = "ws" /\ owner[p.socket] = NoId /\ r.action = "announce"
         THEN owner' = [owner EXCEPT ![p.socket] = p.peer_id]
         ELSE owner' = owner
  BY ReceiveOne
<1>2. /\ new \notin DOMAIN received
      /\ DOMAIN received' = DOMAIN received \cup {new}
      /\ filtering \subseteq DOMAIN received
      /\ owner \in [Socket -> PeerId \cup {NoId}]
  BY <1>1 DEF TInv, TypeOK
<1>3. p.type = "ws" => p.socket \in Socket /\ p.peer_id \in PeerId /\ Came(p.peer_id, p.socket)
  BY <1>1, RequestType DEF Came, OverWs
<1> HIDE DEF new, r, p
<1>4. Outstanding'
  <2>1. \A id \in filtering' : status'[id] = "pending"
    BY <1>1, <1>2 DEF GInv, Outstanding
  <2>2. ticks' # <<>> => /\ Head(ticks').id \notin filtering'
                         /\ status'[Head(ticks').id] = "pending"
    <3>1. ticks' # <<>> => Head(ticks').id = new /\ filtering' = filtering
      BY <1>1 DEF Tick
    <3> QED
      BY <1>1, <1>2, <3>1
  <2> QED
    BY <2>1, <2>2 DEF Outstanding
<1>5. Owners'
  <2>1. \A s \in Socket : owner'[s] # NoId => Came(owner'[s], s)
    <3>1. \A s \in Socket : \/ owner'[s] = owner[s]
                            \/ /\ p.type = "ws" /\ s = p.socket
                               /\ owner'[s] = p.peer_id
      BY <1>1, <1>2
    <3> QED
      BY <1>3, <3>1 DEF GInv, Owners
  <2>2. /\ \A s \in Socket : owner[s] # NoId => owner'[s] # NoId
        /\ p.type = "ws" /\ r.action = "announce" => owner'[p.socket] # NoId
    BY <1>1, <1>2, <1>3, PipelineAssumption
  <2>3. ASSUME NEW i \in DOMAIN received', received'[i].by.type = "ws",
               received'[i].action = "announce", received'[i].by.socket \notin closed'
        PROVE  owner'[received'[i].by.socket] # NoId
    <3>1. CASE i = new
      BY <1>1, <2>2, <2>3, <3>1 DEF p
    <3>2. CASE i \in DOMAIN received
      <4>1. received[i] \in Request /\ received'[i] = received[i]
        BY <1>1, <3>2 DEF TInv, TypeOK
      <4>2. received[i].by.socket \in Socket
        BY <2>3, <4>1, RequestType
      <4> QED
        BY <1>1, <2>2, <2>3, <3>2, <4>1, <4>2 DEF GInv, Owners
    <3> QED
      BY <1>2, <3>1, <3>2
  <2> QED
    BY <2>1, <2>3 DEF Owners
<1>6. Ties'
  <2>1. \A f \in Hash : Late(f) \subseteq Late(f)'
    BY <1>1, <1>2, LateGrows
  <2> SUFFICES ASSUME NEW h \in Hash, torrents[h] # 0
               PROVE  AllTied(swarms[torrents[h]], listing[h], owner', Late(h)')
    BY <1>1 DEF Ties
  <2>2. AllTied(swarms[torrents[h]], listing[h], owner, Late(h))
    BY DEF GInv, Ties
  <2>3. AllTied(swarms[torrents[h]], listing[h], owner', Late(h))
    <3>1. CASE owner' = owner
      BY <2>2, <3>1
    <3>2. CASE /\ owner' = [owner EXCEPT ![p.socket] = p.peer_id]
               /\ p.socket \in Socket /\ owner[p.socket] = NoId
      BY <1>2, <2>2, <3>2, TiesNamed
    <3> QED
      BY <1>1, <1>3, <3>1, <3>2
  <2> QED
    BY <2>1, <2>3, TiesGrow
<1> QED
  BY <1>4, <1>5, <1>6 DEF GInv

LEMMA GhostFilter ==
    ASSUME TInv, GInv, NEW id \in filtering, FilterAllows(id) \/ FilterRejects(id)
    PROVE  GInv'
<1>1. /\ id \in DOMAIN received /\ status[id] = "pending"
      /\ filtering \subseteq DOMAIN received
      /\ status \in [DOMAIN received -> {"pending", "ok", "rejected", "dropped"}]
  BY DEF TInv, TypeOK, GInv, Outstanding
<1>2. /\ filtering' = filtering \ {id} /\ ticks = <<>>
      /\ UNCHANGED <<received, owner, closed, swarms, torrents, listing>>
      /\ \A i \in DOMAIN received \ {id} : status'[i] = status[i]
      /\ \/ ticks' = <<Tick("get", id)>> /\ status' = status
         \/ ticks' = <<>>
  BY <1>1 DEF FilterAllows, FilterRejects, inputs, state
<1>3. Outstanding'
  <2>1. ticks' # <<>> => Head(ticks').id = id /\ status' = status
    BY <1>2 DEF Tick
  <2> QED
    BY <1>1, <1>2, <2>1 DEF GInv, Outstanding
<1>4. Owners'
  BY <1>2 DEF GInv, Owners
<1>5. Ties'
  <2>1. \A f \in Hash : Late(f) \subseteq Late(f)'
    BY <1>1, <1>2, LateGrows
  <2>2. ASSUME NEW h \in Hash, torrents[h] # 0
        PROVE  AllTied(swarms[torrents[h]], listing[h], owner, Late(h)')
    BY <2>1, <2>2, TiesGrow DEF GInv, Ties
  <2> QED
    BY <1>2, <2>2 DEF Ties
<1> QED
  BY <1>3, <1>4, <1>5 DEF GInv

LEMMA GhostClose ==
    ASSUME NoShared, TInv, OInv, GInv, NEW c \in Socket, CloseSocket(c)
    PROVE  GInv'
<1>1. /\ closed' = closed \cup {c} /\ ticks = <<>>
      /\ UNCHANGED <<received, status, filtering, ticks, torrents>>
      /\ owner' = [owner EXCEPT ![c] = NoId]
      /\ listing' = [h \in Hash |->
                       (IF h \in Named(c) THEN LeftBy(c, h).listed ELSE listing[h]) \ {c}]
      /\ \A o \in DOMAIN swarms :
            \/ swarms'[o] = swarms[o] /\ \A h \in Named(c) : torrents[h] # o
            \/ \E h \in Named(c) : /\ torrents[h] = o
                                   /\ swarms'[o] = Store(LeftBy(c, h))
  BY CloseFacts
<1>2. /\ owner \in [Socket -> PeerId \cup {NoId}]
      /\ torrents \in [Hash -> 0..Len(swarms)] /\ DOMAIN swarms = 1..Len(swarms)
      /\ \A o \in DOMAIN swarms : Calm(swarms[o])
      /\ listing \in [Hash -> SUBSET (Socket \ closed)]
  BY DEF TInv, TypeOK, SwarmsCalm
<1>3. Outstanding'
  BY <1>1 DEF GInv, Outstanding
<1>4. Owners'
  <2>1. \A s \in Socket : owner'[s] = IF s = c THEN NoId ELSE owner[s]
    BY <1>1, <1>2
  <2>2. ASSUME NEW i \in DOMAIN received, received[i].by.type = "ws",
               received[i].action = "announce", received[i].by.socket \notin closed'
        PROVE  owner'[received[i].by.socket] # NoId
    <3>1. received[i] \in Request
      BY DEF TInv, TypeOK
    <3>2. received[i].by.socket \in Socket
      BY <2>2, <3>1, RequestType
    <3> QED
      BY <1>1, <2>1, <2>2, <3>2 DEF GInv, Owners
  <2> QED
    BY <1>1, <2>1, <2>2 DEF GInv, Owners
<1>5. Ties'
  <2>1. \A f \in Hash : Late(f)' = Late(f)
    BY <1>1 DEF Late, CameLate
  <2> SUFFICES ASSUME NEW h \in Hash, torrents[h] # 0
               PROVE  AllTied(swarms'[torrents[h]], listing'[h], owner', Late(h))
    BY <1>1, <2>1 DEF Ties
  <2> DEFINE o == torrents[h]
             u == Load(swarms, o, h)
  <2>2. o \in DOMAIN swarms /\ AllTied(swarms[o], listing[h], owner, Late(h))
    BY <1>2 DEF GInv, Ties
  <2>3. CASE h \in Named(c)
    <3>1. swarms'[o] = Store(LeftBy(c, h))
      BY <1>1, <2>2, <2>3 DEF OInv, Named
    <3>2. /\ owner[c] \in Key /\ Leaves(u, LeftBy(c, h), owner[c])
          /\ Calm(LeftBy(c, h))
      BY <2>3, LeaveFacts
    <3>3. Calm(u) /\ u.cache = swarms[o].cache /\ u.listed = listing[h]
      BY <1>2, <2>2, LoadCalm
    <3>4. AllTied(u, u.listed, owner, Late(h))
      BY <2>2, <3>3, TiesGrow
    <3>5. AllTied(LeftBy(c, h), LeftBy(c, h).listed, owner, Late(h))
      BY <3>2, <3>3, <3>4, TiesLeave
    <3>6. owner[c] \notin Members(LeftBy(c, h))
      BY <3>2, <3>3 DEF Leaves, Members, IsPeer, Calm, Sane, Swarms
    <3>7. AllTied(LeftBy(c, h), LeftBy(c, h).listed \ {c}, owner', Late(h))
      BY <1>1, <1>2, <3>5, <3>6, TiesCut
    <3>8. Store(LeftBy(c, h)).cache = LeftBy(c, h).cache
      BY <3>2, StoreCalm
    <3>9. listing'[h] = LeftBy(c, h).listed \ {c}
      BY <1>1, <2>3
    <3> QED
      BY <3>1, <3>7, <3>8, <3>9, TiesGrow
  <2>4. CASE h \notin Named(c)
    <3>1. swarms'[o] = swarms[o]
      BY <1>1, <2>2, <2>4 DEF OInv, Named
    <3>2. listing'[h] = listing[h] \ {c}
      BY <1>1, <2>4
    <3>3. c \notin listing[h] \/ owner[c] = NoId
      BY <2>4 DEF Named
    <3> QED
      BY <1>1, <1>2, <2>2, <3>1, <3>2, <3>3, TiesCut
  <2> QED
    BY <2>3, <2>4
<1> QED
  BY <1>3, <1>4, <1>5 DEF GInv

LEMMA GhostServes ==
    ASSUME NoShared, TInv, OInv, GInv, Serves
    PROVE  GInv'
<1> DEFINE id == Head(ticks).id
           r == received[id]
           p == r.by
           h == r.hash
<1>1. /\ ticks # <<>> /\ ticks' = <<>> /\ r.action = "announce"
      /\ UNCHANGED <<received, owner, closed, filtering>>
      /\ \E s, t : Served(s, t)
  BY ServedFacts DEF inputs
<1>2. PICK s, t : Served(s, t)
  BY <1>1
<1>3. /\ Calm(s) /\ s.listed = listing[h] /\ Members(s) = Current(h)
      /\ torrents[h] # 0 => s.cache = swarms[torrents[h]].cache
      /\ Calm(t)
      /\ r.event = "stopped" => Leaves(s, t, KeyOf(p))
      /\ r.event # "stopped" => Stays(s, t, p)
      /\ swarms'[torrents'[h]].cache = t.cache
      /\ \A g \in Hash \ {h} :
            /\ torrents'[g] = torrents[g]
            /\ torrents[g] # 0 => swarms'[torrents[g]] = swarms[torrents[g]]
      /\ listing' = [listing EXCEPT ![h] =
                       IF p.type = "ws" /\ ~Unreachable(p)
                       THEN t.listed \cup {p.socket} ELSE t.listed]
      /\ status' = [status EXCEPT ![id] = IF Unreachable(p) THEN "dropped" ELSE "ok"]
  BY <1>2 DEF Served
<1>4. /\ id \in DOMAIN received /\ r \in Request /\ h \in Hash /\ KeyOf(p) \in Key
      /\ p.type = "ws" => p.socket \in Socket /\ p.peer_id \in PeerId
      /\ status[id] = "pending" /\ id \notin filtering
      /\ status \in [DOMAIN received -> {"pending", "ok", "rejected", "dropped"}]
      /\ listing \in [Hash -> SUBSET (Socket \ closed)]
  <2>1. id \in DOMAIN received /\ r \in Request
    BY <1>1, HeadFacts
  <2> QED
    BY <1>1, <2>1, RequestType DEF TInv, TypeOK, GInv, Outstanding
<1> HIDE DEF id, r, p, h
<1>5. \A i \in DOMAIN received \ {id} : status'[i] = status[i]
  BY <1>3, <1>4
<1>6. Outstanding'
  <2>1. filtering \subseteq DOMAIN received
    BY DEF TInv, TypeOK
  <2> QED
    BY <1>1, <1>4, <1>5, <2>1 DEF GInv, Outstanding
<1>7. Owners'
  BY <1>1 DEF GInv, Owners
<1>8. Ties'
  <2>1. \A f \in Hash : Late(f) \subseteq Late(f)'
    BY <1>1, <1>4, <1>5, LateGrows
  <2> SUFFICES ASSUME NEW g \in Hash, torrents'[g] # 0
               PROVE  AllTied(swarms'[torrents'[g]], listing'[g], owner, Late(g)')
    BY <1>1 DEF Ties
  <2>2. CASE g # h
    <3>1. /\ torrents'[g] = torrents[g] /\ listing'[g] = listing[g]
          /\ swarms'[torrents'[g]] = swarms[torrents[g]]
      BY <1>3, <1>4, <2>2
    <3>2. AllTied(swarms[torrents[g]], listing[g], owner, Late(g))
      BY <3>1 DEF GInv, Ties
    <3> QED
      BY <2>1, <3>1, <3>2, TiesGrow
  <2>3. CASE g = h
    <3>1. AllTied(s, s.listed, owner, Late(g))
      <4>1. CASE torrents[h] = 0
        <5>1. Members(s) = {}
          BY <1>3, <4>1 DEF Current
        <5> QED
          BY <5>1 DEF AllTied
      <4>2. CASE torrents[h] # 0
        <5>1. AllTied(swarms[torrents[h]], listing[h], owner, Late(g))
          BY <2>3, <4>2 DEF GInv, Ties
        <5> QED
          BY <1>3, <4>2, <5>1, TiesGrow
      <4> QED
        BY <4>1, <4>2
    <3>2. listing'[h] = IF p.type = "ws" /\ ~Unreachable(p)
                        THEN t.listed \cup {p.socket} ELSE t.listed
      BY <1>3, <1>4
    <3>3. t.listed \subseteq listing'[h]
      BY <3>2
    <3>4. AllTied(t, listing'[h], owner, Late(g)')
      <4>1. CASE r.event = "stopped"
        <5>1. AllTied(t, t.listed, owner, Late(g))
          BY <1>3, <1>4, <3>1, <4>1, TiesLeave
        <5> QED
          BY <2>1, <3>3, <5>1, TiesGrow
      <4>2. CASE r.event # "stopped"
        <5>1. Stays(s, t, p) /\ s.listed \subseteq listing'[h]
          BY <1>3, <3>3, <4>2 DEF Stays
        <5>2. ASSUME p.type = "ws"
              PROVE  \/ p.peer_id \in Late(g)'
                     \/ p.socket \in listing'[h] /\ owner[p.socket] = p.peer_id
          <6>1. CASE Unreachable(p)
            <7>1. status'[id] = "dropped" /\ received'[id].by = p
              BY <1>1, <1>3, <1>4, <6>1 DEF p, r
            <7>2. KeyOf(p) = p.peer_id
              BY <5>2 DEF KeyOf
            <7>3. KeyOf(received'[id].by) = p.peer_id /\ id \in DOMAIN received'
                  /\ p.peer_id \in Key
              BY <1>1, <1>4, <7>1, <7>2
            <7>4. /\ received'[id].action = "announce" /\ received'[id].event # "stopped"
                  /\ received'[id].hash = g
              BY <1>1, <2>3, <4>2 DEF r, h
            <7>5. \A k \in Key : k = p.peer_id => k \in Late(g)'
              BY <7>1, <7>3, <7>4 DEF Late, CameLate
            <7> QED
              BY <7>3, <7>5
          <6>2. CASE ~Unreachable(p)
            <7>1. p.socket \notin closed /\ p.socket \in listing'[h]
              BY <3>2, <5>2, <6>2 DEF Unreachable
            <7>2. owner[p.socket] # NoId
              BY <1>1, <1>4, <5>2, <7>1 DEF GInv, Owners, p, r
            <7>3. Came(owner[p.socket], p.socket)
              BY <1>4, <5>2, <7>2 DEF GInv, Owners
            <7>4. Came(p.peer_id, p.socket)
              BY <1>4, <5>2 DEF Came, OverWs, p
            <7> QED
              BY <7>1, <7>3, <7>4, CameOnce
          <6> QED
            BY <6>1, <6>2
        <5>3. r.by.type = "ws" =>
                 \/ r.by.peer_id \in Late(g)'
                 \/ r.by.socket \in listing'[h] /\ owner[r.by.socket] = r.by.peer_id
          BY <5>2 DEF p
        <5>4. Stays(s, t, r.by)
          BY <5>1 DEF p
        <5> DEFINE L == listing'[h]
                   later == Late(g)'
        <5>5. r.by.type = "ws" =>
                 \/ r.by.peer_id \in later
                 \/ r.by.socket \in L /\ owner[r.by.socket] = r.by.peer_id
          BY <5>3
        <5>7. Calm(s) /\ r \in Request /\ s.listed \subseteq L /\ Late(g) \subseteq later
          BY <1>3, <1>4, <2>1, <5>1
        <5> HIDE DEF L, later
        <5>6. AllTied(t, L, owner, later)
          BY <3>1, <5>4, <5>5, <5>7, TiesStay
        <5> QED
          BY <5>6 DEF L, later
      <4> QED
        BY <4>1, <4>2
    <3> QED
      BY <1>3, <2>3, <3>4, TiesGrow
  <2> QED
    BY <2>2, <2>3
<1> QED
  BY <1>6, <1>7, <1>8 DEF GInv

LEMMA GhostStep == MaxBatch = 1 /\ NoShared /\ TInv /\ OInv /\ GInv /\ [Next]_vars => GInv'
<1> SUFFICES ASSUME MaxBatch = 1, NoShared, TInv, OInv, GInv, [Next]_vars
             PROVE  GInv'
  OBVIOUS
<1>1. CASE \E n \in 1..MaxBatch :
              \E batch \in [1..n -> Request], late \in SUBSET (1..n) : Receive(batch, late)
  <2>1. PICK n \in 1..MaxBatch :
              \E batch \in [1..n -> Request], late \in SUBSET (1..n) : Receive(batch, late)
    BY <1>1
  <2>2. PICK batch \in [1..n -> Request], late \in SUBSET (1..n) : Receive(batch, late)
    BY <2>1
  <2> QED
    BY <2>2, GhostReceive
<1>2. CASE \E id \in filtering : FilterAllows(id) \/ FilterRejects(id)
  BY <1>2, GhostFilter
<1>3. CASE \E s \in Socket : CloseSocket(s)
  BY <1>3, GhostClose
<1>4. CASE UNCHANGED vars \/ Close
  <2>1. UNCHANGED <<received, owner, closed, swarms, torrents, listing, status,
                    filtering, ticks>>
    BY <1>4 DEF vars, Close, inputs, state
  <2>2. \A f \in Hash : Late(f)' = Late(f)
    BY <2>1 DEF Late, CameLate
  <2> QED
    BY <2>1, <2>2 DEF GInv, Outstanding, Owners, Ties
<1>5. CASE Serves
  BY <1>5, GhostServes
<1>6. CASE GetSwarm /\ torrents[received[Head(ticks).id].hash] = 0
  <2> DEFINE id == Head(ticks).id
  <2>1. /\ ticks # <<>> /\ Tail(ticks) = <<>>
        /\ ticks' = Append(Tail(ticks), Tick("create", id))
        /\ UNCHANGED <<received, owner, closed, swarms, torrents, listing, status, filtering>>
    BY <1>6 DEF GetSwarm, inputs, OInv
  <2> HIDE DEF id
  <2>2. Head(ticks').id = id
    <3>1. Head(ticks') = Tick("create", id)
      BY <2>1, AppendFirst
    <3> QED
      BY <3>1 DEF Tick
  <2>3. \A f \in Hash : Late(f)' = Late(f)
    BY <2>1 DEF Late, CameLate
  <2>4. Outstanding'
    BY <2>1, <2>2 DEF GInv, Outstanding, id
  <2> QED
    BY <2>1, <2>3, <2>4 DEF GInv, Owners, Ties
<1>7. CASE Scrape
  <2> DEFINE id == Head(ticks).id
  <2>1. /\ ticks # <<>> /\ ticks' = <<>>
        /\ UNCHANGED <<received, owner, closed, swarms, torrents, listing, filtering>>
        /\ \E v \in {"dropped", "ok"} : status' = [status EXCEPT ![id] = v]
    BY <1>7 DEF Scrape, inputs, state, OInv
  <2>2. /\ id \notin filtering /\ status[id] = "pending"
        /\ filtering \subseteq DOMAIN received
        /\ status \in [DOMAIN received -> {"pending", "ok", "rejected", "dropped"}]
    BY <2>1 DEF GInv, Outstanding, TInv, TypeOK
  <2> HIDE DEF id
  <2>3. \A i \in DOMAIN received \ {id} : status'[i] = status[i]
    BY <2>1, <2>2
  <2>4. Outstanding'
    BY <2>1, <2>2, <2>3 DEF GInv, Outstanding
  <2>5. \A f \in Hash : Late(f) \subseteq Late(f)'
    BY <2>1, <2>2, <2>3, LateGrows
  <2>6. ASSUME NEW h \in Hash, torrents[h] # 0
        PROVE  AllTied(swarms[torrents[h]], listing[h], owner, Late(h)')
    BY <2>5, <2>6, TiesGrow DEF GInv, Ties
  <2>7. Owners' /\ Ties'
    BY <2>1, <2>6 DEF GInv, Owners, Ties
  <2> QED
    BY <2>4, <2>7 DEF GInv
<1> QED
  BY <1>1, <1>2, <1>3, <1>4, <1>5, <1>6, <1>7 DEF Next, Serves

(* A peer whose socket has closed is a member only because of an announce  *)
(* that was too late, if requests are handled one by one and no two peers  *)
(* share a socket: _onWebSocketClose knows one peer id only.               *)
THEOREM GhostsLate ==
    ASSUME MaxBatch = 1, NoShared PROVE Spec => []GhostsCameLate
<1>1. ASSUME TInv, OInv, GInv PROVE GhostsCameLate
  <2> SUFFICES ASSUME NEW h \in Hash, NEW k \in Current(h),
                      swarms[torrents[h]].cache[k].socket \in closed, k \notin Late(h)
               PROVE  FALSE
    BY DEF GhostsCameLate, Late, Current, Members
  <2> DEFINE o == torrents[h]
  <2>1. o # 0 /\ k \in Members(swarms[o])
    BY DEF Current
  <2>2. /\ closed \subseteq Socket
        /\ listing \in [Hash -> SUBSET (Socket \ closed)]
    BY <1>1 DEF TInv, TypeOK
  <2>3. Tied(k, swarms[o].cache[k], listing[h], owner, Late(h))
    BY <1>1, <2>1 DEF GInv, Ties, AllTied
  <2>4. swarms[o].cache[k].socket \in listing[h]
    BY <2>2, <2>3, SwarmAssumption DEF Tied
  <2> QED
    BY <2>2, <2>4
<1>2. TInv /\ OInv /\ GInv /\ [Next]_vars => (TInv /\ OInv /\ GInv)'
  BY TypeStep, OrphanStep, GhostStep
<1>3. Init => TInv /\ OInv /\ GInv
  BY TypeInit, OrphanInit, GhostInit
<1> QED
  BY <1>1, <1>2, <1>3, PTL DEF Spec

-----------------------------------------------------------------------------
(***************************************************************************)
(* The last announce decides.                                              *)
(***************************************************************************)

(* How many requests have been handled, when there is no filter.           *)
Handled == IF ticks = <<>> THEN Len(received) ELSE Len(received) - 1

(* n is the last of the first m requests to announce its peer for its hash.*)
Latest(n, m) ==
    /\ received[n].action = "announce"
    /\ \A i \in (n + 1)..m : ~(/\ received[i].action = "announce"
                               /\ received[i].hash = received[n].hash
                               /\ KeyOf(received[i].by) = KeyOf(received[n].by))
Word(n) ==
    KeyOf(received[n].by) \in Current(received[n].hash) <=>
        received[n].event # "stopped" /\ received[n].by.socket \notin closed

(* Without a filter the request that waits is the last one received, and   *)
(* while the server is up nothing is dropped: its socket cannot close      *)
(* before the queue is empty.                                              *)
WInv ==
    ~hasFilter =>
        /\ filtering = {}
        /\ ticks # <<>> => Head(ticks).id = Len(received)
        /\ ~destroyed =>
              /\ \A n \in DOMAIN received : status[n] # "dropped"
              /\ ticks # <<>> => received[Head(ticks).id].by.socket \notin closed
              /\ \A n \in 1..Handled : Latest(n, Handled) => Word(n)

(* An announce decides about its own peer in its own swarm, and about      *)
(* nobody else.                                                            *)
LEMMA ServedCurrent ==
    ASSUME TInv, OInv, Serves, NEW g \in Hash, NEW k \in Key
    PROVE  LET r == received[Head(ticks).id]
           IN  k \in Current(g)' <=> IF g = r.hash /\ k = KeyOf(r.by)
                                     THEN r.event # "stopped" ELSE k \in Current(g)
<1> DEFINE r == received[Head(ticks).id]
           h == r.hash
           j == KeyOf(r.by)
<1>1. PICK s, t : Served(s, t)
  BY ServedFacts
<1>2. /\ Calm(s) /\ Members(s) = Current(h)
      /\ r.event = "stopped" => Leaves(s, t, j)
      /\ r.event # "stopped" => Stays(s, t, r.by)
      /\ torrents'[h] # 0 /\ swarms'[torrents'[h]].cache = t.cache
      /\ \A f \in Hash \ {h} :
            /\ torrents'[f] = torrents[f]
            /\ torrents[f] # 0 => swarms'[torrents[f]] = swarms[torrents[f]]
  BY <1>1 DEF Served
<1>3. h \in Hash /\ j \in Key
  <2>1. r \in Request
    BY ServedFacts, HeadFacts
  <2> QED
    BY <2>1, RequestType
<1> HIDE DEF r, h, j
<1>4. CASE g # h
  BY <1>2, <1>4 DEF Current, h, r
<1>5. CASE g = h
  <2>1. k \in Current(g)' <=> k \in Members(t)
    BY <1>2, <1>5 DEF Current, Members
  <2>2. PICK x \in Peer \cup {NoPeer} :
              /\ t.cache = [s.cache EXCEPT ![j] = x]
              /\ x = NoPeer <=> r.event = "stopped"
    <3>1. CASE r.event = "stopped"
      BY <1>2, <3>1 DEF Leaves
    <3>2. CASE r.event # "stopped"
      BY <1>2, <3>2, SwarmAssumption DEF Stays, j
    <3> QED
      BY <3>1, <3>2
  <2>3. k \in Members(t) <=> IF k = j THEN r.event # "stopped" ELSE k \in Members(s)
    BY <1>2, <1>3, <2>2 DEF Members, IsPeer, Calm, Sane, Swarms
  <2> QED
    BY <1>2, <1>5, <2>1, <2>3 DEF h, j, r
<1> QED
  BY <1>4, <1>5

(* A socket that closes takes its owner out of the swarms that it names.   *)
LEMMA ClosedCurrent ==
    ASSUME TInv, OInv, NEW c \in Socket, CloseSocket(c), NEW g \in Hash, NEW k \in Key
    PROVE  k \in Current(g)' <=> k \in Current(g) /\ ~(g \in Named(c) /\ k = owner[c])
<1> DEFINE o == torrents[g]
<1>1. /\ torrents' = torrents
      /\ \A i \in DOMAIN swarms :
            \/ swarms'[i] = swarms[i] /\ \A h \in Named(c) : torrents[h] # i
            \/ \E h \in Named(c) : /\ torrents[h] = i
                                   /\ swarms'[i] = Store(LeftBy(c, h))
  BY CloseFacts
<1>2. o # 0 => o \in DOMAIN swarms /\ Calm(swarms[o])
  BY DEF TInv, TypeOK, SwarmsCalm
<1>3. CASE o = 0
  BY <1>1, <1>3 DEF Current
<1>4. CASE o # 0 /\ g \notin Named(c)
  <2>1. swarms'[o] = swarms[o]
    BY <1>1, <1>2, <1>4 DEF OInv, Named
  <2> QED
    BY <1>1, <1>4, <2>1 DEF Current
<1>5. CASE o # 0 /\ g \in Named(c)
  <2>1. swarms'[o] = Store(LeftBy(c, g))
    BY <1>1, <1>2, <1>5 DEF OInv, Named
  <2>2. /\ Calm(LeftBy(c, g))
        /\ LeftBy(c, g).cache = [swarms[o].cache EXCEPT ![owner[c]] = NoPeer]
    BY <1>5, LeaveFacts
  <2>3. swarms'[o].cache = [swarms[o].cache EXCEPT ![owner[c]] = NoPeer]
    BY <2>1, <2>2, StoreCalm
  <2>4. swarms[o].cache \in [Key -> Peer \cup {NoPeer}]
    BY <1>2, <1>5 DEF Calm, Sane, Swarms
  <2>5. k \in Members(swarms'[o]) <=> k \in Members(swarms[o]) /\ k # owner[c]
    BY <2>3, <2>4 DEF Members, IsPeer
  <2> QED
    BY <1>1, <1>5, <2>5 DEF Current
<1> QED
  BY <1>3, <1>4, <1>5

(* A socket that closes takes out the peers whose last announce came over  *)
(* it, and no other.                                                       *)
LEMMA ClosedWord ==
    ASSUME NoReconnect, TInv, OInv, GInv, \A f \in Hash : Late(f) = {},
           NEW c \in Socket, CloseSocket(c),
           NEW r \in Request, NEW h \in Hash
    PROVE  KeyOf(r.by) \in Current(h)' <=>
              KeyOf(r.by) \in Current(h) /\ r.by.socket # c
<1> DEFINE p == r.by
           k == KeyOf(p)
<1>1. /\ p \in Endpoints /\ k \in Key
      /\ p.type = "ws" => p.socket \in Socket /\ p.peer_id \in PeerId /\ k = p.peer_id
      /\ p.type # "ws" => p.socket = NoSocket /\ k \in Addr
  BY RequestType DEF Endpoints, KeyOf
<1>2. p.type = "ws" => Came(k, p.socket)
  BY <1>1 DEF Came, OverWs
<1> HIDE DEF k, p
<1>3. k \in Current(h)' <=> k \in Current(h) /\ ~(h \in Named(c) /\ k = owner[c])
  BY <1>1, ClosedCurrent
<1>4. ASSUME k \in Current(h), p.socket = c PROVE h \in Named(c) /\ k = owner[c]
  <2>1. p.type = "ws" /\ Came(k, c) /\ k \in PeerId
    BY <1>1, <1>2, <1>4, SwarmAssumption
  <2>2. torrents[h] # 0 /\ k \in Members(swarms[torrents[h]])
    BY <1>4 DEF Current
  <2> DEFINE x == swarms[torrents[h]].cache[k]
  <2>3. Tied(k, x, listing[h], owner, Late(h))
    BY <2>2 DEF GInv, Ties, AllTied
  <2>4. Came(k, x.socket) /\ x.socket \in listing[h] /\ owner[x.socket] = k
    BY <2>1, <2>3, SwarmAssumption DEF Tied
  <2>5. x.socket = c
    <3>1. x.socket \in Socket
      BY <2>4, CameType
    <3> QED
      BY <2>1, <2>4, <3>1 DEF Came, NoReconnect
  <2> QED
    BY <2>1, <2>2, <2>4, <2>5, PipelineAssumption DEF Named
<1>5. ASSUME h \in Named(c), k = owner[c] PROVE p.socket = c
  <2>1. Came(k, c)
    BY <1>5 DEF Named, GInv, Owners
  <2>2. k \in PeerId
    BY <2>1, CameType
  <2>3. p.type = "ws" /\ p.socket \in Socket
    BY <1>1, <2>2, SwarmAssumption
  <2> QED
    BY <1>2, <2>1, <2>2, <2>3 DEF Came, NoReconnect
<1> QED
  BY <1>3, <1>4, <1>5 DEF k, p

LEMMA WordInit == Init => WInv
<1> SUFFICES ASSUME Init PROVE WInv
  OBVIOUS
<1>1. filtering = {} /\ ticks = <<>> /\ DOMAIN received = {} /\ Len(received) = 0
  BY DEF Init
<1>2. Handled = 0
  BY <1>1 DEF Handled
<1> QED
  BY <1>1, <1>2 DEF WInv

LEMMA WordReceive ==
    ASSUME MaxBatch = 1, TInv, WInv, NEW n \in 1..MaxBatch,
           NEW batch \in [1..n -> Request], NEW late \in SUBSET (1..n),
           Receive(batch, late)
    PROVE  WInv'
<1> DEFINE len == Len(received)
<1> SUFFICES ASSUME ~hasFilter
             PROVE  /\ filtering' = {}
                    /\ ticks' # <<>> => Head(ticks').id = Len(received')
                    /\ ~destroyed' =>
                          /\ \A i \in DOMAIN received' : status'[i] # "dropped"
                          /\ ticks' # <<>> =>
                                received'[Head(ticks').id].by.socket \notin closed'
                          /\ \A i \in 1..Handled' : Latest(i, Handled)' => Word(i)'
  BY ReceiveOne DEF WInv
<1>1. /\ ticks = <<>>
      /\ UNCHANGED <<swarms, torrents, closed, destroyed>>
      /\ batch[1].by.socket \notin closed
      /\ len \in Nat
      /\ DOMAIN received = 1..len
      /\ DOMAIN received' = 1..(len + 1) /\ Len(received') = len + 1
      /\ \A i \in 1..len : received'[i] = received[i] /\ status'[i] = status[i]
      /\ received'[len + 1] = batch[1] /\ status'[len + 1] = "pending"
      /\ ticks' = <<Tick("get", len + 1)>> /\ filtering' = filtering
  BY ReceiveOne
<1>2. /\ filtering = {}
      /\ ~destroyed =>
            /\ \A i \in 1..len : status[i] # "dropped"
            /\ \A i \in 1..len : Latest(i, len) => Word(i)
  BY <1>1 DEF WInv, Handled
<1> HIDE DEF len
<1>3. ticks' # <<>> /\ Head(ticks').id = len + 1
  BY <1>1 DEF Tick
<1>4. Handled' = len
  BY <1>1, <1>3 DEF Handled
<1>5. ASSUME ~destroyed, NEW i \in 1..Handled', Latest(i, Handled)' PROVE Word(i)'
  <2>1. i \in 1..len
    BY <1>4
  <2>2. \A j \in (i + 1)..len : j \in 1..len
    BY <1>1, <2>1
  <2>3. Latest(i, len)
    BY <1>1, <1>4, <1>5, <2>1, <2>2 DEF Latest
  <2>4. Word(i)
    BY <1>2, <1>5, <2>1, <2>3
  <2> QED
    BY <1>1, <2>1, <2>4 DEF Word, Current
<1> QED
  <2>1. \A i \in 1..(len + 1) : i \in 1..len \/ i = len + 1
    BY <1>1
  <2> QED
    BY <1>1, <1>2, <1>3, <1>5, <2>1

(* What WInv says of the request at the head of the queue, the last one.   *)
LEMMA HeadIsLast ==
    ASSUME TInv, OInv, WInv, ~hasFilter, ticks # <<>>
    PROVE  LET len == Len(received)
           IN  /\ len \in Nat /\ DOMAIN received = 1..len /\ len \in 1..len
               /\ Head(ticks).id = len /\ received[len] \in Request
               /\ Tail(ticks) = <<>>
               /\ Handled = len - 1
               /\ ~destroyed =>
                     /\ \A n \in 1..len : status[n] # "dropped"
                     /\ ~Unreachable(received[len].by)
                     /\ \A n \in 1..(len - 1) : Latest(n, len - 1) => Word(n)
<1>1. /\ Len(received) \in Nat /\ DOMAIN received = 1..Len(received)
  BY DEF TInv, TypeOK
<1>2. Head(ticks).id = Len(received) /\ Handled = Len(received) - 1
      /\ Tail(ticks) = <<>>
  BY DEF WInv, Handled, OInv
<1>3. Len(received) \in DOMAIN received /\ received[Len(received)] \in Request
  BY <1>2, HeadFacts
<1>4. ~destroyed =>
         /\ \A n \in 1..Len(received) : status[n] # "dropped"
         /\ received[Len(received)].by.socket \notin closed
         /\ \A n \in 1..(Len(received) - 1) :
               Latest(n, Len(received) - 1) => Word(n)
  BY <1>1, <1>2 DEF WInv
<1> QED
  BY <1>1, <1>2, <1>3, <1>4 DEF Unreachable

LEMMA WordClose ==
    ASSUME NoReconnect, TInv, OInv, GInv, WInv, NEW c \in Socket, CloseSocket(c)
    PROVE  WInv'
<1>1. /\ closed' = closed \cup {c} /\ ticks = <<>>
      /\ UNCHANGED <<hasFilter, received, status, filtering, ticks, destroyed>>
  BY CloseFacts
<1>2. Handled' = Handled /\ Handled = Len(received)
  BY <1>1 DEF Handled
<1>3. DOMAIN received = 1..Len(received) /\ received \in Seq(Request)
  BY DEF TInv, TypeOK
<1>4. ASSUME ~hasFilter, ~destroyed, NEW n \in 1..Len(received),
             Latest(n, Len(received))
      PROVE  Word(n)'
  <2> DEFINE r == received[n]
  <2>1. r \in Request /\ r.hash \in Hash
    BY <1>3, RequestType
  <2>2. \A f \in Hash : Late(f) = {}
    BY <1>4 DEF WInv, Late, CameLate
  <2>3. Word(n)
    BY <1>2, <1>4 DEF WInv
  <2>4. KeyOf(r.by) \in Current(r.hash)' <=>
            KeyOf(r.by) \in Current(r.hash) /\ r.by.socket # c
    <3> HIDE DEF r
    <3>1. \A h \in Hash : KeyOf(r.by) \in Current(h)' <=>
             KeyOf(r.by) \in Current(h) /\ r.by.socket # c
      BY <2>1, <2>2, ClosedWord
    <3>2. received'[n] = received[n]
      BY <1>1
    <3> QED
      BY <2>1, <3>1, <3>2 DEF r, Current
  <2> QED
    BY <1>1, <2>3, <2>4 DEF Word, Current
<1>5. \A n \in 1..Len(received) : Latest(n, Len(received))' <=> Latest(n, Len(received))
  BY <1>1 DEF Latest
<1> QED
  BY <1>1, <1>2, <1>4, <1>5 DEF WInv

LEMMA WordServes ==
    ASSUME TInv, OInv, WInv, Serves
    PROVE  WInv'
<1> DEFINE len == Len(received)
           r == received[Head(ticks).id]
<1>1. /\ ticks # <<>> /\ ticks' = <<>> /\ r.action = "announce"
      /\ UNCHANGED <<hasFilter, received, closed, destroyed, filtering>>
      /\ \E s, t : Served(s, t)
  BY ServedFacts DEF inputs
<1> SUFFICES ASSUME ~hasFilter
             PROVE  ~destroyed =>
                       /\ \A n \in DOMAIN received : status'[n] # "dropped"
                       /\ \A n \in 1..len : Latest(n, len)' => Word(n)'
  <2>1. Handled' = len
    BY <1>1 DEF Handled
  <2> QED
    BY <1>1, <2>1 DEF WInv
<1> SUFFICES ASSUME ~destroyed
             PROVE  /\ \A n \in DOMAIN received : status'[n] # "dropped"
                    /\ \A n \in 1..len : Latest(n, len)' => Word(n)'
  OBVIOUS
<1>2. /\ len \in Nat /\ DOMAIN received = 1..len /\ len \in 1..len
      /\ r = received[len] /\ r \in Request
      /\ \A n \in 1..len : status[n] # "dropped"
      /\ ~Unreachable(r.by)
      /\ \A n \in 1..(len - 1) : Latest(n, len - 1) => Word(n)
  BY <1>1, HeadIsLast
<1>3. \A n \in DOMAIN received : status'[n] # "dropped"
  <2>1. status' = [status EXCEPT ![Head(ticks).id] =
                     IF Unreachable(r.by) THEN "dropped" ELSE "ok"]
    BY <1>1 DEF Served
  <2>2. DOMAIN status = DOMAIN received
    BY DEF TInv, TypeOK
  <2> HIDE DEF len, r
  <2> QED
    BY <1>2, <2>1, <2>2
<1>4. ASSUME NEW n \in 1..len, Latest(n, len)' PROVE Word(n)'
  <2> DEFINE q == received[n]
             k == KeyOf(q.by)
  <2>1. q \in Request /\ q.hash \in Hash /\ k \in Key
    <3>1. q \in Request
      BY <1>2 DEF TInv, TypeOK
    <3> QED
      BY <3>1, RequestType
  <2>2. \A g \in Hash : k \in Current(g)' <=>
             IF g = r.hash /\ k = KeyOf(r.by) THEN r.event # "stopped" ELSE k \in Current(g)
    <3> HIDE DEF k, r
    <3> QED
      BY <2>1, ServedCurrent DEF r
  <2>3. Word(n)' <=> (k \in Current(q.hash)' <=>
                         q.event # "stopped" /\ q.by.socket \notin closed)
    BY <1>1 DEF Word, Current
  <2>6. Latest(n, len)
    BY <1>1, <1>4 DEF Latest
  <2> HIDE DEF len
  <2>4. CASE n = len
    <3>1. q = r /\ r.by.socket \notin closed
      BY <1>2, <2>4 DEF Unreachable
    <3>2. k \in Current(q.hash)' <=> r.event # "stopped"
      <4>1. q.hash = r.hash /\ k = KeyOf(r.by)
        BY <3>1
      <4> HIDE DEF k, r
      <4>2. \A g \in Hash : g = r.hash /\ k = KeyOf(r.by) =>
                              (k \in Current(g)' <=> r.event # "stopped")
        BY <2>2
      <4>3. received'[n] = received[n]
        BY <1>1
      <4> QED
        BY <2>1, <4>1, <4>2, <4>3 DEF Current
    <3>3. q.event = r.event /\ q.by.socket = r.by.socket
      BY <3>1
    <3> HIDE DEF q, r, k
    <3> QED
      BY <2>3, <3>1, <3>2, <3>3
  <2>5. CASE n # len
    <3>1. n \in 1..(len - 1) /\ len \in (n + 1)..len
          /\ \A i \in (n + 1)..(len - 1) : i \in (n + 1)..len
      BY <1>2, <2>5
    <3>3. Latest(n, len - 1) /\ ~(q.hash = r.hash /\ k = KeyOf(r.by))
      BY <1>1, <1>2, <2>6, <3>1 DEF Latest
    <3>4. Word(n)
      BY <1>2, <3>1, <3>3
    <3>5. k \in Current(q.hash)' <=> k \in Current(q.hash)
      <4> HIDE DEF k, r
      <4>1. \A g \in Hash : g # r.hash \/ k # KeyOf(r.by) =>
                              (k \in Current(g)' <=> k \in Current(g))
        BY <2>2
      <4>2. received'[n] = received[n]
        BY <1>1
      <4> QED
        BY <2>1, <3>3, <4>1, <4>2 DEF Current
    <3> QED
      BY <2>3, <3>4, <3>5 DEF Word
  <2> QED
    BY <2>4, <2>5
<1> QED
  BY <1>3, <1>4

LEMMA WordScrape ==
    ASSUME TInv, OInv, WInv, Scrape
    PROVE  WInv'
<1> DEFINE len == Len(received)
           r == received[Head(ticks).id]
<1>1. /\ ticks # <<>> /\ ticks' = Tail(ticks) /\ r.action = "scrape"
      /\ UNCHANGED <<hasFilter, received, closed, destroyed, filtering>>
      /\ UNCHANGED <<swarms, torrents, listing>>
      /\ status' = [status EXCEPT ![Head(ticks).id] =
                      IF Unreachable(r.by) THEN "dropped" ELSE "ok"]
  BY DEF Scrape, inputs, state
<1>2. ASSUME ~hasFilter
      PROVE  ticks' = <<>> /\ Handled' = len
  BY <1>1, <1>2, HeadIsLast DEF Handled
<1>3. ASSUME ~hasFilter, ~destroyed
      PROVE  /\ \A n \in DOMAIN received : status'[n] # "dropped"
             /\ \A n \in 1..len : Latest(n, len)' => Word(n)'
  <2>1. /\ len \in Nat /\ DOMAIN received = 1..len
        /\ Head(ticks).id = len
        /\ \A n \in 1..len : status[n] # "dropped"
        /\ ~Unreachable(r.by)
        /\ \A n \in 1..(len - 1) : Latest(n, len - 1) => Word(n)
    BY <1>1, <1>3, HeadIsLast
  <2>2. DOMAIN status = DOMAIN received
    BY DEF TInv, TypeOK
  <2>5. \A n \in 1..len : Latest(n, len)' => Latest(n, len)
    BY <1>1 DEF Latest
  <2>6. len' = len
    BY <1>1
  <2> HIDE DEF len
  <2>3. \A n \in DOMAIN received : status'[n] # "dropped"
    BY <1>1, <2>1, <2>2
  <2>4. ASSUME NEW n \in 1..len, Latest(n, len)' PROVE Word(n)'
    <3>1. Latest(n, len)
      BY <2>4, <2>5, <2>6
    <3>2. n # len
      BY <1>1, <2>1, <3>1 DEF Latest
    <3>3. n \in 1..(len - 1) /\ \A i \in (n + 1)..(len - 1) : i \in (n + 1)..len
      BY <2>1, <3>2
    <3>4. Latest(n, len - 1)
      BY <3>1, <3>3 DEF Latest
    <3>5. Word(n)
      BY <2>1, <3>3, <3>4
    <3> QED
      BY <1>1, <3>5 DEF Word, Current
  <2> QED
    BY <2>3, <2>4
<1> QED
  BY <1>1, <1>2, <1>3 DEF WInv

LEMMA WordStep ==
    /\ MaxBatch = 1 /\ NoReconnect
    /\ TInv /\ OInv /\ GInv /\ WInv /\ [Next]_vars
    => WInv'
<1> SUFFICES ASSUME MaxBatch = 1, NoReconnect, TInv, OInv, GInv, WInv, [Next]_vars
             PROVE  WInv'
  OBVIOUS
<1>1. CASE \E n \in 1..MaxBatch :
              \E batch \in [1..n -> Request], late \in SUBSET (1..n) : Receive(batch, late)
  <2>1. PICK n \in 1..MaxBatch :
              \E batch \in [1..n -> Request], late \in SUBSET (1..n) : Receive(batch, late)
    BY <1>1
  <2>2. PICK batch \in [1..n -> Request], late \in SUBSET (1..n) : Receive(batch, late)
    BY <2>1
  <2> QED
    BY <2>2, WordReceive
<1>2. CASE \E id \in filtering : FilterAllows(id) \/ FilterRejects(id)
  <2>1. hasFilter /\ hasFilter' = hasFilter
    BY <1>2 DEF WInv, FilterAllows, FilterRejects, inputs
  <2> QED
    BY <2>1 DEF WInv
<1>3. CASE \E s \in Socket : CloseSocket(s)
  BY <1>3, WordClose
<1>4. CASE UNCHANGED vars
  BY <1>4 DEF vars, inputs, state, WInv, Handled, Latest, Word, Current
<1>5. CASE Close
  BY <1>5 DEF Close, WInv
<1>6. CASE Serves
  BY <1>6, WordServes
<1>7. CASE GetSwarm /\ torrents[received[Head(ticks).id].hash] = 0
  <2> DEFINE id == Head(ticks).id
  <2>1. /\ ticks # <<>> /\ Tail(ticks) = <<>>
        /\ ticks' = Append(Tail(ticks), Tick("create", id))
        /\ UNCHANGED <<hasFilter, received, closed, swarms, torrents, status,
                       filtering, destroyed>>
    BY <1>7 DEF GetSwarm, inputs, OInv
  <2> HIDE DEF id
  <2>2. Head(ticks') = Tick("create", id) /\ ticks' # <<>>
    BY <2>1, AppendFirst
  <2>3. Head(ticks').id = id
    BY <2>2 DEF Tick
  <2>4. Handled' = Handled
    BY <2>1, <2>2 DEF Handled
  <2>5. \A n, m : (Latest(n, m)' <=> Latest(n, m)) /\ (Word(n)' <=> Word(n))
    BY <2>1 DEF Latest, Word, Current
  <2> QED
    BY <2>1, <2>2, <2>3, <2>4, <2>5 DEF WInv, id
<1>8. CASE Scrape
  BY <1>8, WordScrape
<1> QED
  BY <1>1, <1>2, <1>3, <1>4, <1>5, <1>6, <1>7, <1>8 DEF Next, Serves

(* The last announce of a peer decides whether it is in the swarm, if      *)
(* requests are handled one by one, no two peers share a socket and no     *)
(* peer comes back on another one: the close of the socket that it left    *)
(* behind would remove it.                                                 *)
THEOREM LastWordHolds ==
    ASSUME MaxBatch = 1, NoShared, NoReconnect PROVE Spec => []LastWord
<1>1. ASSUME TInv, WInv PROVE LastWord
  <2> SUFFICES ASSUME Quiet, ~hasFilter, ~destroyed, NEW n \in DOMAIN received,
                      received[n].action = "announce",
                      \A m \in DOMAIN received :
                         ~(/\ m > n
                           /\ received[m].action = "announce"
                           /\ received[m].hash = received[n].hash
                           /\ KeyOf(received[m].by) = KeyOf(received[n].by))
               PROVE  Word(n)
    BY DEF LastWord, Word
  <2>1. /\ Len(received) \in Nat /\ DOMAIN received = 1..Len(received)
    BY <1>1 DEF TInv, TypeOK
  <2>2. Handled = Len(received)
    BY DEF Quiet, Handled
  <2>3. \A m \in (n + 1)..Len(received) : m \in DOMAIN received /\ m > n
    BY <2>1
  <2>4. Latest(n, Handled)
    BY <2>2, <2>3 DEF Latest
  <2> QED
    BY <1>1, <2>1, <2>2, <2>4 DEF WInv
<1>2. TInv /\ OInv /\ GInv /\ WInv /\ [Next]_vars => (TInv /\ OInv /\ GInv /\ WInv)'
  BY TypeStep, OrphanStep, GhostStep, WordStep
<1>3. Init => TInv /\ OInv /\ GInv /\ WInv
  BY TypeInit, OrphanInit, GhostInit, WordInit
<1> QED
  BY <1>1, <1>2, <1>3, PTL DEF Spec
=============================================================================
