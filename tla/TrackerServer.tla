--------------------------- MODULE TrackerServer ---------------------------
(***************************************************************************)
(* The tracker server's request pipeline (server.js): a request waits for  *)
(* the operator's filter, then for getSwarm, then, if the torrent is new,  *)
(* for createSwarm, before the swarm handles it and the reply leaves.      *)
(*                                                                         *)
(* getSwarm and createSwarm call back through process.nextTick. Node runs  *)
(* the queued ticks in order, after the I/O callback that is running and   *)
(* before the next one. One I/O callback may carry several requests of one *)
(* connection: WebSocket frames, or pipelined HTTP requests, that arrive   *)
(* in one chunk. The filter calls back whenever it likes.                  *)
(*                                                                         *)
(* The swarms are those of SwarmOps. Entries do not grow old here, and the *)
(* swarms do not fill up: Swarm covers both. The peers that a reply names  *)
(* and the offers and answers of WebRTC are left out.                      *)
(***************************************************************************)
EXTENDS SwarmOps

CONSTANTS
    Hash,          \* info hashes
    Request,       \* the requests that peers send, a subset of Requests
    NoId,          \* a socket that has announced no peer id yet
    MaxBatch,      \* requests that one I/O callback may carry
    MaxRequests    \* bound: requests received in a behaviour

Requests == [by : Endpoints, action : {"announce"}, hash : Hash,
             event : Event, done : BOOLEAN]
            \cup [by : Endpoints, action : {"scrape"}, hash : Hash]

ASSUME PipelineAssumption ==
    /\ Request \subseteq Requests
    /\ MaxBatch \in Nat \ {0}
    /\ MaxRequests \in Nat
    /\ NoId \notin PeerId
    /\ Cardinality(Key) <= MaxPeers

(* Two ways to deploy the server that some theorems rest on. No two peers  *)
(* share a socket, which two WebSocket clients of one page do, and a       *)
(* WebSocket peer does not come back on another socket.                    *)
OverWs(r, id, s) == r.by.type = "ws" /\ r.by.peer_id = id /\ r.by.socket = s
NoShared ==
    \A q, r \in Request, i, j \in PeerId, s \in Socket :
        OverWs(q, i, s) /\ OverWs(r, j, s) => i = j
NoReconnect ==
    \A q, r \in Request, i \in PeerId, s, t \in Socket :
        OverWs(q, i, s) /\ OverWs(r, i, t) => s = t

VARIABLES
    hasFilter,   \* whether opts.filter is given; never changes
    received,    \* the requests, in the order in which they arrived
    status,      \* what became of each of them
    filtering,   \* the requests whose filter callback is outstanding
    ticks,       \* the nextTick queue
    swarms,      \* every Swarm object ever created; `listed` is not used
    torrents,    \* the object registered for an info hash, 0 if there is none
    listing,     \* the open sockets whose `infoHashes` holds an info hash
    owner,       \* socket.peerId
    closed,      \* sockets that are closed
    destroyed    \* whether close() was called

inputs == <<hasFilter, received, owner, closed, destroyed>>
state == <<swarms, torrents, listing>>
vars == <<inputs, state, status, filtering, ticks>>

Tick(step, id) == [step |-> step, id |-> id]

Init ==
    /\ hasFilter \in BOOLEAN
    /\ received = <<>> /\ status = <<>>
    /\ filtering = {} /\ ticks = <<>>
    /\ swarms = <<>>
    /\ torrents = [h \in Hash |-> 0]
    /\ listing = [h \in Hash |-> {}]
    /\ owner = [s \in Socket |-> NoId]
    /\ closed = {}
    /\ destroyed = FALSE

(* Swarm object o, which serves h, as SwarmOps sees it, and back.          *)
Load(objects, o, h) == [objects[o] EXCEPT !.listed = listing[h]]
Store(s) == [s EXCEPT !.listed = {}]

(* Requests that may share an I/O callback come over one connection.       *)
SameConnection(p, q) ==
    IF p.type = "ws" THEN p.socket = q.socket ELSE p = q /\ p.type = "http"

(* WebSocket and UDP peers are not answered once close() was called, nor   *)
(* are those whose socket is closed.                                       *)
Unreachable(p) ==
    \/ p.type # "http" /\ destroyed
    \/ p.socket \in closed

-----------------------------------------------------------------------------
(***************************************************************************)
(* I/O callbacks. None runs before the queued ticks have.                  *)
(***************************************************************************)

(* The one enumeration of a set of indices in increasing order.            *)
Ascending(S) ==
    {q \in [1..Cardinality(S) -> S] : \A i, j \in DOMAIN q : i < j => q[i] < q[j]}

(***************************************************************************)
(* A batch of requests. A WebSocket takes the peer id of its first         *)
(* announce for its own. Announces go to the filter, if there is one, and  *)
(* those in `late` wait for it; it has allowed the others at once, and     *)
(* they ask for their swarm, as scrapes do.                                *)
(***************************************************************************)
Receive(batch, late) ==
    LET first == Len(received)
        by == batch[1].by
        announces == {n \in DOMAIN batch : batch[n].action = "announce"}
    IN  /\ ticks = <<>>
        /\ late \subseteq announces
        /\ late # {} => hasFilter
        /\ first + Len(batch) <= MaxRequests
        /\ by.socket \notin closed
        /\ destroyed => by.type # "udp"
        /\ \A n \in DOMAIN batch : n > 1 => SameConnection(by, batch[n].by)
        /\ received' = received \o batch
        /\ status' = status \o [n \in DOMAIN batch |-> "pending"]
        /\ filtering' = filtering \cup {first + n : n \in late}
        /\ \E q \in Ascending(DOMAIN batch \ late) :
              ticks' = [n \in DOMAIN q |-> Tick("get", first + q[n])]
        /\ IF by.type = "ws" /\ owner[by.socket] = NoId /\ announces # {}
           THEN \E n \in announces :
                   /\ \A m \in announces : n <= m
                   /\ owner' = [owner EXCEPT ![by.socket] = batch[n].by.peer_id]
           ELSE owner' = owner
        /\ UNCHANGED <<hasFilter, state, closed, destroyed>>

FilterAllows(id) ==
    /\ ticks = <<>>
    /\ id \in filtering
    /\ filtering' = filtering \ {id}
    /\ ticks' = <<Tick("get", id)>>
    /\ UNCHANGED <<inputs, state, status>>

FilterRejects(id) ==
    /\ ticks = <<>>
    /\ id \in filtering
    /\ filtering' = filtering \ {id}
    /\ status' = [status EXCEPT ![id] =
                    IF Unreachable(received[id].by) THEN "dropped" ELSE "rejected"]
    /\ UNCHANGED <<inputs, state, ticks>>

(* Mutant of CloseSocket: only one of the socket's swarms is left.         *)
CloseLeavesOne(s) ==
    LET named == {h \in Hash : s \in listing[h] /\ torrents[h] # 0}
        one == CHOOSE h \in named : TRUE
        left == Leave(Load(swarms, torrents[one], one), owner[s])
    IN  /\ ticks = <<>>
        /\ s \notin closed
        /\ closed' = closed \cup {s}
        /\ swarms' = IF named = {} THEN swarms
                     ELSE [swarms EXCEPT ![torrents[one]] = Store(left)]
        /\ listing' = [h \in Hash |-> listing[h] \ {s}]
        /\ owner' = [owner EXCEPT ![s] = NoId]
        /\ UNCHANGED <<hasFilter, received, status, filtering, ticks, torrents, destroyed>>

(* _onWebSocketClose: the peer id of the socket is stopped in every swarm  *)
(* that the socket's infoHashes names.                                     *)
CloseSocket(s) ==
    LET named == {h \in Hash : s \in listing[h] /\ torrents[h] # 0
                                 /\ owner[s] # NoId}
        Left(h) == Leave(Load(swarms, torrents[h], h), owner[s])
    IN  /\ ticks = <<>>
        /\ s \notin closed
        /\ closed' = closed \cup {s}
        /\ swarms' = [o \in DOMAIN swarms |->
                        IF \E h \in named : torrents[h] = o
                        THEN Store(Left(CHOOSE h \in named : torrents[h] = o))
                        ELSE swarms[o]]
        /\ listing' = [h \in Hash |->
                         (IF h \in named THEN Left(h).listed ELSE listing[h]) \ {s}]
        /\ owner' = [owner EXCEPT ![s] = NoId]
        /\ UNCHANGED <<hasFilter, received, status, filtering, ticks, torrents, destroyed>>

Close ==
    /\ ticks = <<>>
    /\ ~destroyed
    /\ destroyed' = TRUE
    /\ UNCHANGED <<hasFilter, received, owner, closed, state, status, filtering, ticks>>

-----------------------------------------------------------------------------
(***************************************************************************)
(* Ticks.                                                                  *)
(***************************************************************************)

(* Mutant of AnnounceTo: the reply does not make the socket name the swarm.*)
AnnounceUnlisted(objects, o, id) ==
    LET r == received[id]
        s == Announce(Load(objects, o, r.hash), r.by, r.event, r.done)
    IN  /\ swarms' = [objects EXCEPT ![o] = Store(s)]
        /\ listing' = [listing EXCEPT ![r.hash] = s.listed]
        /\ status' = [status EXCEPT ![id] = IF Unreachable(r.by) THEN "dropped" ELSE "ok"]

(* Mutant of AnnounceTo: the reply is sent without looking at the socket.  *)
AnnounceUnguarded(objects, o, id) ==
    LET r == received[id]
        s == Announce(Load(objects, o, r.hash), r.by, r.event, r.done)
    IN  /\ swarms' = [objects EXCEPT ![o] = Store(s)]
        /\ listing' = [listing EXCEPT ![r.hash] =
                         IF r.by.type = "ws" THEN s.listed \cup {r.by.socket} ELSE s.listed]
        /\ status' = [status EXCEPT ![id] = "ok"]

(***************************************************************************)
(* Swarm object o of objects handles announce id and the reply leaves. It  *)
(* makes the socket of a WebSocket peer name the swarm, whatever the event *)
(* was, unless the socket is closed or the server is.                      *)
(***************************************************************************)
AnnounceTo(objects, o, id) ==
    LET r == received[id]
        s == Announce(Load(objects, o, r.hash), r.by, r.event, r.done)
        dropped == Unreachable(r.by)
    IN  /\ swarms' = [objects EXCEPT ![o] = Store(s)]
        /\ listing' = [listing EXCEPT ![r.hash] =
                         IF r.by.type = "ws" /\ ~dropped
                         THEN s.listed \cup {r.by.socket} ELSE s.listed]
        /\ status' = [status EXCEPT ![id] = IF dropped THEN "dropped" ELSE "ok"]

(* Mutant of GetSwarm: a swarm is created without asking for one first.    *)
GetSwarmBlindly ==
    /\ ticks # <<>>
    /\ Head(ticks).step = "get"
    /\ received[Head(ticks).id].action = "announce"
    /\ ticks' = Append(Tail(ticks), Tick("create", Head(ticks).id))
    /\ UNCHANGED <<inputs, state, status, filtering>>

(* getSwarm calls back for an announce.                                    *)
GetSwarm ==
    /\ ticks # <<>>
    /\ Head(ticks).step = "get"
    /\ LET id == Head(ticks).id
           o == torrents[received[id].hash]
       IN  /\ received[id].action = "announce"
           /\ \/ /\ o = 0
                 /\ ticks' = Append(Tail(ticks), Tick("create", id))
                 /\ UNCHANGED <<status, swarms, listing>>
              \/ /\ o # 0
                 /\ AnnounceTo(swarms, o, id)
                 /\ ticks' = Tail(ticks)
    /\ UNCHANGED <<inputs, torrents, filtering>>

(* Mutant of CreateSwarm: it does not call back.                           *)
CreateSwarmSilently ==
    /\ ticks # <<>>
    /\ Head(ticks).step = "create"
    /\ swarms' = Append(swarms, NewSwarm)
    /\ torrents' = [torrents EXCEPT ![received[Head(ticks).id].hash] = Len(swarms')]
    /\ ticks' = Tail(ticks)
    /\ UNCHANGED <<inputs, status, listing, filtering>>

(* createSwarm registers a new object and calls back.                      *)
CreateSwarm ==
    /\ ticks # <<>>
    /\ Head(ticks).step = "create"
    /\ LET id == Head(ticks).id
           objects == Append(swarms, NewSwarm)
       IN  /\ torrents' = [torrents EXCEPT ![received[id].hash] = Len(objects)]
           /\ AnnounceTo(objects, Len(objects), id)
    /\ ticks' = Tail(ticks)
    /\ UNCHANGED <<inputs, filtering>>

(* getSwarm calls back for a scrape. It creates no swarm.                  *)
Scrape ==
    /\ ticks # <<>>
    /\ LET id == Head(ticks).id
       IN  /\ received[id].action = "scrape"
           /\ status' = [status EXCEPT ![id] =
                           IF Unreachable(received[id].by) THEN "dropped" ELSE "ok"]
    /\ ticks' = Tail(ticks)
    /\ UNCHANGED <<inputs, state, filtering>>

Next ==
    \/ \E n \in 1..MaxBatch : \E batch \in [1..n -> Request], late \in SUBSET (1..n) :
          Receive(batch, late)
    \/ \E id \in filtering : FilterAllows(id) \/ FilterRejects(id)
    \/ \E s \in Socket : CloseSocket(s)
    \/ Close
    \/ GetSwarm \/ CreateSwarm \/ Scrape

(* Node runs its ticks. The filter must call back: nothing else in the     *)
(* server gives up on a request.                                           *)
Fairness ==
    /\ WF_vars(GetSwarm \/ CreateSwarm \/ Scrape)
    /\ \A id \in 1..MaxRequests : WF_vars(FilterAllows(id) \/ FilterRejects(id))

Spec == Init /\ [][Next]_vars /\ Fairness

-----------------------------------------------------------------------------
(***************************************************************************)
(* Invariants.                                                             *)
(***************************************************************************)

Quiet == ticks = <<>> /\ filtering = {}

(* The members of the swarm that is registered for h.                      *)
Current(h) == IF torrents[h] = 0 THEN {} ELSE Members(swarms[torrents[h]])

(* The types of the variables.                                             *)
TypeOK ==
    /\ hasFilter \in BOOLEAN
    /\ received \in Seq(Request)
    /\ Len(received) <= MaxRequests
    /\ status \in [DOMAIN received -> {"pending", "ok", "rejected", "dropped"}]
    /\ filtering \subseteq DOMAIN received
    /\ ticks \in Seq([step : {"get", "create"}, id : DOMAIN received])
    /\ torrents \in [Hash -> 0..Len(swarms)]
    /\ listing \in [Hash -> SUBSET (Socket \ closed)]
    /\ owner \in [Socket -> PeerId \cup {NoId}]
    /\ closed \subseteq Socket
    /\ destroyed \in BOOLEAN

(* getOrCreateSwarm finds the existing swarm: no object with members in it *)
(* is ever replaced by another one as its torrent's swarm. False of the    *)
(* code if two announces for a new torrent share an I/O callback.          *)
NoOrphan ==
    \A o \in DOMAIN swarms :
        Members(swarms[o]) # {} => \E h \in Hash : torrents[h] = o

(* No two announces for a torrent that has no swarm yet are queued         *)
(* together. Those for different torrents, and those for a torrent that    *)
(* has its swarm, may share an I/O callback, as may scrapes.               *)
Alone ==
    \A j, k \in DOMAIN ticks :
        LET q == received[ticks[j].id]
            r == received[ticks[k].id]
        IN  /\ q.action = "announce" /\ r.action = "announce"
            /\ q.hash = r.hash /\ torrents[r.hash] = 0
            => j = k

(* Without a filter, while the server is up and nothing is in flight, the  *)
(* last announce of a peer decides: it is a member of the torrent's swarm  *)
(* unless that announce said `stopped` or its socket has closed since.     *)
(* Without NoReconnect the close of an old socket takes the peer out, too. *)
LastWord ==
    Quiet /\ ~hasFilter /\ ~destroyed =>
        \A n \in DOMAIN received :
            LET r == received[n]
                Later(m) == /\ m > n
                            /\ received[m].action = "announce"
                            /\ received[m].hash = r.hash
                            /\ KeyOf(received[m].by) = KeyOf(r.by)
            IN  r.action = "announce" /\ (\A m \in DOMAIN received : ~Later(m)) =>
                    (KeyOf(r.by) \in Current(r.hash) <=>
                        r.event # "stopped" /\ r.by.socket \notin closed)

(* A peer whose socket has closed is in the torrent's swarm only if an     *)
(* announce of its for that torrent got past the filter after the close,   *)
(* too late to be answered. Without NoShared the close takes out one of    *)
(* the socket's peers only.                                                *)
CameLate(k, h) ==
    \E n \in DOMAIN received :
        /\ status[n] = "dropped"
        /\ received[n].action = "announce" /\ received[n].event # "stopped"
        /\ KeyOf(received[n].by) = k /\ received[n].hash = h
GhostsCameLate ==
    \A h \in Hash : \A k \in Current(h) :
        swarms[torrents[h]].cache[k].socket \in closed => CameLate(k, h)

-----------------------------------------------------------------------------
(***************************************************************************)
(* Action and liveness properties.                                         *)
(***************************************************************************)

(* Nothing but such a meeting makes an orphan: however many requests an    *)
(* I/O callback carries, whatever is created between getSwarm and          *)
(* createSwarm and however late the filter is.                             *)
OrphansTakeTwo == []Alone => []NoOrphan

(* Every request is settled in the end: answered, or dropped because the   *)
(* peer or the server is gone.                                             *)
AllSettled ==
    \A n \in 1..MaxRequests :
        (n \in DOMAIN received) ~> (n \in DOMAIN received /\ status[n] # "pending")
=============================================================================
