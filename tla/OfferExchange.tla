--------------------------- MODULE OfferExchange ---------------------------
(***************************************************************************)
(* How two browsers meet: the peers that a WebSocket tracker client        *)
(* creates for its offers (lib/client/websocket-tracker.js), the server    *)
(* that hands each offer to another member of the swarm and carries the    *)
(* answer back (server.js), and the sockets between them.                  *)
(*                                                                         *)
(* There is one torrent. Clients of one page share its socket (the socket  *)
(* pool, see WebSocketTracker) and all hear what comes down it. A socket   *)
(* is reliable and ordered until it breaks; the two ends notice that       *)
(* independently. What a client sends is handled by the server at once, or *)
(* lost: the handlers touch the server's state only, so a message that is  *)
(* under way is like one that is sent later. What the server sends waits   *)
(* in down, because a page changes before it arrives. Left out: how a      *)
(* socket connects, replies to announces (they change nothing here),       *)
(* seeding, and eviction from the swarm's cache (see Swarm). WebRTC peers  *)
(* are external: one may fail, or be ready to signal, at any time until it *)
(* is destroyed, or never.                                                 *)
(*                                                                         *)
(* Listeners of 'peer' run inside the handler of an answer, which holds    *)
(* the peer until they return, and may call the clients. Meanwhile nothing *)
(* else happens on their page.                                             *)
(***************************************************************************)
EXTENDS Integers, FiniteSets, Sequences, FiniteSetsExt, Functions

CONSTANTS
    Client,     \* tracker clients, named by their peer ids
    Page,       \* pages, each with a socket pool
    PageOf,     \* the page a client runs on
    Socket,     \* bound: connections in a behaviour
    NumWant,    \* offers in an announce (the code's limit is 5)
    MaxOffers,  \* bound: offers in a behaviour; the last announce may have fewer
    MaxCalls,   \* bound: announces (a reconnect's, too), stops and destroys
    MaxBreaks,  \* bound: connections that break by themselves
    None

ASSUME PageAssumption == PageOf \in [Client -> Page] /\ IsFiniteSet(Client)
ASSUME SocketAssumption == \E f \in [Page -> Socket] : IsInjective(f)
ASSUME NoneAssumption == None \notin Client \cup Socket
ASSUME BoundAssumption == MaxOffers \in Nat /\ NumWant \in Nat

Offer == 1 .. MaxOffers     \* offer ids, which are random in the code

VARIABLES
    said,       \* the last call of a client's user: "join" or "stop"
    tracker,    \* "up", "away" (waits to reconnect) or "destroyed"
    peers,      \* tracker.peers: the offers whose peers a tracker holds
    timers,     \* the offers whose trackerTimeout is armed
    phase,      \* of an offer's peer: "free", "waiting" (for its answer),
                \* "failed", "dead" (destroyed), "met" (emitted as 'peer'),
                \* "corpse" (emitted although it had failed)
    maker,      \* the client that made an offer
    batch,      \* the offers of the announce that an offer belongs to
    signalled,  \* the offers that are ready to be sent
    partner,    \* the client whose answer an offer's peer was given
    emitting,   \* offers whose peers are being emitted
    answering,  \* peers created for the offers of others: [by, to, offer]
    line,       \* the socket in a page's pool
    broken,     \* sockets that carry nothing any more
    down,       \* messages under way to a page
    open,       \* sockets whose 'close' the server has not seen
    owner,      \* socket.peerId: who announced first over a socket
    named,      \* sockets whose infoHashes holds the torrent
    entry,      \* the swarm: the socket in a member's entry
    calls, breaks

offerVars == <<peers, timers, phase, maker, batch, signalled, partner,
              emitting>>
swarmVars == <<entry, named, owner>>
vars == <<said, tracker, offerVars, answering, line, broken, down, open, swarmVars,
          calls, breaks>>

Made == {o \in Offer : phase[o] # "free"}
Members == {c \in Client : entry[c] # None}
LineOf(c) == line[PageOf[c]]
NoHandler(p) == \A o \in emitting : PageOf[maker[o]] # p
Users(p) == {c \in Client : PageOf[c] = p /\ tracker[c] = "up"}

(* Every page has opened its socket and every client has announced itself  *)
(* over it.                                                                *)
Init ==
    /\ said = [c \in Client |-> "join"]
    /\ tracker = [c \in Client |-> "up"]
    /\ peers = [c \in Client |-> {}]
    /\ timers = {}
    /\ phase = [o \in Offer |-> "free"]
    /\ maker = [o \in Offer |-> None]
    /\ batch = [o \in Offer |-> {}]
    /\ signalled = {}
    /\ partner = [o \in Offer |-> None]
    /\ emitting = {}
    /\ answering = {}
    /\ line = CHOOSE f \in [Page -> Socket] : IsInjective(f)
    /\ broken = {}
    /\ down = [s \in Socket |-> <<>>]
    /\ open = Range(line)
    /\ owner \in [Socket -> Client \cup {None}]
    /\ \A s \in Socket : IF s \in open THEN owner[s] # None /\ LineOf(owner[s]) = s
                                       ELSE owner[s] = None
    /\ named = open
    /\ entry = [c \in Client |-> LineOf(c)]
    /\ calls = 0
    /\ breaks = 0

-----------------------------------------------------------------------------
(* What the server does with a message of client c over socket s:          *)
(* _onWebSocketRequest. Over a broken socket nothing arrives.              *)

Carries(s) == s \in Socket \ broken

(* The first client to announce over a socket becomes its peerId.          *)
Introduce(c, s) == owner' = [owner EXCEPT ![s] = IF @ = None THEN c ELSE @]

(* Every announce but a stop, and every answer, makes its sender a member; *)
(* a member keeps the socket of its entry.                                 *)
JoinSwarm(c, s) ==
    /\ entry' = [entry EXCEPT ![c] = IF @ = None THEN s ELSE @]
    /\ named' = named \cup {s}
    /\ Introduce(c, s)

(* The members of a finite set of numbers, the smallest first.             *)
Sorted(S) == [k \in 1 .. Cardinality(S) |->
                 CHOOSE i \in S : Cardinality({j \in S : j <= i}) = k]

(* Mutant of Forward: a member may be picked twice.                        *)
ForwardRepeating(c, offers) ==
    LET others == Members \ {c}
        n == Min({Cardinality(others), Cardinality(offers)})
        Invite(i) == [kind |-> "offer", from |-> c, offer |-> Sorted(offers)[i]] IN
    \E picked \in [1 .. n -> others] :
        down' = [s \in Socket |->
            LET mine == Sorted({i \in 1 .. n : entry[picked[i]] = s}) IN
            IF Carries(s) THEN down[s] \o [j \in DOMAIN mine |-> Invite(mine[j])] ELSE down[s]]

(* The offers of an announce go to as many other members, picked at random.*)
Forward(c, offers) ==
    LET others == Members \ {c}
        n == Min({Cardinality(others), Cardinality(offers)})
        Invite(i) == [kind |-> "offer", from |-> c, offer |-> Sorted(offers)[i]] IN
    \E picked \in {q \in [1 .. n -> others] : IsInjective(q)} :
        down' = [s \in Socket |->
            LET mine == Sorted({i \in 1 .. n : entry[picked[i]] = s}) IN
            IF Carries(s) THEN down[s] \o [j \in DOMAIN mine |-> Invite(mine[j])] ELSE down[s]]

SendAnnounce(c, s, offers) ==
    IF Carries(s) THEN JoinSwarm(c, s) /\ Forward(c, offers)
                  ELSE UNCHANGED <<swarmVars, down>>

(* A stop removes the entry and takes the torrent out of the infoHashes of *)
(* the entry's socket; the reply puts it into those of the sender's.       *)
SendStop(c, s) ==
    IF Carries(s) THEN /\ entry' = [entry EXCEPT ![c] = None]
                       /\ named' = (named \ {entry[c]}) \cup {s}
                       /\ Introduce(c, s)
                  ELSE UNCHANGED swarmVars

(* An answer is relayed to the member it is for, or dropped with a warning.*)
RelayAnswer(c, s, to, o) ==
    IF Carries(s)
    THEN /\ JoinSwarm(c, s)
         /\ LET t == entry'[to] IN
            down' = IF Carries(t)
                    THEN [down EXCEPT ![t] = Append(@, [kind |-> "answer", from |-> c, offer |-> o])]
                    ELSE down
    ELSE UNCHANGED <<swarmVars, down>>

(* _onWebSocketClose: the peer that announced first over the socket stops  *)
(* in the swarms that the socket names.                                    *)
ServerCloses(s) ==
    /\ s \in open \cap broken
    /\ open' = open \ {s}
    /\ owner' = [owner EXCEPT ![s] = None]
    /\ IF owner[s] # None /\ s \in named
       THEN /\ entry' = [entry EXCEPT ![owner[s]] = None]
            /\ named' = named \ {s, entry[owner[s]]}
       ELSE /\ named' = named \ {s}
            /\ UNCHANGED entry
    /\ UNCHANGED <<said, tracker, offerVars, answering, line, broken, down, calls, breaks>>

-----------------------------------------------------------------------------
(* Tracker clients                                                         *)

(* announce() with an event other than 'stopped' generates its offers      *)
(* first, each with a peer and a timeout. With none, as always for         *)
(* 'completed', it sends the message at once over s.                       *)
Announce(c, s, n) ==
    LET made == Cardinality(Made)
        offers == (made + 1) .. Min({made + n, MaxOffers}) IN
    /\ calls < MaxCalls
    /\ calls' = calls + 1
    /\ peers' = [peers EXCEPT ![c] = @ \cup offers]
    /\ timers' = timers \cup offers
    /\ phase' = [o \in Offer |-> IF o \in offers THEN "waiting" ELSE phase[o]]
    /\ maker' = [o \in Offer |-> IF o \in offers THEN c ELSE maker[o]]
    /\ batch' = [o \in Offer |-> IF o \in offers THEN offers ELSE batch[o]]
    /\ IF offers = {} THEN SendAnnounce(c, s, {}) ELSE UNCHANGED <<swarmVars, down>>
    /\ UNCHANGED <<signalled, partner, emitting, answering>>

(* client.start(), update() or complete(), or the interval timer, which    *)
(* start() arms and only destroy() clears.                                 *)
Update(c) ==
    /\ tracker[c] = "up"
    /\ said' \in {said, [said EXCEPT ![c] = "join"]}
    /\ \E n \in {0, NumWant} : Announce(c, LineOf(c), n)
    /\ UNCHANGED <<tracker, line, broken, open, breaks>>

(* client.stop(): sent at once, whatever offers are being generated. A     *)
(* tracker that waits to reconnect ignores the call.                       *)
Stop(c) ==
    /\ said[c] = "join"
    /\ calls < MaxCalls
    /\ calls' = calls + 1
    /\ said' = [said EXCEPT ![c] = "stop"]
    /\ IF tracker[c] = "up" THEN SendStop(c, LineOf(c)) ELSE UNCHANGED swarmVars
    /\ UNCHANGED <<tracker, offerVars, answering, line, broken, down, open, breaks>>

(* 'signal' of an offer's peer. The last one of a batch sends it; if a     *)
(* peer of the batch was destroyed before it signalled, nothing is sent.   *)
Signal(o) ==
    /\ NoHandler(PageOf[maker[o]])
    /\ phase[o] = "waiting"
    /\ o \notin signalled
    /\ signalled' = signalled \cup {o}
    /\ IF batch[o] \subseteq signalled'
       THEN SendAnnounce(maker[o], LineOf(maker[o]), batch[o])
       ELSE UNCHANGED <<swarmVars, down>>
    /\ UNCHANGED <<said, tracker, peers, timers, phase, maker, batch, partner, emitting,
                   answering, line, broken, open, calls, breaks>>

(* 'error' of an offer's peer: a warning, and the peer is destroyed; the   *)
(* tracker keeps it in peers until its timeout.                            *)
PeerFails(o) ==
    /\ NoHandler(PageOf[maker[o]])
    /\ phase[o] = "waiting"
    /\ phase' = [phase EXCEPT ![o] = "failed"]
    /\ UNCHANGED <<said, tracker, peers, timers, maker, batch, signalled, partner, emitting,
                   answering, line, broken, down, open, swarmVars, calls, breaks>>

(* OFFER_TIMEOUT                                                           *)
OfferTimeout(o) ==
    /\ NoHandler(PageOf[maker[o]])
    /\ o \in timers
    /\ timers' = timers \ {o}
    /\ peers' = [peers EXCEPT ![maker[o]] = @ \ {o}]
    /\ phase' = [phase EXCEPT ![o] = "dead"]
    /\ UNCHANGED <<said, tracker, maker, batch, signalled, partner, emitting, answering, line,
                   broken, down, open, swarmVars, calls, breaks>>

(* 'signal' of a peer created for an offer: the answer is sent, unless the *)
(* tracker is destroyed or waits to reconnect.                             *)
SendAnswer(a) ==
    /\ NoHandler(PageOf[a.by])
    /\ a \in answering
    /\ answering' = answering \ {a}
    /\ IF tracker[a.by] = "up"
       THEN RelayAnswer(a.by, LineOf(a.by), a.to, a.offer)
       ELSE UNCHANGED <<swarmVars, down>>
    /\ UNCHANGED <<said, tracker, offerVars, line, broken, open, calls, breaks>>

(* _onAnnounceResponse with an offer: every client on the page but the one *)
(* that made it creates a peer.                                            *)
OnOffer(m, hearers) ==
    /\ answering' = answering \cup
            {[by |-> c, to |-> m.from, offer |-> m.offer] : c \in hearers \ {m.from}}
    /\ UNCHANGED offerVars

(* _onAnnounceResponse with an answer: the tracker that holds the offer's  *)
(* peer emits it, even if it has failed; any other ignores the unexpected  *)
(* answer.                                                                 *)
OnAnswer(m, hearers) ==
    /\ IF \E c \in hearers \ {m.from} : m.offer \in peers[c]
       THEN /\ phase' = [phase EXCEPT ![m.offer] = IF @ = "waiting" THEN "met" ELSE "corpse"]
            /\ partner' = [partner EXCEPT ![m.offer] = m.from]
            /\ emitting' = {m.offer} \cup emitting
       ELSE UNCHANGED <<phase, partner, emitting>>
    /\ UNCHANGED <<answering, timers, peers, maker, batch, signalled>>

(* Mutant of Release: the tracker does not let go of the peer.             *)
ReleaseKeeping(o) ==
    /\ o \in emitting
    /\ emitting' = emitting \ {o}
    /\ UNCHANGED <<said, tracker, phase, maker, batch, signalled, partner, answering, line,
                   broken, down, open, swarmVars, calls, breaks, timers, peers>>

(* The listeners return, and the handler stops the timeout and lets go of  *)
(* the peer, unless signal() of a peer that has failed throws (external).  *)
(* If a listener called destroy(), there is nothing left to do.            *)
Release(o) ==
    /\ o \in emitting
    /\ emitting' = emitting \ {o}
    /\ \/ /\ timers' = timers \ {o}
          /\ peers' = [c \in Client |-> peers[c] \ {o}]
       \/ phase[o] = "corpse" /\ UNCHANGED <<timers, peers>>
    /\ UNCHANGED <<said, tracker, phase, maker, batch, signalled, partner, answering, line,
                   broken, down, open, swarmVars, calls, breaks>>

Receive(p) ==
    /\ NoHandler(p)
    /\ line[p] # None
    /\ down[line[p]] # <<>>
    /\ LET m == Head(down[line[p]]) IN
       IF m.kind = "offer" THEN OnOffer(m, Users(p)) ELSE OnAnswer(m, Users(p))
    /\ down' = [down EXCEPT ![line[p]] = Tail(@)]
    /\ UNCHANGED <<said, tracker, line, broken, open, swarmVars, calls, breaks>>

(* Mutant of DestroyPeers: the peers are forgotten and not destroyed.      *)
ForgetPeers(cs) ==
    LET gone == UNION {peers[c] : c \in cs} IN
    /\ timers' = timers \ gone
    /\ peers' = [c \in Client |-> IF c \in cs THEN {} ELSE peers[c]]
    /\ UNCHANGED <<phase, maker, batch, signalled, partner, emitting>>

(* destroy() of the tracker, as far as its peers go.                       *)
DestroyPeers(cs) ==
    LET gone == UNION {peers[c] : c \in cs} IN
    /\ phase' = [o \in Offer |-> IF o \in gone THEN "dead" ELSE phase[o]]
    /\ timers' = timers \ gone
    /\ peers' = [c \in Client |-> IF c \in cs THEN {} ELSE peers[c]]
    /\ UNCHANGED <<maker, batch, signalled, partner, emitting>>

(* The client is destroyed; the last user of the socket takes it along.    *)
Destroy(c) ==
    /\ tracker[c] = "up"
    /\ calls < MaxCalls
    /\ calls' = calls + 1
    /\ DestroyPeers({c})
    /\ tracker' = [tracker EXCEPT ![c] = "destroyed"]
    /\ IF Users(PageOf[c]) = {c}
       THEN /\ line' = [line EXCEPT ![PageOf[c]] = None]
            /\ broken' = broken \cup {LineOf(c)}
            /\ down' = [down EXCEPT ![LineOf(c)] = <<>>]
       ELSE UNCHANGED <<line, broken, down>>
    /\ UNCHANGED <<said, answering, open, swarmVars, breaks>>

(* The network drops a connection.                                         *)
Breaks(s) ==
    /\ s \in open \ broken
    /\ breaks < MaxBreaks
    /\ breaks' = breaks + 1
    /\ broken' = broken \cup {s}
    /\ UNCHANGED <<said, tracker, offerVars, answering, line, down, open, swarmVars, calls>>

(* 'close' or 'error' of the page's socket: each tracker destroys its      *)
(* peers and waits to reconnect.                                           *)
SocketCloses(p) ==
    /\ NoHandler(p)
    /\ line[p] \in broken
    /\ DestroyPeers(Users(p))
    /\ tracker' = [c \in Client |-> IF c \in Users(p) THEN "away" ELSE tracker[c]]
    /\ line' = [line EXCEPT ![p] = None]
    /\ down' = [down EXCEPT ![line[p]] = <<>>]
    /\ UNCHANGED <<said, answering, broken, open, swarmVars, calls, breaks>>

(* _openSocket: the first client of a page opens a socket, the others join *)
(* it. The tracker then announces itself.                                  *)
Connect(c) ==
    LET p == PageOf[c]
        fresh == Socket \ (open \cup broken)
        s == IF line[p] # None THEN line[p] ELSE CHOOSE x \in fresh : TRUE IN
    /\ NoHandler(p)
    /\ tracker[c] = "away"
    /\ line[p] # None \/ fresh # {}
    /\ tracker' = [tracker EXCEPT ![c] = "up"]
    /\ line' = [line EXCEPT ![p] = s]
    /\ open' = open \cup (fresh \cap {s})
    /\ Announce(c, s, NumWant)
    /\ UNCHANGED <<said, broken, breaks>>

-----------------------------------------------------------------------------
Next ==
    \/ \E c \in Client : Update(c) \/ Stop(c) \/ Destroy(c) \/ Connect(c)
    \/ \E o \in Offer : Signal(o) \/ PeerFails(o) \/ OfferTimeout(o) \/ Release(o)
    \/ \E a \in answering : SendAnswer(a)
    \/ \E p \in Page : Receive(p) \/ SocketCloses(p)
    \/ \E s \in Socket : ServerCloses(s) \/ Breaks(s)

(* Listeners return, and timers fire.                                      *)
OfferFairness == \A o \in Offer : WF_vars(Release(o)) /\ WF_vars(OfferTimeout(o))

Spec == Init /\ [][Next]_vars /\ OfferFairness

-----------------------------------------------------------------------------
(* Properties                                                              *)

(* Whatever answers, timeouts, failures and destroy() do, a live peer that *)
(* was emitted stays with the client that answered, and is destroyed only  *)
(* by a listener that destroys its tracker on hearing of it; one that a    *)
(* timeout or destroy() destroyed is never emitted; and one that failed is *)
(* never emitted as a live one. (It may be emitted, see OnlyLivePeers.)    *)
SettledStep ==
    \A o \in Offer :
        /\ phase[o] \in {"met", "dead"} => partner'[o] = partner[o]
        /\ phase[o] = "met" => \/ phase'[o] = "met"
                               \/ o \in emitting /\ phase'[o] = "dead"
        /\ phase[o] = "dead" => phase'[o] = "dead"
        /\ phase[o] \in {"failed", "corpse"} => phase'[o] \in {phase[o], "corpse", "dead"}
Settled == [][SettledStep]_vars

(* Only live peers are emitted. False of the code: a peer that has failed  *)
(* was destroyed, but the tracker holds it until an answer or its timeout. *)
OnlyLivePeers == \A o \in Offer : phase[o] # "corpse"

(* The offers of one announce connect their maker with different clients,  *)
(* and never with itself. Clients of one page hear each other's offers, so *)
(* one of them may answer for another.                                     *)
OtherPartners ==
    \A o \in Offer : partner[o] # None =>
        /\ partner[o] # maker[o]
        /\ \A b \in batch[o] \ {o} : partner[b] = partner[o] =>
                \E c \in Client \ {partner[o], maker[o]} : PageOf[c] = PageOf[partner[o]]

(* The peer of every offer is given an answer or is destroyed in the end:  *)
(* OFFER_TIMEOUT sees to it whatever happens to sockets and trackers.      *)
OffersEnd == \A o \in Offer : phase[o] \in {"waiting", "failed"} ~>
                                phase[o] \in {"met", "corpse", "dead"}

(* README.md:140: "stop getting peers from the tracker, gracefully leave   *)
(* the swarm". False of the code: the offers of an announce that stop()    *)
(* overtook, the interval timer, an answer, or a reconnect bring a client  *)
(* back that has stopped.                                                  *)
StopLeaves ==
    \A c \in Client : said[c] = "stop" /\ tracker[c] = "up" => entry[c] # LineOf(c)
=============================================================================
