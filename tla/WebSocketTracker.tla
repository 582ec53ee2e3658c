-------------------------- MODULE WebSocketTracker --------------------------
(***************************************************************************)
(* The WebSocket tracker clients of one page and one announce URL          *)
(* (lib/client/websocket-tracker.js). They share the socket that the       *)
(* module's socketPool holds for the URL, count its consumers, and each    *)
(* reconnects on its own when the socket fails.                            *)
(*                                                                         *)
(* The 'data', 'close' and 'error' listeners of a tracker are on a socket  *)
(* exactly while `socket` names it, so only the 'connect' listeners are    *)
(* kept. What the package simple-websocket does is external: a socket      *)
(* connects, delivers data and fails when the network pleases, and emits   *)
(* 'close' some time after destroy(). An announce first generates offers;  *)
(* one that needs none (`stopped`, `completed`, a scrape) is an announce   *)
(* whose offers are ready at once. What the data says is left out, except  *)
(* that an unknown action is an error.                                     *)
(***************************************************************************)
EXTENDS Integers, FiniteSets

CONSTANTS
    Tracker,     \* tracker instances, each of another client of the page
    Sock,        \* names for sockets, free again when a socket has closed
    NoSock       \* null

ASSUME SockAssumption ==
    /\ IsFiniteSet(Tracker)
    /\ {NoSock, "none", "called"} \cap Sock = {}

VARIABLES
    made,           \* trackers that were constructed
    gone,           \* trackers on which the client called destroy()
    destroyed,      \* trackers whose `destroyed` is set
    reconnecting,   \* trackers whose `reconnecting` is set
    timer,          \* trackers whose reconnectTimer is armed
    expecting,      \* trackers whose `expectingResponse` is set
    offering,       \* trackers that generate offers for an announce
    socket,         \* tracker.socket
    callback,       \* destroy(cb): "none", the socket it waits for, "called"
    pool,           \* socketPool[announceUrl]
    state,          \* "none", "connecting", "open", "lingering" or "closing"
    consumers,      \* socket.consumers
    onConnect,      \* trackers with _onSocketConnectBound on 'connect'
    queued          \* trackers with an announce that waits for 'connect'

flags == <<made, gone, destroyed, reconnecting, timer, expecting, offering>>
sockets == <<pool, state, consumers, onConnect, queued>>
vars == <<flags, socket, callback, sockets>>

Users(s) == {t \in Tracker : socket[t] = s}

Init ==
    /\ made = {} /\ gone = {} /\ destroyed = {} /\ reconnecting = {}
    /\ timer = {} /\ expecting = {} /\ offering = {}
    /\ socket = [t \in Tracker |-> NoSock]
    /\ callback = [t \in Tracker |-> "none"]
    /\ pool = NoSock
    /\ state = [s \in Sock |-> "none"]
    /\ consumers = [s \in Sock |-> 0]
    /\ onConnect = [s \in Sock |-> {}]
    /\ queued = [s \in Sock |-> {}]

-----------------------------------------------------------------------------
(***************************************************************************)
(* Opening and sending.                                                    *)
(***************************************************************************)

(* Mutant of OpenSocket: a tracker that joins a socket is not counted.     *)
OpenSocketUncounted(t) ==
    /\ destroyed' = destroyed \ {t}
    /\ \/ /\ pool # NoSock
          /\ socket' = [socket EXCEPT ![t] = pool]
          /\ UNCHANGED <<pool, state, consumers, onConnect>>
       \/ /\ pool = NoSock
          /\ \E s \in Sock :
                /\ state[s] = "none"
                /\ socket' = [socket EXCEPT ![t] = s]
                /\ pool' = s
                /\ state' = [state EXCEPT ![s] = "connecting"]
                /\ consumers' = [consumers EXCEPT ![s] = 1]
                /\ onConnect' = [onConnect EXCEPT ![s] = {t}]
    /\ UNCHANGED <<gone, reconnecting, offering, expecting, callback, queued>>

(***************************************************************************)
(* _openSocket joins the pooled socket or puts a new one into the pool.    *)
(* Only the tracker that creates the socket listens for 'connect'; one     *)
(* that joins an open socket acts as if it had just connected, which makes *)
(* a reconnecting tracker announce.                                        *)
(***************************************************************************)
OpenSocket(t) ==
    /\ destroyed' = destroyed \ {t}
    /\ \/ /\ pool # NoSock
          /\ socket' = [socket EXCEPT ![t] = pool]
          /\ consumers' = [consumers EXCEPT ![pool] = @ + 1]
          /\ IF state[pool] = "open" /\ t \in reconnecting
             THEN /\ reconnecting' = reconnecting \ {t}
                  /\ offering' = offering \cup {t}
             ELSE UNCHANGED <<reconnecting, offering>>
          /\ UNCHANGED <<pool, state, onConnect>>
       \/ /\ pool = NoSock
          /\ \E s \in Sock :
                /\ state[s] = "none"
                /\ socket' = [socket EXCEPT ![t] = s]
                /\ pool' = s
                /\ state' = [state EXCEPT ![s] = "connecting"]
                /\ consumers' = [consumers EXCEPT ![s] = 1]
                /\ onConnect' = [onConnect EXCEPT ![s] = {t}]
          /\ UNCHANGED <<reconnecting, offering>>
    /\ UNCHANGED <<gone, expecting, callback, queued>>

Construct(t) ==
    /\ t \notin made
    /\ made' = made \cup {t}
    /\ OpenSocket(t)
    /\ UNCHANGED timer

(* The reconnect timer fires.                                              *)
Reconnect(t) ==
    /\ t \in timer
    /\ timer' = timer \ {t}
    /\ OpenSocket(t)
    /\ UNCHANGED made

(* announce() or scrape(), called by the client or by the interval timer.  *)
Announce(t) ==
    /\ t \in made \ (destroyed \cup reconnecting)
    /\ IF state[socket[t]] = "open"
       THEN /\ offering' = offering \cup {t}
            /\ UNCHANGED queued
       ELSE /\ queued' = [queued EXCEPT ![socket[t]] = @ \cup {t}]
            /\ UNCHANGED offering
    /\ UNCHANGED <<made, gone, destroyed, reconnecting, timer, expecting,
                   socket, callback, pool, state, consumers, onConnect>>

(* The offers are ready: _send.                                            *)
Send(t) ==
    /\ t \in offering
    /\ offering' = offering \ {t}
    /\ expecting' = expecting \cup {t}
    /\ UNCHANGED <<made, gone, destroyed, reconnecting, timer, socket,
                   callback, pool, state, consumers, onConnect, queued>>

(* 'connect': reconnecting trackers that listen for it announce, and so do *)
(* those with an announce in the queue that are in a state to announce.    *)
SocketConnects(s) ==
    LET back == (onConnect[s] \cap reconnecting) \ destroyed
        called == (queued[s] \ destroyed) \ (reconnecting \ back)
    IN  /\ state[s] = "connecting"
        /\ state' = [state EXCEPT ![s] = "open"]
        /\ reconnecting' = reconnecting \ back
        /\ offering' = offering \cup back \cup called
        /\ onConnect' = [onConnect EXCEPT ![s] = {}]
        /\ queued' = [queued EXCEPT ![s] = {}]
        /\ UNCHANGED <<made, gone, destroyed, timer, expecting, socket,
                       callback, pool, consumers>>

-----------------------------------------------------------------------------
(***************************************************************************)
(* Closing.                                                                *)
(***************************************************************************)

(* Mutant of Remove: the peers of the offers are not destroyed.            *)
RemoveKeepsOffers(D, s) ==
    /\ destroyed' = destroyed \cup D
    /\ socket' = [t \in Tracker |-> IF t \in D THEN NoSock ELSE socket[t]]
    /\ consumers' = [consumers EXCEPT ![s] = @ - Cardinality(D)]
    /\ pool' = IF consumers'[s] > 0 THEN pool ELSE NoSock
    /\ UNCHANGED offering

(* Mutant of Remove: whoever leaves takes the socket from the pool.        *)
RemoveForAll(D, s) ==
    /\ destroyed' = destroyed \cup D
    /\ offering' = offering \ D
    /\ socket' = [t \in Tracker |-> IF t \in D THEN NoSock ELSE socket[t]]
    /\ consumers' = [consumers EXCEPT ![s] = @ - Cardinality(D)]
    /\ pool' = NoSock

(***************************************************************************)
(* What destroy() of the users D of socket s does to the trackers and the  *)
(* pool. The peers of their offers are destroyed with them, so no offer    *)
(* will be ready. Queued announces stay on the socket.                     *)
(***************************************************************************)
Remove(D, s) ==
    /\ destroyed' = destroyed \cup D
    /\ offering' = offering \ D
    /\ socket' = [t \in Tracker |-> IF t \in D THEN NoSock ELSE socket[t]]
    /\ consumers' = [consumers EXCEPT ![s] = @ - Cardinality(D)]
    /\ pool' = IF consumers'[s] > 0 THEN pool ELSE NoSock

(* Mutant of StartReconnectTimer: not while reconnecting already.          *)
StartReconnectTimerOnce(D) ==
    /\ reconnecting' = reconnecting \cup D
    /\ timer' = timer \cup (D \ reconnecting)

(* _startReconnectTimer, which follows destroy() when the socket fails.    *)
StartReconnectTimer(D) ==
    /\ reconnecting' = reconnecting \cup D
    /\ timer' = timer \cup D

(* Mutant of Closed: nobody waits for 'close'.                             *)
ClosedQuietly(s) ==
    /\ state' = [state EXCEPT ![s] = "none"]
    /\ onConnect' = [onConnect EXCEPT ![s] = {}]
    /\ queued' = [queued EXCEPT ![s] = {}]
    /\ UNCHANGED callback

(* 'close' of s: it is no more, and the destroy callbacks that waited for  *)
(* it are called.                                                          *)
Closed(s) ==
    /\ state' = [state EXCEPT ![s] = "none"]
    /\ onConnect' = [onConnect EXCEPT ![s] = {}]
    /\ queued' = [queued EXCEPT ![s] = {}]
    /\ callback' = [t \in Tracker |-> IF callback[t] = s THEN "called"
                                                         ELSE callback[t]]

(* The client calls destroy(). A tracker that is destroyed, by the client  *)
(* or because its socket failed, only calls back.                          *)
DestroyEarlyReturn(t) ==
    /\ t \in (made \cap destroyed) \ gone
    /\ gone' = gone \cup {t}
    /\ callback' = [callback EXCEPT ![t] = "called"]
    /\ UNCHANGED <<made, destroyed, reconnecting, timer, expecting, offering,
                   socket, sockets>>

(* Otherwise it leaves its socket. The last one to leave takes the socket  *)
(* from the pool and destroys it, at once if it expects no response itself *)
(* and after a pause if it does.                                           *)
Destroy(t) ==
    LET s == socket[t]
    IN  /\ t \in made \ (destroyed \cup gone)
        /\ gone' = gone \cup {t}
        /\ timer' = timer \ {t}
        /\ Remove({t}, s)
        /\ onConnect' = [onConnect EXCEPT ![s] = @ \ {t}]
        /\ \/ /\ consumers'[s] > 0
              /\ callback' = [callback EXCEPT ![t] = "called"]
              /\ UNCHANGED state
           \/ /\ consumers'[s] = 0
              /\ callback' = [callback EXCEPT ![t] = s]
              /\ state' = [state EXCEPT ![s] = IF t \in expecting THEN "lingering"
                                                                  ELSE "closing"]
        /\ UNCHANGED <<made, reconnecting, expecting, queued>>

(* 'error', or 'close' without it: all users destroy themselves and wait.  *)
SocketFails(s) ==
    /\ state[s] \in {"connecting", "open"}
    /\ Remove(Users(s), s)
    /\ StartReconnectTimer(Users(s))
    /\ Closed(s)
    /\ UNCHANGED <<made, gone, expecting>>

(* Data comes in. Each user takes it for the response it expects.          *)
SocketData(s) ==
    /\ state[s] = "open"
    /\ expecting' = expecting \ Users(s)
    /\ UNCHANGED <<made, gone, destroyed, reconnecting, timer, offering, socket,
                   callback, pool, state, consumers, onConnect, queued>>

(* Data with an unknown action: an error to each user, and since none is   *)
(* left that expects a response, the end of the socket.                    *)
SocketBadData(s) ==
    /\ state[s] = "open"
    /\ expecting' = expecting \ Users(s)
    /\ Remove(Users(s), s)
    /\ StartReconnectTimer(Users(s))
    /\ state' = [state EXCEPT ![s] = "closing"]
    /\ UNCHANGED <<made, gone, callback, onConnect, queued>>

(* Data came over a lingering socket, or DESTROY_TIMEOUT is over.          *)
LingerEnds(s) ==
    /\ state[s] = "lingering"
    /\ state' = [state EXCEPT ![s] = "closing"]
    /\ UNCHANGED <<flags, socket, callback, pool, consumers, onConnect, queued>>

(* A destroyed socket emits 'close', or a lingering one is closed on us.   *)
SocketClosed(s) ==
    /\ state[s] \in {"lingering", "closing"}
    /\ Closed(s)
    /\ UNCHANGED <<flags, socket, pool, consumers>>

Next ==
    \/ \E t \in Tracker : \/ Construct(t) \/ Reconnect(t)
                          \/ Announce(t) \/ Send(t)
                          \/ DestroyEarlyReturn(t) \/ Destroy(t)
    \/ \E s \in Sock : \/ SocketConnects(s) \/ SocketFails(s)
                       \/ SocketData(s) \/ SocketBadData(s)
                       \/ LingerEnds(s) \/ SocketClosed(s)

(* Timers fire, and destroyed sockets emit 'close'. The network owes us    *)
(* nothing else, but an attempt to connect does end.                       *)
Fairness ==
    /\ \A t \in Tracker : WF_vars(Reconnect(t))
    /\ \A s \in Sock : /\ WF_vars(LingerEnds(s))
                       /\ WF_vars(SocketClosed(s))
                       /\ WF_vars(SocketConnects(s) \/ SocketFails(s))

Spec == Init /\ [][Next]_vars /\ Fairness

-----------------------------------------------------------------------------
(***************************************************************************)
(* Properties.                                                             *)
(***************************************************************************)

(* The types of the variables.                                             *)
TypeOK ==
    /\ gone \subseteq made /\ destroyed \subseteq made
    /\ made \subseteq Tracker
    /\ reconnecting \subseteq made /\ timer \subseteq made
    /\ expecting \subseteq made /\ offering \subseteq made
    /\ socket \in [Tracker -> Sock \cup {NoSock}]
    /\ callback \in [Tracker -> Sock \cup {"none", "called"}]
    /\ pool \in Sock \cup {NoSock}
    /\ state \in [Sock -> {"none", "connecting", "open", "lingering", "closing"}]
    /\ consumers \in [Sock -> Int]
    /\ onConnect \in [Sock -> SUBSET Tracker]
    /\ queued \in [Sock -> SUBSET Tracker]

(* The trackers that are alive are all on the pooled socket, which is up   *)
(* or coming up, and the socket's consumers count them. So destroy() finds *)
(* a pool entry and the last tracker, and no other, destroys the socket.   *)
PoolCounts ==
    /\ \A t \in Tracker :
          socket[t] = IF t \in made \ destroyed THEN pool ELSE NoSock
    /\ pool = NoSock => made \subseteq destroyed
    /\ pool # NoSock => /\ state[pool] \in {"connecting", "open"}
                        /\ consumers[pool] = Cardinality(made \ destroyed)
                        /\ made # destroyed

(* Sockets do not leak: one that is up or coming up is the pooled one.     *)
OneLiveSocket ==
    \A s \in Sock : state[s] \in {"connecting", "open"} => s = pool

(* A tracker that the client has not destroyed is alive or will be: if it  *)
(* has no socket, its reconnect timer is armed.                            *)
NeverForgotten == \A t \in destroyed \ gone : t \in timer /\ t \in reconnecting

(* When the offers of an announce are ready, later than it was called, the *)
(* tracker is alive and its socket, which may be another one by then, is   *)
(* open: _send never meets a socket that is gone or that still connects.   *)
SendsWhenOpen == \A t \in offering : t \notin destroyed /\ state[socket[t]] = "open"

(* destroy() always calls back, once the socket it waits for is closed.    *)
DestroyCallsBack == \A t \in Tracker : (t \in gone) ~> (callback[t] = "called")

(* A tracker that the client destroyed stays destroyed.                    *)
StaysDestroyed == gone \subseteq destroyed

(* Once the socket is open, no tracker on it still waits for its 'connect' *)
(* to announce again.                                                      *)
ReconnectsOnOpen ==
    \A t \in made \ destroyed :
        state[socket[t]] = "open" => t \notin reconnecting
=============================================================================
