----------------------------- MODULE UdpTracker -----------------------------
(***************************************************************************)
(* A UDP tracker client (lib/client/udp-tracker.js). Each announce or      *)
(* scrape is a request with a socket of its own: it asks the tracker for a *)
(* connection id, then announces or scrapes under a new transaction id,    *)
(* and it registers a cleanup function for destroy() to wait for. With a   *)
(* SOCKS proxy the socket is opened once the proxy has answered.           *)
(*                                                                         *)
(* The network loses, duplicates, delays and reorders datagrams: `net`     *)
(* only grows, and nothing in it needs to be received. Transaction ids are *)
(* drawn at random; here, two of them are never the same. The tracker and  *)
(* the SOCKS package are external. A reply that is too short, or says that *)
(* there was an error, is a reply with the action "error".                 *)
(*                                                                         *)
(* A reply may be reported by several events. The listeners of each run    *)
(* inside the handler of the reply and may call the client, destroy() too, *)
(* before it emits the next. While `reporting` is not empty such a handler *)
(* has not returned: timers, sockets and the proxy wait for it.            *)
(***************************************************************************)
EXTENDS FiniteSets

CONSTANT Req    \* requests: a bound on announces and scrapes in a behaviour

Kind == {"update", "stopped", "scrape"}

VARIABLES
    socks,       \* whether requests go through a SOCKS proxy; never changes
    kind,        \* what a request is for
    phase,       \* "new", "socks", "connect", "request" or "done"
    cleanupFns,  \* the requests whose cleanup function is registered
    stage,       \* destroy(): "alive", "leaving" (it waits) or "gone"
    interval,    \* whether the interval timer is armed
    emitted,     \* what kinds of events a request gave the client
    reporting,   \* the request whose reply is being reported, if any
    net          \* datagrams, see Datagram

vars == <<socks, kind, phase, cleanupFns, stage, interval, emitted, reporting,
          net>>

(* A datagram of a request's socket: sent to the tracker or by it. The     *)
(* transaction id is told by the phase in which the client drew it.        *)
Datagram == [to : {"tracker"}, req : Req, id : {"connect", "request"}]
            \cup [to : {"client"}, req : Req, id : {"connect", "request"},
                  action : {"handshake", "answer", "error"}]

Sent(r, id) == [to |-> "tracker", req |-> r, id |-> id]
Reply(m, action) == [to |-> "client", req |-> m.req, id |-> m.id, action |-> action]

NoHandler == reporting = {}     \* the next one may start
HasSocket(r) == phase[r] \in {"connect", "request"}
destroyed == stage # "alive"

Init ==
    /\ socks \in BOOLEAN
    /\ kind = [r \in Req |-> "update"]
    /\ phase = [r \in Req |-> "new"]
    /\ cleanupFns = {}
    /\ stage = "alive"
    /\ interval = FALSE
    /\ emitted = [r \in Req |-> {}]
    /\ reporting = {}
    /\ net = {}

-----------------------------------------------------------------------------
(***************************************************************************)
(* Requests.                                                               *)
(***************************************************************************)

(* onGotConnection: the socket asks for a connection id.                   *)
Open(r) ==
    /\ phase' = [phase EXCEPT ![r] = "connect"]
    /\ net' = net \cup {Sent(r, "connect")}

(* announce() or scrape(), called by the client, in a listener or not, or  *)
(* by the interval timer.                                                  *)
Request(r, k) ==
    /\ ~destroyed
    /\ phase[r] = "new"
    /\ kind' = [kind EXCEPT ![r] = k]
    /\ cleanupFns' = cleanupFns \cup {r}
    /\ \/ /\ socks
          /\ phase' = [phase EXCEPT ![r] = "socks"]
          /\ UNCHANGED net
       \/ /\ ~socks
          /\ Open(r)
    /\ UNCHANGED <<socks, stage, interval, emitted, reporting>>

SocksConnects(r) ==
    /\ NoHandler
    /\ phase[r] = "socks"
    /\ Open(r)
    /\ UNCHANGED <<socks, kind, cleanupFns, stage, interval, emitted, reporting>>

(* Mutant of Cleanup: a waiting destroy() is not told.                     *)
CleanupQuietly(r) ==
    /\ phase' = [phase EXCEPT ![r] = "done"]
    /\ cleanupFns' = IF HasSocket(r) THEN cleanupFns \ {r} ELSE cleanupFns
    /\ UNCHANGED stage

(* cleanup(): the socket, if there is one, is closed, the request is no    *)
(* longer registered, and a waiting destroy() calls back if it was the     *)
(* last one.                                                               *)
Cleanup(r) ==
    /\ phase' = [phase EXCEPT ![r] = "done"]
    /\ cleanupFns' = IF HasSocket(r) THEN cleanupFns \ {r} ELSE cleanupFns
    /\ stage' = IF stage = "leaving" /\ cleanupFns' = {} THEN "gone" ELSE stage

(* Mutant of Finish: the event is emitted in any case.                     *)
FinishAloud(r, event) ==
    /\ Cleanup(r)
    /\ emitted' = [emitted EXCEPT ![r] = {event}]
    /\ reporting' = {r}

(* cleanup(), then an event unless destroy() was called.                   *)
Finish(r, event) ==
    /\ Cleanup(r)
    /\ IF destroyed THEN UNCHANGED <<emitted, reporting>>
                    ELSE /\ emitted' = [emitted EXCEPT ![r] = {event}]
                         /\ reporting' = {r}

(* onError, when the proxy fails.                                          *)
SocksFails(r) ==
    /\ NoHandler
    /\ phase[r] = "socks"
    /\ Finish(r, "warning")
    /\ UNCHANGED <<socks, kind, interval, net>>

(* onError, when the socket fails.                                         *)
SocketFails(r) ==
    /\ NoHandler
    /\ HasSocket(r)
    /\ Finish(r, "warning")
    /\ UNCHANGED <<socks, kind, interval, net>>

(* Mutant of TimesOut: the timeout of a `stopped` announce does nothing.   *)
TimesOutUnlessStopped(r) ==
    /\ NoHandler
    /\ HasSocket(r)
    /\ kind[r] # "stopped"
    /\ Finish(r, "warning")
    /\ UNCHANGED <<socks, kind, interval, net>>

(* REQUEST_TIMEOUT is over. A `stopped` announce does not report it.       *)
TimesOut(r) ==
    /\ NoHandler
    /\ HasSocket(r)
    /\ \/ kind[r] = "stopped" /\ Cleanup(r) /\ UNCHANGED <<emitted, reporting>>
       \/ kind[r] # "stopped" /\ Finish(r, "warning")
    /\ UNCHANGED <<socks, kind, interval, net>>

-----------------------------------------------------------------------------
(***************************************************************************)
(* onSocketMessage, while the request has its socket. A datagram under     *)
(* another id than the latest is an error.                                 *)
(***************************************************************************)

Arrives(m, action) ==
    /\ NoHandler
    /\ m \in net
    /\ m.to = "client"
    /\ HasSocket(m.req)
    /\ m.id = phase[m.req]
    /\ m.action = action

(* Mutant of Handshake: the case lacks its `break`.                        *)
HandshakeFallsThrough(m) ==
    /\ Arrives(m, "handshake")
    /\ net' = net \cup {Sent(m.req, "request")}
    /\ Finish(m.req, "update")
    /\ UNCHANGED <<socks, kind, interval>>

(* A connection id: announce or scrape under a new transaction id, even if *)
(* destroy() was called.                                                   *)
Handshake(m) ==
    /\ Arrives(m, "handshake")
    /\ phase' = [phase EXCEPT ![m.req] = "request"]
    /\ net' = net \cup {Sent(m.req, "request")}
    /\ UNCHANGED <<socks, kind, cleanupFns, stage, interval, emitted, reporting>>

(* The answer to an announce may name an interval. The first event:        *)
Answer(m) ==
    /\ Arrives(m, "answer")
    /\ Finish(m.req, IF kind[m.req] = "scrape" THEN "scrape" ELSE "update")
    /\ interval' \in {interval, interval \/ (~destroyed /\ kind[m.req] # "scrape")}
    /\ UNCHANGED <<socks, kind, net>>

(* After 'update' comes a warning if the compact list of peers is not well *)
(* formed, or one 'peer' for each peer in it, if any, whatever a listener  *)
(* has done. After 'peer' or 'scrape' may come others, which make no       *)
(* difference here.                                                        *)
ReportsOn(r) ==
    /\ r \in reporting
    /\ emitted[r] = {"update"}
    /\ \E event \in {"peer", "warning"} :
          emitted' = [emitted EXCEPT ![r] = @ \cup {event}]
    /\ UNCHANGED <<socks, kind, phase, cleanupFns, stage, interval, reporting, net>>

(* The last listener, and then the handler, return.                        *)
Returns ==
    /\ reporting # {}
    /\ reporting' = {}
    /\ UNCHANGED <<socks, kind, phase, cleanupFns, stage, interval, emitted, net>>

ErrorReply(m) ==
    /\ Arrives(m, "error")
    /\ Finish(m.req, "warning")
    /\ UNCHANGED <<socks, kind, interval, net>>

InvalidTransactionId(m) ==
    /\ NoHandler
    /\ m \in net
    /\ m.to = "client"
    /\ HasSocket(m.req)
    /\ m.id # phase[m.req]
    /\ Finish(m.req, "warning")
    /\ UNCHANGED <<socks, kind, interval, net>>

(* The tracker answers a datagram, under its transaction id (external).    *)
TrackerReplies(m) ==
    /\ m \in net
    /\ m.to = "tracker"
    /\ \E action \in {"error", IF m.id = "connect" THEN "handshake" ELSE "answer"} :
          net' = net \cup {Reply(m, action)}
    /\ UNCHANGED <<socks, kind, phase, cleanupFns, stage, interval, emitted, reporting>>

-----------------------------------------------------------------------------
(* Client.start and Client.setInterval set the interval timer, or clear it *)
(* for an interval of 0. A client that is destroyed forgets its trackers.  *)
SetInterval ==
    /\ ~destroyed
    /\ interval' \in BOOLEAN
    /\ UNCHANGED <<socks, kind, phase, cleanupFns, stage, emitted, reporting, net>>

(* destroy(cb): the callback is called when `stage` becomes "gone".        *)
Destroy ==
    /\ ~destroyed
    /\ stage' = IF cleanupFns = {} THEN "gone" ELSE "leaving"
    /\ interval' = FALSE
    /\ UNCHANGED <<socks, kind, phase, cleanupFns, emitted, reporting, net>>

(* Mutant of DestroyTimeout: the cleanup functions are dropped, not called.*)
DestroyTimeoutDrops ==
    /\ NoHandler
    /\ stage = "leaving"
    /\ stage' = "gone"
    /\ cleanupFns' = {}
    /\ UNCHANGED <<socks, kind, phase, interval, emitted, reporting, net>>

(* DESTROY_TIMEOUT is over: destroyCleanup. The cleanup function of a      *)
(* request that waits for its proxy has no socket to close.                *)
DestroyTimeout ==
    /\ NoHandler
    /\ stage = "leaving"
    /\ stage' = "gone"
    /\ phase' = [r \in Req |-> IF r \in cleanupFns /\ HasSocket(r)
                               THEN "done" ELSE phase[r]]
    /\ cleanupFns' = {}
    /\ UNCHANGED <<socks, kind, interval, emitted, reporting, net>>

Next ==
    \/ \E r \in Req : \/ \E k \in Kind : Request(r, k)
                      \/ SocksConnects(r) \/ SocksFails(r)
                      \/ SocketFails(r) \/ TimesOut(r) \/ ReportsOn(r)
    \/ \E m \in net : \/ Handshake(m) \/ Answer(m) \/ ErrorReply(m)
                      \/ InvalidTransactionId(m) \/ TrackerReplies(m)
    \/ SetInterval \/ Destroy \/ DestroyTimeout \/ Returns

(* Timers fire and listeners return. The network owes us nothing.          *)
Fairness ==
    /\ WF_vars(Returns)
    /\ WF_vars(DestroyTimeout)
    /\ \A r \in Req : WF_vars(TimesOut(r))

Spec == Init /\ [][Next]_vars /\ Fairness

-----------------------------------------------------------------------------
(***************************************************************************)
(* Properties.                                                             *)
(***************************************************************************)

(* The types of the variables.                                             *)
TypeOK ==
    /\ socks \in BOOLEAN
    /\ kind \in [Req -> Kind]
    /\ phase \in [Req -> {"new", "socks", "connect", "request", "done"}]
    /\ cleanupFns \subseteq Req
    /\ stage \in {"alive", "leaving", "gone"}
    /\ interval \in BOOLEAN
    /\ emitted \in [Req -> SUBSET {"update", "peer", "scrape", "warning"}]
    /\ reporting \subseteq Req
    /\ net \subseteq Datagram

(* No proxy: requests are registered exactly while they have a socket, so  *)
(* destroy() waits for those that are under way, and only for those, and   *)
(* no socket is open once it has called back.                              *)
CleanupTracked == ~socks => cleanupFns = {r \in Req : HasSocket(r)}

(* With a proxy or without: no socket is open once destroy() has called    *)
(* back.                                                                   *)
NothingLeftBehind == stage = "gone" => \A r \in Req : ~HasSocket(r)

(* An answer is taken only from a reply of the tracker to this request     *)
(* under its second transaction id: no handshake that arrives late or      *)
(* twice can pass for one.                                                 *)
AnswerIsForRequest ==
    \A r \in Req :
        emitted[r] \cap {"update", "peer", "scrape"} # {} =>
            \E m \in net : /\ m.to = "client" /\ m.req = r
                           /\ m.id = "request" /\ m.action = "answer"

(* What one request may give the client: a warning, an update (followed by *)
(* one warning or by peers), or scrapes.                                   *)
Reports(k) == {{}, {"warning"}} \cup
    IF k = "scrape" THEN {{"scrape"}}
                    ELSE {{"update"}, {"update", "warning"}, {"update", "peer"}}

(* A request is reported once, by the events of one failure or one reply,  *)
(* though replies come late and twice and its timeout races them. While    *)
(* requests go on after destroy(), no report begins; but one that a        *)
(* listener's destroy() interrupts is carried through. Either way, no      *)
(* interval timer runs then.                                               *)
ReportStep ==
    /\ \A r \in Req : /\ emitted'[r] \in Reports(kind'[r])
                      /\ emitted'[r] # emitted[r] => \/ emitted[r] = {} /\ ~destroyed'
                                                     \/ r \in reporting
    /\ destroyed' => ~interval'
OneReport == [][ReportStep]_vars

(* A client hears nothing more once it has called destroy(). False of the  *)
(* code if it calls it in a listener.                                      *)
SilentAfterDestroy == [][destroyed => emitted' = emitted]_vars

(* Every request that has a socket closes it in the end, whatever is lost. *)
RequestEnds == \A r \in Req : HasSocket(r) ~> ~HasSocket(r)

(* destroy() calls back once: when the last registered request ends, or    *)
(* when DESTROY_TIMEOUT is over.                                           *)
Contract == INSTANCE Teardown WITH Requests <- Req, open <- cleanupFns

ImplementsTeardown == Contract!Spec
=============================================================================
