-------------------------- MODULE ServerLifecycle --------------------------
(***************************************************************************)
(* How a tracker server starts and stops (server.js): the constructor      *)
(* creates the sockets that the options ask for, listen() binds them,      *)
(* `num` counts the 'listening' events that are still missing, and close() *)
(* closes them while they may still be binding.                            *)
(*                                                                         *)
(* Node's sockets are external. A UDP socket that is closed binds no more. *)
(* An HTTP server with a hostname looks it up before it has anything that  *)
(* close() could close. Its close() calls back when no connection is left, *)
(* with an error if it was not running. A WebSocket is such a connection,  *)
(* and close() ends none of them.                                          *)
(***************************************************************************)
EXTENDS Integers

CONSTANTS
    Close,      \* calls of close(): a bound on them
    MaxOpen     \* bound: connections at a time

ASSUME MaxOpenAssumption == MaxOpen \in Nat

VARIABLES
    options,      \* opts.http, opts.udp, opts.ws, opts.stats
    state,        \* of a socket: "none", "idle", "looking" (up its hostname),
                  \* "binding", "bound", "failed" or "closed"
    num,          \* 'listening' events to come
    listening,
    destroyed,
    listenCalled, \* _listenCalled
    told,         \* how often 'listening' was emitted
    connections,  \* open HTTP and WebSocket connections
    closing       \* of a call: "none", "waits", "waits in vain" (for an error),
                  \* "done" or "error"

vars == <<options, state, num, listening, destroyed, listenCalled, told, connections, closing>>

Socket == {"http", "udp4", "udp6"}
Sockets == {s \in Socket : state[s] # "none"}

(* The constructor. Stats and WebSockets need an HTTP server, too, unless  *)
(* the user brings one.                                                    *)
HasSocket(o, s) ==
    IF s = "http" THEN o.http \/ o.ws = "own" \/ o.stats ELSE o.udp

One(b) == IF b THEN 1 ELSE 0

(* Mutant of CountSockets: the second UDP socket is not counted.           *)
CountTwoSockets(o) == One(HasSocket(o, "http")) + One(HasSocket(o, "udp4"))

(* !!this.http + !!this.udp4 + !!this.udp6                                 *)
CountSockets(o) ==
    One(HasSocket(o, "http")) + One(HasSocket(o, "udp4")) + One(HasSocket(o, "udp6"))

Init ==
    /\ options \in [http : BOOLEAN, udp : BOOLEAN, ws : {"off", "own", "noServer"},
                    stats : BOOLEAN]
    /\ state = [s \in Socket |-> IF HasSocket(options, s) THEN "idle" ELSE "none"]
    /\ num = CountSockets(options)
    /\ listening = FALSE
    /\ destroyed = FALSE
    /\ listenCalled = FALSE
    /\ told = 0
    /\ connections = 0
    /\ closing = [c \in Close |-> "none"]

-----------------------------------------------------------------------------
(* Mutant of Listen: only the first UDP socket is bound.                   *)
ListenOnTwo ==
    /\ ~listenCalled /\ ~listening
    /\ listenCalled' = TRUE
    /\ \E first \in {"looking", "binding"} :
          state' = [s \in Socket |->
              IF s = "http" /\ state[s] = "idle" THEN first
              ELSE IF s = "udp4" /\ state[s] = "idle" THEN "binding" ELSE state[s]]
    /\ UNCHANGED <<options, num, listening, destroyed, told, connections, closing>>

(* listen(), which throws when it was called before. After close() it is   *)
(* not refused: an HTTP server that never ran can still listen, and bind() *)
(* of a UDP socket that is closed throws.                                  *)
Listen ==
    /\ ~listenCalled /\ ~listening
    /\ listenCalled' = TRUE
    /\ \E first \in {"looking", "binding"} :
          state' = [s \in Socket |->
              IF s = "http" /\ state[s] = "idle" THEN first
              ELSE IF s # "http" /\ state[s] = "idle" THEN "binding" ELSE state[s]]
    /\ UNCHANGED <<options, num, listening, destroyed, told, connections, closing>>

(* 'listening' of a socket: onListening                                    *)
Bound(s) ==
    /\ state[s] \in {"looking", "binding"}
    /\ state' = [state EXCEPT ![s] = "bound"]
    /\ num' = num - 1
    /\ IF num' = 0
       THEN /\ listening' = TRUE
            /\ told' = told + 1
       ELSE UNCHANGED <<listening, told>>
    /\ UNCHANGED <<options, destroyed, listenCalled, connections, closing>>

(* 'error' of a socket that cannot be bound: an 'error' of the server. The *)
(* others go on.                                                           *)
Fails(s) ==
    /\ state[s] \in {"looking", "binding"}
    /\ state' = [state EXCEPT ![s] = "failed"]
    /\ UNCHANGED <<options, num, listening, destroyed, listenCalled, told, connections, closing>>

Connect ==
    /\ state["http"] = "bound"
    /\ connections < MaxOpen
    /\ connections' = connections + 1
    /\ UNCHANGED <<options, state, num, listening, destroyed, listenCalled, told, closing>>

Disconnect ==
    /\ connections > 0
    /\ connections' = connections - 1
    /\ UNCHANGED <<options, state, num, listening, destroyed, listenCalled, told, closing>>

Runs == state["http"] \in {"binding", "bound"}

(* Mutant of CloseHttp: without an HTTP server nothing is called.          *)
CloseHttpOnly(c) ==
    closing' = [closing EXCEPT ![c] = IF Runs THEN "waits" ELSE "waits in vain"]

(* Mutant of CloseHttp: the callback is called at once.                    *)
CloseHttpAtOnce(c) ==
    closing' = [closing EXCEPT ![c] = IF Runs THEN "done" ELSE "error"]

(* http.close(cb), or cb(null)                                             *)
CloseHttp(c) ==
    closing' = [closing EXCEPT ![c] = IF state["http"] = "none" THEN "done"
                                      ELSE IF Runs THEN "waits" ELSE "waits in vain"]

(* close()                                                                 *)
CloseServer(c) ==
    /\ closing[c] = "none"
    /\ listening' = FALSE
    /\ destroyed' = TRUE
    /\ state' = [s \in Socket |->
                    IF IF s = "http" THEN Runs ELSE state[s] # "none" THEN "closed" ELSE state[s]]
    /\ CloseHttp(c)
    /\ UNCHANGED <<options, num, listenCalled, told, connections>>

(* 'close' of the HTTP server                                              *)
Drained ==
    /\ connections = 0 /\ state["http"] # "none" /\ ~Runs
    /\ \E c \in Close : closing[c] \in {"waits", "waits in vain"}
    /\ closing' = [c \in Close |-> CASE closing[c] = "waits" -> "done"
                                     [] closing[c] = "waits in vain" -> "error"
                                     [] OTHER -> closing[c]]
    /\ UNCHANGED <<options, state, num, listening, destroyed, listenCalled, told, connections>>

Next ==
    \/ Listen \/ Connect \/ Disconnect \/ Drained
    \/ \E s \in Socket : Bound(s) \/ Fails(s)
    \/ \E c \in Close : CloseServer(c)

(* A bind() is settled, and 'close' comes once nothing is open.            *)
Spec == Init /\ [][Next]_vars /\ WF_vars(Drained)
             /\ \A s \in Socket : WF_vars(Bound(s) \/ Fails(s))

-----------------------------------------------------------------------------
(* Properties                                                              *)

(* Until close(), the server says that it listens exactly when every       *)
(* socket that its options ask for is bound, though they bind in any order *)
(* and one may fail; it never does when it has no socket of its own. The   *)
(* event comes once, even if it comes after close().                       *)
ListeningTrue ==
    /\ ~destroyed => (listening <=> Sockets # {} /\ \A s \in Sockets : state[s] = "bound")
    /\ told <= 1

(* README.md:210 on 'listening': "fired when all requested servers are     *)
(* listening". False of the code once close() was called: an HTTP server   *)
(* that looks up its hostname, or listen() after close(), still counts     *)
(* num down.                                                               *)
ClosedIsSilent == destroyed => ~listening

(* A close() that calls back without an error has closed the HTTP server   *)
(* for good, and every connection had ended.                               *)
DoneIsClosed ==
    \A c \in Close : closing[c] = "done" => ~Runs /\ connections = 0

(* listen() ends: the server listens, a socket fails, or it is closed.     *)
StartSettles ==
    listenCalled /\ Sockets # {} ~>
        listening \/ destroyed \/ \E s \in Socket : state[s] = "failed"

(* close() calls back, unless connections are kept open, or the server     *)
(* came back (see README).                                                 *)
CloseCallsBack ==
    \A c \in Close : closing[c] \in {"waits", "waits in vain"} ~>
        closing[c] \in {"done", "error"} \/ connections > 0 \/ Runs
=============================================================================
