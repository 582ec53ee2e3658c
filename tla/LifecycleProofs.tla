-------------------------- MODULE LifecycleProofs --------------------------
(***************************************************************************)
(* Safety of ServerLifecycle for any number of calls of close() and of     *)
(* connections. The invariant says what num counts, until close(): the     *)
(* sockets that are not bound; that num never rises, so that 'listening'   *)
(* comes once; and that an HTTP server which ran before it was closed      *)
(* cannot run again, because listen() was called for it.                   *)
(***************************************************************************)
EXTENDS ServerLifecycle, TLAPS

States == {"none", "idle", "looking", "binding", "bound", "failed", "closed"}
Outcomes == {"none", "waits", "waits in vain", "done", "error"}

(* The types of the variables.                                             *)
TypeOK ==
    /\ options \in [http : BOOLEAN, udp : BOOLEAN, ws : {"off", "own", "noServer"},
                    stats : BOOLEAN]
    /\ state \in [Socket -> States]
    /\ num \in Int
    /\ listening \in BOOLEAN
    /\ destroyed \in BOOLEAN
    /\ listenCalled \in BOOLEAN
    /\ told \in {0, 1}
    /\ connections \in Nat
    /\ closing \in [Close -> Outcomes]

(* A socket whose 'listening' num waits for.                               *)
Missing(s) == One(state[s] \in {"idle", "looking", "binding", "failed"})

Counted ==
    ~destroyed =>
        /\ num = Missing("http") + Missing("udp4") + Missing("udp6")
        /\ \A s \in Socket : state[s] # "closed"
        /\ listening <=> told = 1
        /\ listening => num = 0 /\ \E s \in Socket : state[s] = "bound"
        /\ told = 0 => num > 0 \/ \A s \in Socket : state[s] = "none"

ToldOnce == told = 1 => num <= 0

Once ==
    /\ ~listenCalled => state["http"] \in {"none", "idle"}
    /\ state["http"] \in {"none", "idle"} => connections = 0
    /\ \A c \in Close : closing[c] \in {"waits", "done"} => state["http"] \in {"none", "closed"}
    /\ \A c \in Close : closing[c] = "waits" => state["http"] = "closed"
    /\ DoneIsClosed

IInv == TypeOK /\ Counted /\ ToldOnce /\ Once

LEMMA InitOK == Init => IInv
<1> SUFFICES ASSUME Init PROVE IInv
  OBVIOUS
<1>1. /\ options.http \in BOOLEAN /\ options.udp \in BOOLEAN /\ options.stats \in BOOLEAN
      /\ \A s \in Socket : HasSocket(options, s) \in BOOLEAN
  BY DEF Init, HasSocket, Socket
<1>2. TypeOK
  <2>1. options \in [http : BOOLEAN, udp : BOOLEAN, ws : {"off", "own", "noServer"},
                     stats : BOOLEAN]
    BY DEF Init
  <2>2. state \in [Socket -> States]
    BY DEF Init, States
  <2>3. num \in Int
    BY DEF Init, CountSockets, One
  <2>4. closing \in [Close -> Outcomes]
    BY DEF Init, Outcomes
  <2> QED
    BY <2>1, <2>2, <2>3, <2>4 DEF Init, TypeOK
<1>3. \A s \in Socket : state[s] = IF HasSocket(options, s) THEN "idle" ELSE "none"
  BY DEF Init
<1>4. Counted
  BY <1>1, <1>2, <1>3 DEF Init, Counted, Missing, CountSockets, One, Socket
<1>5. ToldOnce /\ Once
  BY <1>3 DEF Init, ToldOnce, Once, DoneIsClosed, Runs, Socket
<1> QED
  BY <1>2, <1>4, <1>5 DEF IInv

LEMMA StepOK == IInv /\ [Next]_vars => IInv'
<1> SUFFICES ASSUME IInv, [Next]_vars PROVE IInv'
  OBVIOUS
<1> USE DEF IInv
<1>0. Socket = {"http", "udp4", "udp6"}
  BY DEF Socket
<1>1. CASE Listen
  <2>1. PICK first \in {"looking", "binding"} :
            state' = [s \in Socket |->
                IF s = "http" /\ state[s] = "idle" THEN first
                ELSE IF s # "http" /\ state[s] = "idle" THEN "binding" ELSE state[s]]
    BY <1>1 DEF Listen
  <2>2. TypeOK'
    BY <1>1, <2>1 DEF Listen, TypeOK, States
  <2>3. Counted'
    BY <1>0, <1>1, <2>1 DEF Listen, TypeOK, States, Counted, Missing, One
  <2>4. ToldOnce' /\ Once'
    BY <1>0, <1>1, <2>1 DEF Listen, TypeOK, States, ToldOnce, Once, DoneIsClosed, Runs
  <2> QED
    BY <2>2, <2>3, <2>4
<1>2. ASSUME NEW s \in Socket, Bound(s) PROVE IInv'
  <2>1. TypeOK'
    <3>1. state' \in [Socket -> States]
      BY <1>2 DEF Bound, TypeOK, States
    <3>4. num' \in Int
      BY <1>2 DEF Bound, TypeOK
    <3>5. listening' \in BOOLEAN
      <4>1. CASE num' = 0
        BY <1>2, <4>1 DEF Bound
      <4>2. CASE num' # 0
        BY <1>2, <4>2 DEF Bound, TypeOK
      <4> QED
        BY <4>1, <4>2
    <3>2. num' = 0 => told = 0
      BY <1>2 DEF Bound, TypeOK, ToldOnce
    <3>3. told' \in {0, 1}
      BY <1>2, <3>2 DEF Bound, TypeOK
    <3> QED
      BY <1>2, <3>1, <3>4, <3>5, <3>3 DEF Bound, TypeOK
  <2>2. Counted'
    BY <1>0, <1>2 DEF Bound, TypeOK, States, Counted, Missing, One, ToldOnce
  <2>3. ToldOnce' /\ Once'
    BY <1>0, <1>2 DEF Bound, TypeOK, States, ToldOnce, Once, DoneIsClosed, Runs
  <2> QED
    BY <2>1, <2>2, <2>3
<1>3. ASSUME NEW s \in Socket, Fails(s) PROVE IInv'
  <2>1. TypeOK'
    BY <1>3 DEF Fails, TypeOK, States
  <2>2. Counted'
    BY <1>0, <1>3 DEF Fails, TypeOK, States, Counted, Missing, One
  <2>3. ToldOnce' /\ Once'
    BY <1>0, <1>3 DEF Fails, TypeOK, States, ToldOnce, Once, DoneIsClosed, Runs
  <2> QED
    BY <2>1, <2>2, <2>3
<1>4. CASE Connect
  BY <1>4 DEF Connect, TypeOK, Counted, Missing, ToldOnce, Once, DoneIsClosed, Runs
<1>5. CASE Disconnect
  BY <1>5 DEF Disconnect, TypeOK, Counted, Missing, ToldOnce, Once, DoneIsClosed, Runs
<1>6. ASSUME NEW c \in Close, CloseServer(c) PROVE IInv'
  <2>1. /\ state' \in [Socket -> States]
        /\ state'["http"] = IF Runs THEN "closed" ELSE state["http"]
    BY <1>0, <1>6 DEF CloseServer, TypeOK, States
  <2>2. closing' = [closing EXCEPT ![c] = IF state["http"] = "none" THEN "done"
                                          ELSE IF Runs THEN "waits" ELSE "waits in vain"]
    BY <1>6 DEF CloseServer, CloseHttp
  <2>3. TypeOK'
    BY <1>6, <2>1, <2>2 DEF CloseServer, TypeOK, Outcomes
  <2>4. Counted' /\ ToldOnce'
    BY <1>6 DEF CloseServer, Counted, ToldOnce
  <2>5. /\ state["http"] \in {"none", "idle"} => state'["http"] = state["http"]
        /\ state["http"] = "none" => connections' = 0
        /\ ~Runs'
        /\ connections' = connections /\ listenCalled' = listenCalled
    BY <1>6, <2>1 DEF CloseServer, Once, Runs
  <2>6. ASSUME NEW d \in Close
        PROVE  /\ closing'[d] \in {"waits", "done"} => state'["http"] \in {"none", "closed"}
               /\ closing'[d] = "waits" => state'["http"] = "closed"
               /\ closing'[d] = "done" => connections' = 0
    <3>1. CASE d = c
      BY <2>1, <2>2, <2>5, <3>1 DEF TypeOK
    <3>2. CASE d # c
      BY <2>1, <2>2, <2>5, <3>2 DEF TypeOK, Once, DoneIsClosed, Runs
    <3> QED
      BY <3>1, <3>2
  <2>7. /\ ~listenCalled' => state'["http"] \in {"none", "idle"}
        /\ state'["http"] \in {"none", "idle"} => connections' = 0
    BY <2>1, <2>5 DEF Once, Runs
  <2>8. Once'
    BY <2>5, <2>6, <2>7 DEF Once, DoneIsClosed
  <2> QED
    BY <2>3, <2>4, <2>8
<1>7. CASE Drained
  <2>1. TypeOK'
    BY <1>7 DEF Drained, TypeOK, Outcomes
  <2>2. Counted' /\ ToldOnce'
    BY <1>7 DEF Drained, Counted, Missing, ToldOnce
  <2>3. Once'
    BY <1>7 DEF Drained, TypeOK, Outcomes, Once, DoneIsClosed, Runs
  <2> QED
    BY <2>1, <2>2, <2>3
<1>8. CASE UNCHANGED vars
  BY <1>8 DEF vars, TypeOK, Counted, Missing, ToldOnce, Once, DoneIsClosed, Runs
<1> QED
  BY <1>1, <1>2, <1>3, <1>4, <1>5, <1>6, <1>7, <1>8 DEF Next

LEMMA InvOK == Spec => []IInv
  BY InitOK, StepOK, PTL DEF Spec

(* In every reachable state, and until close(), `listening` says exactly   *)
(* that all sockets are bound, whatever the order in which they bind or    *)
(* fail; and 'listening' is emitted at most once in the server's life.     *)
THEOREM ListeningCorrect == Spec => []ListeningTrue
<1>1. IInv => ListeningTrue
  <2> SUFFICES ASSUME IInv PROVE ListeningTrue
    OBVIOUS
  <2>1. Socket = {"http", "udp4", "udp6"} /\ \A s \in Socket : s \in Sockets <=> state[s] # "none"
    BY DEF Socket, Sockets
  <2>2. told <= 1
    BY DEF IInv, TypeOK
  <2>3. ASSUME ~destroyed, listening
        PROVE  Sockets # {} /\ \A s \in Sockets : state[s] = "bound"
    <3>1. Missing("http") + Missing("udp4") + Missing("udp6") = 0
      BY <2>3 DEF IInv, Counted
    <3>2. \A s \in Socket : Missing(s) = 0
      BY <2>1, <3>1 DEF Missing, One
    <3>3. \A s \in Socket : state[s] \in {"none", "bound"}
      BY <2>3, <3>2 DEF IInv, TypeOK, States, Counted, Missing, One
    <3> QED
      BY <2>1, <2>3, <3>3 DEF IInv, Counted, Sockets
  <2>4. ASSUME ~destroyed, Sockets # {}, \A s \in Sockets : state[s] = "bound"
        PROVE  listening
    BY <2>1, <2>4 DEF IInv, TypeOK, States, Counted, Missing, One, Sockets
  <2> QED
    BY <2>2, <2>3, <2>4 DEF ListeningTrue, IInv, TypeOK
<1> QED
  BY <1>1, InvOK, PTL

(* A close() that called back without an error has ended the HTTP server   *)
(* for good, with all its connections.                                     *)
THEOREM DoneCorrect == Spec => []DoneIsClosed
<1>1. IInv => DoneIsClosed
  BY DEF IInv, Once
<1> QED
  BY <1>1, InvOK, PTL
-----------------------------------------------------------------------------
(***************************************************************************)
(* The safety core of StartSettles and CloseCallsBack: whoever waits,      *)
(* waits for something that is under way.                                  *)
(***************************************************************************)
EndsInSight ==
    /\ listenCalled /\ Sockets # {} =>
          \/ listening \/ destroyed
          \/ \E s \in Socket : state[s] \in {"failed", "looking", "binding"}
    /\ \A c \in Close : closing[c] \in {"waits", "waits in vain"} => state["http"] # "none"

(* listen() leaves no socket out, and http.close() is called of an HTTP    *)
(* server only.                                                            *)
Begun ==
    /\ listenCalled /\ ~destroyed => \A s \in Socket : state[s] # "idle"
    /\ \A c \in Close : closing[c] = "waits in vain" => state["http"] # "none"

LEMMA BegunStep == IInv /\ Begun /\ [Next]_vars => Begun'
<1> SUFFICES ASSUME IInv, Begun, [Next]_vars PROVE Begun'
  OBVIOUS
<1>0. TypeOK /\ Socket = {"http", "udp4", "udp6"}
  BY DEF IInv, Socket
<1>1. CASE Listen
  BY <1>0, <1>1 DEF Listen, TypeOK, Begun
<1>2. ASSUME NEW s \in Socket, Bound(s) \/ Fails(s) PROVE Begun'
  <2>1. /\ \E v \in {"bound", "failed"} : state' = [state EXCEPT ![s] = v]
        /\ UNCHANGED <<destroyed, listenCalled, closing>>
    BY <1>2 DEF Bound, Fails
  <2>2. \A r \in Socket : state'[r] \in {state[r], "bound", "failed"}
    BY <1>0, <2>1 DEF TypeOK
  <2> QED
    <3>1. destroyed' = destroyed /\ listenCalled' = listenCalled /\ closing' = closing
      BY <2>1
    <3>2. \A r \in Socket : /\ state[r] # "idle" => state'[r] # "idle"
                            /\ state[r] # "none" => state'[r] # "none"
      BY <2>2
    <3> QED
      BY <1>0, <3>1, <3>2 DEF Begun
<1>3. CASE Connect \/ Disconnect \/ UNCHANGED vars
  <2>1. state' = state /\ destroyed' = destroyed
    BY <1>3 DEF Connect, Disconnect, vars
  <2>2. listenCalled' = listenCalled /\ closing' = closing
    BY <1>3 DEF Connect, Disconnect, vars
  <2> QED
    BY <2>1, <2>2 DEF Begun
<1>4. ASSUME NEW c \in Close, CloseServer(c) PROVE Begun'
  <2>1. /\ closing' = [closing EXCEPT ![c] = IF state["http"] = "none" THEN "done"
                                             ELSE IF Runs THEN "waits" ELSE "waits in vain"]
        /\ state'["http"] = IF Runs THEN "closed" ELSE state["http"]
        /\ destroyed'
    BY <1>0, <1>4 DEF CloseServer, CloseHttp
  <2> QED
    BY <1>0, <2>1 DEF TypeOK, Begun
<1>5. CASE Drained
  BY <1>0, <1>5 DEF Drained, TypeOK, Outcomes, Begun
<1> QED
  BY <1>1, <1>2, <1>3, <1>4, <1>5 DEF Next

(* Once listen() was called, and until the server listens or is closed, a  *)
(* socket is still being bound or has failed; and a close() that has not   *)
(* called back waits for an HTTP server, which emits 'close' in the end.   *)
THEOREM WaitsEnd == Spec => []EndsInSight
<1>1. Init => Begun
  BY DEF Init, Begun
<1>2. IInv /\ Begun => EndsInSight
  <2> SUFFICES ASSUME IInv, Begun PROVE EndsInSight
    OBVIOUS
  <2>1. ASSUME listenCalled, Sockets # {}, ~destroyed,
               \A s \in Socket : state[s] \notin {"failed", "looking", "binding"}
        PROVE  listening
    <3>1. \A s \in Socket : state[s] \in {"none", "bound"}
      BY <2>1 DEF IInv, TypeOK, States, Counted, Begun
    <3>2. \A s \in Socket : Missing(s) = 0
      BY <3>1 DEF Missing, One
    <3>3. num = 0
      BY <2>1, <3>2 DEF IInv, Counted, Socket
    <3>4. told # 0
      BY <2>1, <3>3 DEF IInv, Counted, Sockets
    <3> QED
      BY <2>1, <3>4 DEF IInv, TypeOK, Counted
  <2>2. ASSUME NEW c \in Close, closing[c] \in {"waits", "waits in vain"}
        PROVE  state["http"] # "none"
    BY <2>2 DEF IInv, Once, Begun
  <2> QED
    BY <2>1, <2>2 DEF EndsInSight
<1> QED
  BY <1>1, <1>2, InvOK, BegunStep, PTL DEF Spec
=============================================================================
