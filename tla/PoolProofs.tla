----------------------------- MODULE PoolProofs -----------------------------
(***************************************************************************)
(* The socket pool for any number of trackers and sockets: the consumers   *)
(* that _openSocket and destroy() count by hand are the trackers that are  *)
(* alive. The invariant is the conjunction of the properties that TLC      *)
(* checks, and two facts: only a tracker that is destroyed waits for its   *)
(* reconnect timer (or _openSocket would count it twice), and only         *)
(* trackers that were constructed have an announce in a queue.             *)
(***************************************************************************)
EXTENDS WebSocketTracker, FiniteSetTheorems, TLAPS

Alive == made \ destroyed

Waiting ==
    /\ timer \subseteq destroyed
    /\ \A s \in Sock : queued[s] \subseteq made

IInv == TypeOK /\ PoolCounts /\ OneLiveSocket /\ NeverForgotten /\ SendsWhenOpen /\ Waiting

(* What an action leaves of the invariant's parts that speak of flags only.*)
FlagsOK ==
    /\ gone \subseteq made /\ destroyed \subseteq made /\ made \subseteq Tracker
    /\ reconnecting \subseteq made /\ timer \subseteq made
    /\ expecting \subseteq made /\ offering \subseteq made
    /\ timer \subseteq destroyed
    /\ NeverForgotten

LEMMA InitOK == Init => IInv
<1> SUFFICES ASSUME Init PROVE IInv
  OBVIOUS
<1>1. TypeOK
  BY DEF Init, TypeOK
<1>2. PoolCounts /\ OneLiveSocket /\ NeverForgotten /\ Waiting
  BY DEF Init, PoolCounts, OneLiveSocket, NeverForgotten, Waiting
<1>3. SendsWhenOpen
  BY DEF Init, SendsWhenOpen
<1> QED
  BY <1>1, <1>2, <1>3 DEF IInv

LEMMA AliveFinite ==
    ASSUME TypeOK
    PROVE  IsFiniteSet(Alive) /\ Cardinality(Alive) \in Nat
  BY SockAssumption, FS_Subset, FS_CardinalityType DEF TypeOK, Alive

(* A tracker that was not alive comes to life.                             *)
LEMMA OpenSocketOK ==
    ASSUME IInv, NEW t \in Tracker, t \notin Alive, OpenSocket(t),
           made' = made \cup {t}, timer' = timer \ {t}
    PROVE  IInv'
<1>1. Alive' = Alive \cup {t}
  BY DEF IInv, TypeOK, OpenSocket, Alive
<1>2. IsFiniteSet(Alive) /\ Cardinality(Alive) \in Nat
      /\ Cardinality(Alive \cup {t}) = Cardinality(Alive) + 1
  BY AliveFinite, FS_AddElement DEF IInv
<1>3. FlagsOK'
  BY DEF IInv, TypeOK, OpenSocket, FlagsOK, NeverForgotten, Waiting
<1>4. \A s \in Sock : queued'[s] \subseteq made'
  BY DEF IInv, Waiting, OpenSocket
<1>5. CASE pool # NoSock
  <2>1. /\ socket' = [socket EXCEPT ![t] = pool]
        /\ consumers' = [consumers EXCEPT ![pool] = @ + 1]
        /\ UNCHANGED <<pool, state, onConnect, callback, queued>>
    BY <1>5 DEF OpenSocket
  <2>2. pool \in Sock /\ consumers[pool] = Cardinality(Alive)
    BY <1>5 DEF IInv, TypeOK, PoolCounts, Alive
  <2>3. TypeOK'
    BY <1>3, <2>1, <2>2 DEF IInv, TypeOK, FlagsOK
  <2>4. consumers'[pool'] = Cardinality(Alive')
    BY <1>1, <1>2, <2>1, <2>2 DEF IInv, TypeOK
  <2>5. PoolCounts'
    BY <1>1, <1>5, <2>1, <2>4 DEF IInv, TypeOK, PoolCounts, Alive
  <2>6. OneLiveSocket'
    BY <2>1 DEF IInv, OneLiveSocket
  <2>7. ASSUME NEW u \in offering' PROVE u \notin destroyed' /\ state'[socket'[u]] = "open"
    <3>1. CASE u \in offering
      BY <2>1, <3>1 DEF IInv, TypeOK, SendsWhenOpen, OpenSocket, Alive
    <3>2. CASE u \notin offering
      <4>1. u = t /\ state[pool] = "open" /\ destroyed' = destroyed \ {t}
        BY <1>5, <2>7, <3>2 DEF OpenSocket
      <4> QED
        BY <2>1, <4>1 DEF IInv, TypeOK
    <3> QED
      BY <3>1, <3>2
  <2> QED
    BY <1>3, <1>4, <2>3, <2>5, <2>6, <2>7 DEF IInv, FlagsOK, Waiting, SendsWhenOpen
<1>6. CASE pool = NoSock
  <2>1. PICK s \in Sock :
            /\ state[s] = "none"
            /\ socket' = [socket EXCEPT ![t] = s]
            /\ pool' = s
            /\ state' = [state EXCEPT ![s] = "connecting"]
            /\ consumers' = [consumers EXCEPT ![s] = 1]
            /\ onConnect' = [onConnect EXCEPT ![s] = {t}]
            /\ UNCHANGED <<callback, queued>>
    BY <1>6 DEF OpenSocket
  <2>2. Alive = {} /\ Cardinality(Alive) = 0
    BY <1>6, FS_EmptySet DEF IInv, PoolCounts, Alive
  <2>3. TypeOK'
    BY <1>3, <2>1 DEF IInv, TypeOK, FlagsOK
  <2>4. s # NoSock /\ consumers'[s] = Cardinality(Alive') /\ state'[s] = "connecting"
    BY <1>1, <1>2, <2>1, <2>2, SockAssumption DEF IInv, TypeOK
  <2>5. PoolCounts'
    BY <1>1, <1>6, <2>1, <2>2, <2>4 DEF IInv, TypeOK, PoolCounts, Alive
  <2>6. OneLiveSocket'
    BY <1>6, <2>1, SockAssumption DEF IInv, TypeOK, OneLiveSocket
  <2>7. offering' = {}
    BY <1>6, <2>2 DEF IInv, TypeOK, SendsWhenOpen, OpenSocket, Alive
  <2> QED
    BY <1>3, <1>4, <2>3, <2>5, <2>6, <2>7 DEF IInv, FlagsOK, Waiting, SendsWhenOpen
<1> QED
  BY <1>5, <1>6

(* All users of a live socket leave it: they are all that is alive.        *)
LEMMA AllLeave ==
    ASSUME IInv, NEW s \in Sock, state[s] \in {"connecting", "open"},
           Remove(Users(s), s), StartReconnectTimer(Users(s)),
           UNCHANGED <<made, gone>>
    PROVE  /\ s = pool /\ Users(s) = Alive
           /\ pool' = NoSock /\ destroyed' = made'
           /\ consumers' \in [Sock -> Int]
           /\ \A t \in Tracker : socket'[t] = NoSock
           /\ socket' \in [Tracker -> Sock \cup {NoSock}]
           /\ reconnecting' = reconnecting \cup Alive
           /\ timer' = timer \cup Alive
           /\ offering' = {}
<1>1. s = pool
  BY DEF IInv, OneLiveSocket
<1>2. Users(s) = Alive
  BY <1>1, SockAssumption DEF IInv, TypeOK, PoolCounts, Users, Alive
<1>3. Cardinality(Alive) \in Nat /\ consumers[s] = Cardinality(Alive)
  BY <1>1, AliveFinite, SockAssumption DEF IInv, PoolCounts, Alive
<1>4. consumers'[s] = 0 /\ consumers' \in [Sock -> Int]
  BY <1>2, <1>3 DEF IInv, TypeOK, Remove
<1>5. pool' = NoSock
  BY <1>4 DEF Remove
<1>6. socket' \in [Tracker -> Sock \cup {NoSock}] /\ \A t \in Tracker : socket'[t] = NoSock
  BY <1>2 DEF IInv, TypeOK, PoolCounts, Remove, Alive
<1>7. offering' = {}
  BY <1>2 DEF IInv, TypeOK, SendsWhenOpen, Remove, Alive
<1> QED
  BY <1>1, <1>2, <1>4, <1>5, <1>6, <1>7 DEF IInv, TypeOK, Remove, StartReconnectTimer, Alive

LEMMA FailOK ==
    ASSUME IInv, NEW s \in Sock, SocketFails(s) \/ SocketBadData(s)
    PROVE  IInv'
<1>1. /\ state[s] \in {"connecting", "open"}
      /\ Remove(Users(s), s) /\ StartReconnectTimer(Users(s))
      /\ UNCHANGED <<made, gone>>
      /\ expecting' \subseteq expecting
  BY DEF SocketFails, SocketBadData
<1>2. /\ state' \in [Sock -> {"none", "connecting", "open", "lingering", "closing"}]
      /\ state'[s] \notin {"connecting", "open"}
      /\ \A k \in Sock \ {s} : state'[k] = state[k]
      /\ callback' \in [Tracker -> Sock \cup {"none", "called"}]
      /\ onConnect' \in [Sock -> SUBSET Tracker]
      /\ queued' \in [Sock -> SUBSET Tracker]
      /\ \A k \in Sock : queued'[k] \subseteq queued[k]
  BY DEF IInv, TypeOK, SocketFails, SocketBadData, Closed
<1>3. /\ s = pool /\ Users(s) = Alive
      /\ pool' = NoSock /\ destroyed' = made'
      /\ consumers' \in [Sock -> Int]
      /\ \A t \in Tracker : socket'[t] = NoSock
      /\ socket' \in [Tracker -> Sock \cup {NoSock}]
      /\ reconnecting' = reconnecting \cup Alive
      /\ timer' = timer \cup Alive
      /\ offering' = {}
  BY <1>1, AllLeave
<1>4. FlagsOK'
  BY <1>1, <1>3 DEF IInv, TypeOK, FlagsOK, NeverForgotten, Waiting, Alive
<1>5. TypeOK'
  BY <1>2, <1>3, <1>4 DEF TypeOK, FlagsOK
<1>6. PoolCounts'
  BY <1>3 DEF PoolCounts
<1>7. OneLiveSocket'
  BY <1>2, <1>3 DEF IInv, OneLiveSocket
<1>8. \A k \in Sock : queued'[k] \subseteq made'
  BY <1>1, <1>2 DEF IInv, Waiting
<1>9. SendsWhenOpen'
  BY <1>3 DEF SendsWhenOpen
<1> QED
  BY <1>4, <1>5, <1>6, <1>7, <1>8, <1>9 DEF IInv, FlagsOK, Waiting

(* A tracker that is alive is destroyed by its client: others go on with   *)
(* the socket, or none is left.                                            *)
LEMMA DestroyOK ==
    ASSUME IInv, NEW t \in Tracker, Destroy(t)
    PROVE  IInv'
<1> DEFINE s == socket[t]
<1>1. /\ t \in Alive /\ t \notin gone
      /\ gone' = gone \cup {t} /\ timer' = timer \ {t}
      /\ destroyed' = destroyed \cup {t}
      /\ offering' = offering \ {t}
      /\ socket' = [u \in Tracker |-> IF u = t THEN NoSock ELSE socket[u]]
      /\ consumers' = [consumers EXCEPT ![s] = @ - Cardinality({t})]
      /\ pool' = IF consumers'[s] > 0 THEN pool ELSE NoSock
      /\ UNCHANGED <<made, reconnecting, expecting, queued>>
  BY DEF Destroy, Remove, Alive
<1>2. s = pool /\ pool # NoSock /\ pool \in Sock
  BY <1>1 DEF IInv, TypeOK, PoolCounts, Alive
<1>3. /\ IsFiniteSet(Alive) /\ Cardinality(Alive) \in Nat
      /\ Alive' = Alive \ {t}
      /\ Cardinality(Alive') = Cardinality(Alive) - 1
      /\ Cardinality({t}) = 1
      /\ Cardinality(Alive') \in Nat
      /\ Cardinality(Alive') = 0 => Alive' = {}
      /\ Alive' = {} => Cardinality(Alive') = 0
  <2>1. IsFiniteSet(Alive) /\ Cardinality(Alive) \in Nat
    BY AliveFinite DEF IInv
  <2>2. Alive' = Alive \ {t}
    BY <1>1 DEF Alive
  <2>3. Cardinality(Alive \ {t}) = Cardinality(Alive) - 1 /\ IsFiniteSet(Alive \ {t})
    BY <1>1, <2>1, FS_RemoveElement
  <2> QED
    BY <2>1, <2>2, <2>3, FS_Singleton, FS_EmptySet, FS_CardinalityType
<1>4. consumers[pool] = Cardinality(Alive)
  BY <1>2 DEF IInv, PoolCounts, Alive
<1>5. /\ consumers' \in [Sock -> Int]
      /\ consumers'[pool] = Cardinality(Alive')
  BY <1>1, <1>2, <1>3, <1>4 DEF IInv, TypeOK
<1>6. /\ onConnect' \in [Sock -> SUBSET Tracker]
      /\ \/ /\ consumers'[pool] > 0
            /\ callback' = [callback EXCEPT ![t] = "called"]
            /\ UNCHANGED state
         \/ /\ consumers'[pool] = 0
            /\ callback' = [callback EXCEPT ![t] = pool]
            /\ state' = [state EXCEPT ![pool] = IF t \in expecting THEN "lingering"
                                                                   ELSE "closing"]
  BY <1>2 DEF IInv, TypeOK, Destroy
<1>7. FlagsOK'
  BY <1>1 DEF IInv, TypeOK, FlagsOK, NeverForgotten, Waiting, Alive
<1> HIDE DEF s
<1>8. TypeOK'
  BY <1>1, <1>2, <1>5, <1>6, <1>7 DEF IInv, TypeOK, FlagsOK
<1>9. PoolCounts' /\ OneLiveSocket' /\ SendsWhenOpen'
  <2>1. CASE consumers'[pool] > 0
    <3>1. pool' = pool /\ state' = state /\ Alive' # {}
      BY <1>1, <1>2, <1>3, <1>5, <1>6, <2>1
    <3>2. SendsWhenOpen'
      BY <1>1, <3>1 DEF IInv, TypeOK, SendsWhenOpen
    <3> QED
      BY <1>1, <1>2, <1>5, <3>1, <3>2 DEF IInv, TypeOK, PoolCounts, OneLiveSocket, Alive
  <2>2. CASE consumers'[pool] = 0
    <3>1. pool' = NoSock /\ Alive' = {}
      BY <1>1, <1>2, <1>3, <1>5, <2>2
    <3>2. \A u \in Tracker : socket'[u] = NoSock
      BY <1>1, <3>1 DEF IInv, TypeOK, PoolCounts, Alive
    <3>3. \A k \in Sock : state'[k] \notin {"connecting", "open"}
      BY <1>2, <1>6, <2>2 DEF IInv, TypeOK, OneLiveSocket
    <3>4. offering' = {}
      BY <1>1, <3>1 DEF IInv, TypeOK, SendsWhenOpen, Alive
    <3> QED
      BY <3>1, <3>2, <3>3, <3>4 DEF PoolCounts, OneLiveSocket, SendsWhenOpen, Alive
  <2> QED
    BY <1>6, <2>1, <2>2
<1> QED
  BY <1>1, <1>7, <1>8, <1>9 DEF IInv, FlagsOK, Waiting

(* 'close' of a socket that is not in the pool.                            *)
LEMMA CloseOK ==
    ASSUME IInv, NEW s \in Sock, SocketClosed(s) \/ LingerEnds(s)
    PROVE  IInv'
<1>1. /\ state[s] \in {"lingering", "closing"}
      /\ state' = [state EXCEPT ![s] = "none"] \/ state' = [state EXCEPT ![s] = "closing"]
      /\ UNCHANGED <<flags, socket, pool, consumers>>
      /\ callback' \in [Tracker -> Sock \cup {"none", "called"}]
      /\ onConnect' \in [Sock -> SUBSET Tracker]
      /\ queued' \in [Sock -> SUBSET Tracker]
      /\ \A k \in Sock : queued'[k] \subseteq queued[k]
  BY DEF IInv, TypeOK, SocketClosed, LingerEnds, Closed
<1>2. /\ \A k \in Sock : state'[k] \in {"connecting", "open"} <=> state[k] \in {"connecting", "open"}
      /\ state' \in [Sock -> {"none", "connecting", "open", "lingering", "closing"}]
  BY <1>1 DEF IInv, TypeOK
<1>3. TypeOK'
  BY <1>1, <1>2 DEF IInv, TypeOK, flags
<1>4. PoolCounts' /\ OneLiveSocket'
  BY <1>1, <1>2 DEF IInv, TypeOK, PoolCounts, OneLiveSocket, flags
<1>5. NeverForgotten' /\ Waiting'
  BY <1>1 DEF IInv, NeverForgotten, Waiting, flags
<1>6. SendsWhenOpen'
  <2> SUFFICES ASSUME NEW t \in offering PROVE t \notin destroyed /\ state'[socket[t]] = "open"
    BY <1>1 DEF SendsWhenOpen, flags
  <2>1. t \in Alive /\ state[socket[t]] = "open"
    BY DEF IInv, TypeOK, SendsWhenOpen, Alive
  <2>2. socket[t] \in Sock /\ socket[t] # s
    BY <1>1, <2>1 DEF IInv, TypeOK, PoolCounts, Alive
  <2> QED
    BY <1>1, <2>1, <2>2 DEF IInv, TypeOK, Alive
<1> QED
  BY <1>3, <1>4, <1>5, <1>6 DEF IInv

LEMMA ConnectOK ==
    ASSUME IInv, NEW s \in Sock, SocketConnects(s)
    PROVE  IInv'
<1> DEFINE back == (onConnect[s] \cap reconnecting) \ destroyed
           called == (queued[s] \ destroyed) \ (reconnecting \ back)
<1>1. /\ state[s] = "connecting"
      /\ state' = [state EXCEPT ![s] = "open"]
      /\ reconnecting' = reconnecting \ back
      /\ offering' = offering \cup back \cup called
      /\ onConnect' = [onConnect EXCEPT ![s] = {}]
      /\ queued' = [queued EXCEPT ![s] = {}]
      /\ UNCHANGED <<made, gone, destroyed, timer, expecting, socket, callback, pool, consumers>>
  BY DEF SocketConnects
<1>2. back \cap destroyed = {} /\ back \subseteq made /\ called \subseteq made
  BY DEF IInv, TypeOK, Waiting
<1> HIDE DEF back, called
<1>3. TypeOK'
  BY <1>1, <1>2 DEF IInv, TypeOK
<1>4. PoolCounts' /\ OneLiveSocket'
  BY <1>1 DEF IInv, TypeOK, PoolCounts, OneLiveSocket
<1>5. NeverForgotten' /\ Waiting'
  BY <1>1, <1>2 DEF IInv, TypeOK, NeverForgotten, Waiting
<1>6. SendsWhenOpen'
  <2>1. s = pool /\ pool # NoSock
    BY <1>1, SockAssumption DEF IInv, OneLiveSocket
  <2>2. \A t \in made \ destroyed : state'[socket'[t]] = "open"
    BY <1>1, <2>1 DEF IInv, TypeOK, PoolCounts
  <2>3. called \cap destroyed = {}
    BY DEF called
  <2> QED
    BY <1>1, <1>2, <2>2, <2>3 DEF IInv, TypeOK, SendsWhenOpen
<1> QED
  BY <1>3, <1>4, <1>5, <1>6 DEF IInv

LEMMA StepOK == IInv /\ [Next]_vars => IInv'
<1> SUFFICES ASSUME IInv, [Next]_vars PROVE IInv'
  OBVIOUS
<1>1. ASSUME NEW t \in Tracker, Construct(t) PROVE IInv'
  <2>1. t \notin Alive /\ t \notin timer
    BY <1>1 DEF Construct, IInv, TypeOK, Alive
  <2> QED
    BY <1>1, <2>1, OpenSocketOK DEF Construct
<1>2. ASSUME NEW t \in Tracker, Reconnect(t) PROVE IInv'
  <2>1. t \in made /\ t \notin Alive
    BY <1>2 DEF Reconnect, IInv, TypeOK, Waiting, Alive
  <2> QED
    BY <1>2, <2>1, OpenSocketOK DEF Reconnect
<1>3. ASSUME NEW t \in Tracker, Announce(t) PROVE IInv'
  <2>1. /\ t \in made
        /\ t \notin destroyed
        /\ offering' \in {offering, offering \cup {t}}
        /\ state[socket[t]] # "open" => offering' = offering
        /\ queued' \in {queued, [queued EXCEPT ![socket[t]] = @ \cup {t}]}
        /\ UNCHANGED <<made, gone, destroyed, reconnecting, timer, expecting,
                       socket, callback, pool, state, consumers, onConnect>>
    BY <1>3 DEF Announce
  <2>2. queued' \in [Sock -> SUBSET Tracker] /\ \A s \in Sock : queued'[s] \subseteq made
    BY <2>1 DEF IInv, TypeOK, Waiting
  <2>3. SendsWhenOpen'
    BY <2>1 DEF IInv, SendsWhenOpen
  <2> QED
    BY <2>1, <2>2, <2>3 DEF IInv, TypeOK, PoolCounts, OneLiveSocket, NeverForgotten, Waiting
<1>4. ASSUME NEW t \in Tracker, Send(t) PROVE IInv'
  BY <1>4 DEF Send, IInv, TypeOK, PoolCounts, OneLiveSocket, NeverForgotten, SendsWhenOpen,
              Waiting
<1>5. ASSUME NEW t \in Tracker, DestroyEarlyReturn(t) PROVE IInv'
  BY <1>5 DEF DestroyEarlyReturn, IInv, TypeOK, PoolCounts, OneLiveSocket, NeverForgotten,
              SendsWhenOpen, Waiting, sockets
<1>6. ASSUME NEW t \in Tracker, Destroy(t) PROVE IInv'
  BY <1>6, DestroyOK
<1>7. ASSUME NEW s \in Sock, SocketConnects(s) PROVE IInv'
  BY <1>7, ConnectOK
<1>8. ASSUME NEW s \in Sock, SocketFails(s) \/ SocketBadData(s) PROVE IInv'
  BY <1>8, FailOK
<1>9. ASSUME NEW s \in Sock, SocketData(s) PROVE IInv'
  BY <1>9 DEF SocketData, IInv, TypeOK, PoolCounts, OneLiveSocket, NeverForgotten,
              SendsWhenOpen, Waiting
<1>10. ASSUME NEW s \in Sock, SocketClosed(s) \/ LingerEnds(s) PROVE IInv'
  BY <1>10, CloseOK
<1>11. CASE UNCHANGED vars
  BY <1>11 DEF vars, flags, sockets, IInv, TypeOK, PoolCounts, OneLiveSocket, NeverForgotten,
               SendsWhenOpen, Waiting
<1> QED
  BY <1>1, <1>2, <1>3, <1>4, <1>5, <1>6, <1>7, <1>8, <1>9, <1>10, <1>11 DEF Next

LEMMA InvOK == Spec => []IInv
  BY InitOK, StepOK, PTL DEF Spec

(* The consumers of the pooled socket are the trackers that are alive, all *)
(* of them on this socket, however they are created, fail, reconnect and   *)
(* are destroyed; so the last of them, and no other, destroys the socket.  *)
THEOREM CountsCorrect == Spec => []PoolCounts
<1>1. IInv => PoolCounts
  BY DEF IInv
<1> QED
  BY <1>1, InvOK, PTL

(* No socket that is up or coming up is outside the pool.                  *)
THEOREM NoSocketLeaks == Spec => []OneLiveSocket
<1>1. IInv => OneLiveSocket
  BY DEF IInv
<1> QED
  BY <1>1, InvOK, PTL

(* Every tracker that lost its socket and was not destroyed by its client  *)
(* has its reconnect timer armed.                                          *)
THEOREM NobodyForgotten == Spec => []NeverForgotten
<1>1. IInv => NeverForgotten
  BY DEF IInv
<1> QED
  BY <1>1, InvOK, PTL

(* The offers of an announce are ready only while their tracker is on an   *)
(* open socket, whatever happened since announce() was called.             *)
THEOREM SendsCorrect == Spec => []SendsWhenOpen
<1>1. IInv => SendsWhenOpen
  BY DEF IInv
<1> QED
  BY <1>1, InvOK, PTL

(* The variables of the trackers and of the pool have their types.         *)
THEOREM TypeCorrect == Spec => []TypeOK
<1>1. IInv => TypeOK
  BY DEF IInv
<1> QED
  BY <1>1, InvOK, PTL
-----------------------------------------------------------------------------
(***************************************************************************)
(* The safety core of DestroyCallsBack: a destroy() that has not called    *)
(* back waits for a socket on its way to 'close', and nobody else is       *)
(* called back.                                                            *)
(***************************************************************************)
Doomed(k, st) == k \in Sock /\ st[k] \in {"lingering", "closing"}
CallbackDue ==
    /\ \A t \in gone : callback[t] = "called" \/ Doomed(callback[t], state)
    /\ \A t \in Tracker \ gone : callback[t] = "none"

(* Sockets on their way to 'close' stay on it until they emit it.          *)
LEMMA DueKept ==
    ASSUME CallbackDue, UNCHANGED <<gone, callback>>,
           \A k \in Sock : Doomed(k, state) => Doomed(k, state')
    PROVE  CallbackDue'
  BY DEF CallbackDue, Doomed

(* 'close' of a socket: those that waited for it are called back.          *)
LEMMA DueClosed ==
    ASSUME TypeOK, CallbackDue, NEW s \in Sock, Closed(s), UNCHANGED gone
    PROVE  CallbackDue'
<1>1. /\ state' = [state EXCEPT ![s] = "none"]
      /\ callback' = [t \in Tracker |-> IF callback[t] = s THEN "called" ELSE callback[t]]
  BY DEF Closed
<1>2. ASSUME NEW t \in gone PROVE callback'[t] = "called" \/ Doomed(callback'[t], state')
  BY <1>1 DEF TypeOK, CallbackDue, Doomed
<1>3. ASSUME NEW t \in Tracker \ gone PROVE callback'[t] = "none"
  BY <1>1, SockAssumption DEF CallbackDue
<1> QED
  BY <1>2, <1>3 DEF CallbackDue

LEMMA DueStep == TypeOK /\ PoolCounts /\ CallbackDue /\ [Next]_vars => CallbackDue'
<1> SUFFICES ASSUME TypeOK, PoolCounts, CallbackDue, [Next]_vars PROVE CallbackDue'
  OBVIOUS
<1>1. ASSUME NEW t \in Tracker, Construct(t) \/ Reconnect(t) PROVE CallbackDue'
  <2>1. /\ UNCHANGED <<gone, callback>>
        /\ \/ UNCHANGED state
           \/ \E s \in Sock : /\ state[s] = "none"
                              /\ state' = [state EXCEPT ![s] = "connecting"]
    BY <1>1 DEF Construct, Reconnect, OpenSocket
  <2> QED
    BY <2>1, DueKept DEF TypeOK, Doomed
<1>2. ASSUME NEW t \in Tracker, Announce(t) \/ Send(t) PROVE CallbackDue'
  BY <1>2, DueKept DEF Announce, Send
<1>3. ASSUME NEW t \in Tracker, DestroyEarlyReturn(t) PROVE CallbackDue'
  BY <1>3 DEF DestroyEarlyReturn, sockets, TypeOK, CallbackDue
<1>4. ASSUME NEW t \in Tracker, Destroy(t) PROVE CallbackDue'
  <2>1. socket[t] = pool /\ pool # NoSock
    BY <1>4 DEF Destroy, PoolCounts
  <2>2. /\ pool \in Sock /\ gone' = gone \cup {t}
        /\ \/ callback' = [callback EXCEPT ![t] = "called"] /\ UNCHANGED state
           \/ /\ callback' = [callback EXCEPT ![t] = pool]
              /\ state' = [state EXCEPT ![pool] = IF t \in expecting THEN "lingering"
                                                                     ELSE "closing"]
    BY <1>4, <2>1 DEF Destroy, TypeOK
  <2>3. \A k \in Sock : Doomed(k, state) => Doomed(k, state')
    BY <2>2 DEF TypeOK, Doomed
  <2>4. callback'[t] = "called" \/ Doomed(callback'[t], state')
    BY <2>2 DEF TypeOK, Doomed
  <2>5. \A u \in Tracker \ {t} : callback'[u] = callback[u]
    BY <2>2 DEF TypeOK
  <2>6. gone \subseteq Tracker /\ gone' = gone \cup {t}
    BY <2>2 DEF TypeOK
  <2> HIDE DEF Doomed
  <2>7. ASSUME NEW u \in gone' PROVE callback'[u] = "called" \/ Doomed(callback'[u], state')
    <3>1. CASE u = t
      BY <2>4, <3>1
    <3>2. CASE u # t
      <4>1. u \in gone /\ callback'[u] = callback[u]
        BY <2>5, <2>6, <2>7, <3>2
      <4>2. callback[u] = "called" \/ Doomed(callback[u], state)
        BY <4>1 DEF CallbackDue
      <4>3. Doomed(callback[u], state) => callback[u] \in Sock
        BY DEF Doomed
      <4> QED
        BY <2>3, <4>1, <4>2, <4>3
    <3> QED
      BY <3>1, <3>2
  <2> QED
    BY <2>5, <2>6, <2>7 DEF CallbackDue
<1>5. ASSUME NEW s \in Sock, SocketFails(s) \/ SocketClosed(s) PROVE CallbackDue'
  BY <1>5, DueClosed DEF SocketFails, SocketClosed, flags
<1>6. ASSUME NEW s \in Sock, SocketConnects(s) \/ SocketBadData(s) \/ LingerEnds(s)
      PROVE  CallbackDue'
  <2>1. /\ UNCHANGED <<gone, callback>>
        /\ \/ state[s] \in {"connecting", "open"}
           \/ state'[s] = "closing"
        /\ state' \in {[state EXCEPT ![s] = "open"], [state EXCEPT ![s] = "closing"]}
    BY <1>6 DEF SocketConnects, SocketBadData, LingerEnds, flags, TypeOK
  <2> QED
    BY <2>1, DueKept DEF TypeOK, Doomed
<1>7. ASSUME NEW s \in Sock, SocketData(s) PROVE CallbackDue'
  BY <1>7, DueKept DEF SocketData
<1>8. CASE UNCHANGED vars
  BY <1>8, DueKept DEF vars, flags, sockets
<1> QED
  BY <1>1, <1>2, <1>3, <1>4, <1>5, <1>6, <1>7, <1>8 DEF Next

(* A tracker whose client destroyed it has called back, or waits for a     *)
(* socket that is lingering or closing, however many trackers share the    *)
(* socket and whatever fails; 'close' of that socket is all it needs.      *)
THEOREM CallbacksDue == Spec => []CallbackDue
<1>1. Init => CallbackDue
  BY DEF Init, CallbackDue
<1>2. IInv => TypeOK /\ PoolCounts
  BY DEF IInv
<1> QED
  BY <1>1, <1>2, InvOK, DueStep, PTL DEF Spec
=============================================================================
