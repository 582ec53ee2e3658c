----------------------------- MODULE UdpProofs -----------------------------
(***************************************************************************)
(* Proofs about UdpTracker, for any number of requests, with and without a *)
(* SOCKS proxy, and about the packets that it exchanges with the server.   *)
(***************************************************************************)
EXTENDS UdpTracker, Codec, TLAPS

(* What is registered has begun and, with no proxy, is what has a socket.  *)
(* The tracker answers second datagrams only, and a request that gave an   *)
(* answer had one.                                                         *)
IInv ==
    /\ TypeOK
    /\ CleanupTracked
    /\ AnswerIsForRequest
    /\ \A r \in cleanupFns : phase[r] # "new"
    /\ \A r \in Req : phase[r] = "socks" => socks
    /\ stage = "gone" => cleanupFns = {}
    /\ stage = "leaving" => cleanupFns # {}
    /\ \A m \in net : m.to = "client" /\ m.action = "answer" => m.id = "request"

LEMMA InitInv == Init => IInv
BY DEF Init, IInv, TypeOK, CleanupTracked, AnswerIsForRequest, HasSocket, Kind

(* Finish takes the invariant to the next state, whatever the event.       *)
LEMMA CleanupInv ==
    ASSUME IInv, NEW r \in Req, phase[r] \in {"socks", "connect", "request"},
           Cleanup(r), UNCHANGED <<socks, kind>>
    PROVE  /\ phase' \in [Req -> {"new", "socks", "connect", "request", "done"}]
           /\ cleanupFns' \subseteq Req
           /\ stage' \in {"alive", "leaving", "gone"}
           /\ CleanupTracked'
           /\ \A q \in cleanupFns' : phase'[q] # "new"
           /\ \A q \in Req : phase'[q] = "socks" => socks'
           /\ stage' = "gone" => cleanupFns' = {}
           /\ stage' = "leaving" => cleanupFns' # {}
BY DEF IInv, TypeOK, Cleanup, CleanupTracked, HasSocket

(* The requests whose datagrams are answered have a socket.                *)
LEMMA ArrivesFacts ==
    ASSUME IInv, NEW m \in net, NEW action, Arrives(m, action)
    PROVE  m.req \in Req /\ phase[m.req] \in {"connect", "request"}
BY DEF IInv, TypeOK, Datagram, Arrives, HasSocket

LEMMA StepInv == IInv /\ [Next]_vars => IInv'
<1> SUFFICES ASSUME IInv, [Next]_vars PROVE IInv'
  OBVIOUS
<1> USE DEF HasSocket, destroyed
<1>1. ASSUME NEW r \in Req, NEW k \in Kind, Request(r, k) PROVE IInv'
  BY <1>1 DEF IInv, TypeOK, CleanupTracked, AnswerIsForRequest, Request, Open,
              Sent, Datagram
<1>2. ASSUME NEW r \in Req, SocksConnects(r) PROVE IInv'
  BY <1>2 DEF IInv, TypeOK, CleanupTracked, AnswerIsForRequest, SocksConnects,
              Open, Sent, Datagram
<1>3. ASSUME NEW r \in Req, SocksFails(r) PROVE IInv'
  <2>1. Cleanup(r) /\ phase[r] = "socks" /\ UNCHANGED <<socks, kind>>
    BY <1>3 DEF SocksFails, Finish
  <2>2. CleanupTracked' /\ stage' \in {"alive", "leaving", "gone"}
    BY <2>1, CleanupInv
  <2> QED
    BY <1>3, <2>1, <2>2, CleanupInv
    DEF IInv, TypeOK, AnswerIsForRequest, SocksFails, Finish
<1>4. ASSUME NEW r \in Req, SocketFails(r) \/ TimesOut(r) PROVE IInv'
  <2>1. Cleanup(r) /\ HasSocket(r) /\ UNCHANGED <<socks, kind, interval, net>>
    BY <1>4 DEF SocketFails, TimesOut, Finish
  <2>2. /\ emitted' \in {emitted, [emitted EXCEPT ![r] = {"warning"}]}
        /\ reporting' \in {reporting, {r}}
    BY <1>4 DEF SocketFails, TimesOut, Finish
  <2> QED
    BY <2>1, <2>2, CleanupInv DEF IInv, TypeOK, AnswerIsForRequest
<1>5. ASSUME NEW m \in net, Handshake(m) PROVE IInv'
  <2>1. m.req \in Req /\ phase[m.req] \in {"connect", "request"}
    BY <1>5, ArrivesFacts DEF Handshake
  <2> QED
    BY <1>5, <2>1 DEF IInv, TypeOK, CleanupTracked, AnswerIsForRequest, Handshake,
                      Sent, Datagram
<1>6. ASSUME NEW m \in net, Answer(m) PROVE IInv'
  <2>1. m.req \in Req /\ phase[m.req] \in {"connect", "request"}
    BY <1>6, ArrivesFacts DEF Answer
  <2>2. Cleanup(m.req) /\ UNCHANGED <<socks, kind, net>>
    BY <1>6 DEF Answer, Finish
  <2>3. /\ \/ UNCHANGED emitted
           \/ \E event \in {"update", "scrape"} : emitted' = [emitted EXCEPT ![m.req] = {event}]
        /\ reporting' \in {reporting, {m.req}}
        /\ interval' \in BOOLEAN
    BY <1>6 DEF IInv, TypeOK, Answer, Finish
  <2>4. m.to = "client" /\ m.id = "request" /\ m.action = "answer"
    BY <1>6 DEF IInv, Answer, Arrives
  <2> QED
    BY <2>1, <2>2, <2>3, <2>4, CleanupInv DEF IInv, TypeOK, AnswerIsForRequest
<1>7. ASSUME NEW m \in net, ErrorReply(m) \/ InvalidTransactionId(m) PROVE IInv'
  <2>1. m.req \in Req /\ phase[m.req] \in {"connect", "request"}
    BY <1>7 DEF IInv, TypeOK, Datagram, ErrorReply, InvalidTransactionId, Arrives
  <2>2. Cleanup(m.req) /\ UNCHANGED <<socks, kind, interval, net>>
    BY <1>7 DEF ErrorReply, InvalidTransactionId, Finish
  <2>3. /\ emitted' \in {emitted, [emitted EXCEPT ![m.req] = {"warning"}]}
        /\ reporting' \in {reporting, {m.req}}
    BY <1>7 DEF ErrorReply, InvalidTransactionId, Finish
  <2> QED
    BY <2>1, <2>2, <2>3, CleanupInv DEF IInv, TypeOK, AnswerIsForRequest
<1>8. ASSUME NEW m \in net, TrackerReplies(m) PROVE IInv'
  <2>1. PICK action \in {"error", IF m.id = "connect" THEN "handshake" ELSE "answer"} :
           net' = net \cup {Reply(m, action)}
    BY <1>8 DEF TrackerReplies
  <2>2. m.req \in Req /\ m.id \in {"connect", "request"}
    BY DEF IInv, TypeOK, Datagram
  <2>3. /\ Reply(m, action) \in Datagram
        /\ Reply(m, action).action = "answer" => Reply(m, action).id = "request"
    BY <2>1, <2>2 DEF Reply, Datagram
  <2> QED
    BY <1>8, <2>1, <2>3
    DEF IInv, TypeOK, CleanupTracked, AnswerIsForRequest, TrackerReplies
<1>9. ASSUME SetInterval \/ Destroy PROVE IInv'
  <2>1. /\ UNCHANGED <<socks, kind, phase, cleanupFns, emitted, reporting, net>>
        /\ interval' \in BOOLEAN
        /\ stage' \in {"alive", "leaving", "gone"}
        /\ stage' = "gone" => cleanupFns = {}
        /\ stage' = "leaving" => cleanupFns # {}
    BY <1>9 DEF IInv, TypeOK, SetInterval, Destroy
  <2> QED
    BY <2>1 DEF IInv, TypeOK, CleanupTracked, AnswerIsForRequest
<1>10. ASSUME DestroyTimeout PROVE IInv'
  BY <1>10 DEF IInv, TypeOK, CleanupTracked, AnswerIsForRequest, DestroyTimeout
<1>11. ASSUME NEW r \in Req, ReportsOn(r) PROVE IInv'
  BY <1>11 DEF IInv, TypeOK, CleanupTracked, AnswerIsForRequest, ReportsOn
<1>12. ASSUME Returns \/ UNCHANGED vars PROVE IInv'
  BY <1>12 DEF IInv, TypeOK, CleanupTracked, AnswerIsForRequest, Returns, vars
<1> QED
  BY <1>1, <1>2, <1>3, <1>4, <1>5, <1>6, <1>7, <1>8, <1>9, <1>10, <1>11, <1>12 DEF Next

-----------------------------------------------------------------------------
(* Without a proxy, requests are registered exactly while they have a      *)
(* socket, whatever the network and destroy() do.                          *)
THEOREM CleanupCorrect == Spec => []CleanupTracked
<1>1. IInv => CleanupTracked
  BY DEF IInv
<1> QED
  BY <1>1, InitInv, StepInv, PTL DEF Spec

(* A request gives an answer only if the tracker answered its second       *)
(* datagram, whatever the network loses, repeats or delays.                *)
THEOREM AnswersCorrect == Spec => []AnswerIsForRequest
<1>1. IInv => AnswerIsForRequest
  BY DEF IInv
<1> QED
  BY <1>1, InitInv, StepInv, PTL DEF Spec

(* Whatever is under way, in the proxy or over a socket, is registered     *)
(* until destroy() has called back.                                        *)
Registered ==
    stage # "gone" =>
        {r \in Req : phase[r] \in {"socks", "connect", "request"}} \subseteq cleanupFns

LEMMA RegisteredStep == IInv /\ Registered /\ [Next]_vars => Registered'
<1> SUFFICES ASSUME IInv, Registered, [Next]_vars PROVE Registered'
  OBVIOUS
<1> USE DEF HasSocket
<1>1. ASSUME NEW r \in Req, NEW k \in Kind, Request(r, k) PROVE Registered'
  BY <1>1 DEF IInv, TypeOK, Registered, Request, Open
<1>2. ASSUME NEW r \in Req, SocksConnects(r) PROVE Registered'
  BY <1>2 DEF IInv, TypeOK, Registered, SocksConnects, Open
<1>3. ASSUME NEW r \in Req, Cleanup(r) PROVE Registered'
  BY <1>3 DEF IInv, TypeOK, Registered, Cleanup
<1>4. ASSUME NEW m \in net, Answer(m) \/ ErrorReply(m) \/ InvalidTransactionId(m)
      PROVE  Registered'
  <2>1. m.req \in Req /\ Cleanup(m.req)
    BY <1>4 DEF IInv, TypeOK, Datagram, Arrives, Answer, ErrorReply, InvalidTransactionId, Finish
  <2> QED
    BY <1>3, <2>1
<1>5. ASSUME NEW m \in net, Handshake(m) PROVE Registered'
  <2>1. m.req \in Req /\ phase[m.req] \in {"connect", "request"}
    BY <1>5, ArrivesFacts DEF Handshake
  <2> QED
    BY <1>5, <2>1 DEF IInv, TypeOK, Registered, Handshake
<1>6. ASSUME NEW m \in net, TrackerReplies(m) PROVE Registered'
  BY <1>6 DEF Registered, TrackerReplies
<1>7. ASSUME \/ SetInterval \/ DestroyTimeout \/ Returns \/ UNCHANGED vars
             \/ \E r \in Req : ReportsOn(r)
      PROVE  Registered'
  BY <1>7 DEF Registered, SetInterval, DestroyTimeout, Returns, ReportsOn, vars
<1>8. ASSUME Destroy PROVE Registered'
  BY <1>8 DEF Registered, Destroy, destroyed
<1>9. ASSUME NEW r \in Req, SocksFails(r) \/ SocketFails(r) \/ TimesOut(r) PROVE Registered'
  BY <1>3, <1>9 DEF SocksFails, SocketFails, TimesOut, Finish
<1> QED
  BY <1>1, <1>2, <1>4, <1>5, <1>6, <1>7, <1>8, <1>9 DEF Next

(* With a proxy, too, destroy() forgets no request while it waits, and     *)
(* only a SOCKS connection that completes after its callback can leave a   *)
(* socket behind: NothingLeftBehind holds of clients without a proxy.      *)
THEOREM RegisteredUntilGone ==
    Spec => [](Registered /\ (socks \/ NothingLeftBehind))
<1>1. Init => Registered
  BY DEF Init, Registered
<1>2. IInv => socks \/ NothingLeftBehind
  BY DEF IInv, CleanupTracked, NothingLeftBehind
<1> QED
  BY <1>1, <1>2, InitInv, StepInv, RegisteredStep, PTL DEF Spec

(* A request that is not done has given no event, one that is done has     *)
(* given one report or a part of it, and the interval timer is off once    *)
(* destroy() was called.                                                   *)
Silent ==
    /\ \A r \in Req : phase[r] # "done" => emitted[r] = {}
    /\ \A r \in Req : emitted[r] \in Reports(kind[r])
    /\ destroyed => ~interval

(* What a request of kind k may be reported by at first.                   *)
First(k) == {"warning", IF k = "scrape" THEN "scrape" ELSE "update"}

(* Cleanup of the last request may end destroy() but never starts it.      *)
LEMMA FinishStep ==
    ASSUME IInv, Silent, NEW r \in Req, phase[r] # "done", UNCHANGED kind,
           NEW event \in First(kind[r]),
           \/ Finish(r, event)
           \/ Cleanup(r) /\ UNCHANGED <<emitted, reporting>>,
           interval' = interval \/ (~destroyed /\ interval' \in BOOLEAN)
    PROVE  Silent' /\ ReportStep
<1>1. /\ destroyed' <=> destroyed
      /\ phase' = [phase EXCEPT ![r] = "done"]
      /\ emitted[r] = {}
  BY DEF Silent, Finish, Cleanup, destroyed
<1>2. \/ UNCHANGED emitted
      \/ ~destroyed /\ emitted' = [emitted EXCEPT ![r] = {event}]
  BY DEF Finish
<1>3. {event} \in Reports(kind[r])
  BY DEF First, Reports
<1>4. \A q \in Req : /\ phase'[q] # "done" => emitted'[q] = {}
                     /\ emitted'[q] \in Reports(kind'[q])
                     /\ emitted'[q] # emitted[q] => emitted[q] = {} /\ ~destroyed
  BY <1>1, <1>2, <1>3 DEF IInv, TypeOK, Silent
<1>5. destroyed' => ~interval'
  BY <1>1 DEF Silent
<1> QED
  BY <1>1, <1>4, <1>5 DEF Silent, ReportStep

LEMMA ReportInv == IInv /\ Silent /\ [Next]_vars => Silent' /\ (ReportStep \/ UNCHANGED vars)
<1> SUFFICES ASSUME IInv, Silent, [Next]_vars
             PROVE  Silent' /\ (ReportStep \/ UNCHANGED vars)
  OBVIOUS
<1> USE DEF HasSocket
<1>1. ASSUME NEW r \in Req, \/ \E k \in Kind : Request(r, k)
                            \/ SocksConnects(r)
      PROVE  Silent' /\ ReportStep
  BY <1>1 DEF IInv, TypeOK, Silent, Reports, ReportStep, Request, SocksConnects, Open, destroyed
<1>2. ASSUME NEW r \in Req, SocksFails(r) \/ SocketFails(r) \/ TimesOut(r)
      PROVE  Silent' /\ ReportStep
  BY <1>2, FinishStep DEF First, SocksFails, SocketFails, TimesOut
<1>3. ASSUME NEW m \in net, Handshake(m)
      PROVE  Silent' /\ ReportStep
  <2>1. m.req \in Req /\ phase[m.req] \in {"connect", "request"}
    BY <1>3, ArrivesFacts DEF Handshake
  <2> QED
    BY <1>3, <2>1 DEF IInv, TypeOK, Silent, ReportStep, Handshake, destroyed
<1>4. ASSUME NEW m \in net, Answer(m) \/ ErrorReply(m) \/ InvalidTransactionId(m)
      PROVE  Silent' /\ ReportStep
  <2>1. m.req \in Req /\ phase[m.req] # "done"
    BY <1>4 DEF IInv, TypeOK, Datagram, Answer, ErrorReply, InvalidTransactionId, Arrives
  <2>2. /\ \E event \in First(kind[m.req]) : Finish(m.req, event)
        /\ interval' = interval \/ (~destroyed /\ interval' \in BOOLEAN)
        /\ UNCHANGED kind
    BY <1>4 DEF IInv, TypeOK, First, Answer, ErrorReply, InvalidTransactionId
  <2> QED
    BY <2>1, <2>2, FinishStep
<1>5. ASSUME \/ \E m \in net : TrackerReplies(m)
             \/ SetInterval \/ Destroy \/ DestroyTimeout \/ Returns
      PROVE  Silent' /\ ReportStep
  BY <1>5 DEF IInv, TypeOK, Silent, ReportStep, TrackerReplies, SetInterval, Destroy,
              DestroyTimeout, Returns, destroyed
<1>6. ASSUME NEW r \in Req, ReportsOn(r) PROVE Silent' /\ ReportStep
  <2>1. PICK event \in {"peer", "warning"} : emitted' = [emitted EXCEPT ![r] = {"update", event}]
    BY <1>6 DEF ReportsOn
  <2>2. kind[r] # "scrape" /\ phase[r] = "done" /\ {"update", event} \in Reports(kind[r])
    BY <1>6 DEF Silent, Reports, ReportsOn
  <2> QED
    BY <1>6, <2>1, <2>2 DEF IInv, TypeOK, Silent, ReportStep, ReportsOn, destroyed
<1>7. ASSUME UNCHANGED vars PROVE Silent'
  BY <1>7 DEF Silent, vars, destroyed
<1> QED
  BY <1>1, <1>2, <1>3, <1>4, <1>5, <1>6, <1>7 DEF Next

(* A request is reported once, by the events of one failure or one reply,  *)
(* whatever the network and its timeout do. No report begins and no        *)
(* interval timer runs once destroy() was called, though requests go on.   *)
THEOREM ReportsCorrect == Spec => OneReport
<1>1. Init => Silent
  BY DEF Init, Silent, Reports, destroyed
<1>2. IInv /\ Silent /\ [Next]_vars =>
        Silent' /\ [ReportStep]_vars
  BY ReportInv
<1> QED
  BY <1>1, <1>2, InitInv, StepInv, PTL DEF Spec, OneReport

-----------------------------------------------------------------------------
(* Seen from the registered cleanup functions, every step is a step of     *)
(* Teardown or none: destroy() calls back once, as soon as no request is   *)
(* registered, or when DESTROY_TIMEOUT is over.                            *)
THEOREM TeardownCorrect == Spec => Contract!Safety
<1>1. Init => Contract!Init
  BY DEF Init, Contract!Init
<1>2. ASSUME IInv, Next PROVE Contract!Next \/ UNCHANGED Contract!vars
  <2> USE DEF Contract!Next, Contract!vars, HasSocket, destroyed
  <2>1. ASSUME NEW r \in Req, NEW k \in Kind, Request(r, k)
        PROVE  Contract!Begin(r)
    BY <1>2, <2>1 DEF IInv, TypeOK, Request, Contract!Begin
  <2>2. ASSUME NEW r \in Req, Cleanup(r)
        PROVE  Contract!End(r) \/ UNCHANGED Contract!vars
    BY <1>2, <2>2 DEF IInv, TypeOK, Cleanup, Contract!End
  <2>3. ASSUME NEW m \in net, Answer(m) \/ ErrorReply(m) \/ InvalidTransactionId(m)
        PROVE  m.req \in Req /\ Cleanup(m.req)
    BY <1>2, <2>3 DEF IInv, TypeOK, Datagram, Answer, ErrorReply,
                      InvalidTransactionId, Finish
  <2>4. ASSUME Destroy PROVE Contract!Leave
    BY <1>2, <2>4 DEF IInv, TypeOK, Destroy, Contract!Leave
  <2>5. ASSUME DestroyTimeout PROVE Contract!Force
    BY <2>5 DEF DestroyTimeout, Contract!Force
  <2> QED
    BY <1>2, <2>1, <2>2, <2>3, <2>4, <2>5
    DEF Next, SocksConnects, SocksFails, SocketFails, TimesOut, Finish, Handshake,
        TrackerReplies, SetInterval, ReportsOn, Returns
<1>3. UNCHANGED vars => UNCHANGED Contract!vars
  BY DEF vars, Contract!vars
<1> QED
  BY <1>1, <1>2, <1>3, InitInv, StepInv, PTL DEF Spec, Contract!Safety

-----------------------------------------------------------------------------
(* 64-bit integers                                                         *)

(* Both words are 32 bits wide, and they add up to the number.             *)
LEMMA Words ==
    ASSUME NEW n \in Nat, n < TwoTo31 * TwoTo32
    PROVE  /\ toUInt64(n)[1] \in Nat /\ toUInt64(n)[1] < TwoTo31
           /\ toUInt64(n)[2] \in Nat /\ toUInt64(n)[2] < TwoTo32
           /\ n = toUInt64(n)[1] * TwoTo32 + toUInt64(n)[2]
  BY SMT DEF toUInt64, TwoTo31, TwoTo32

(* Below 2^31 the server reads the number that the client has written.     *)
THEOREM SmallNumbersArrive ==
    ASSUME NEW n \in Nat, n < TwoTo31
    PROVE  Received(n) = n
<1>1. n \div TwoTo32 = 0 /\ n % TwoTo32 = n
  BY SMT DEF TwoTo31, TwoTo32
<1>2. toUInt64(n)[1] = 0 /\ toUInt64(n)[2] = n
  BY <1>1, SMT DEF toUInt64, TwoTo32
<1> QED
  BY <1>2, SMT DEF Received, fromUInt64, Signed, TwoTo31, TwoTo32, TWO_PWR_32

(* From 2^31 on, which is 2 GiB, it reads a smaller one, always: the code  *)
(* takes 2^17 for 2^32.                                                    *)
THEOREM LargeNumbersShrink ==
    ASSUME NEW n \in Nat, TwoTo31 <= n, n < TwoTo31 * TwoTo32
    PROVE  Received(n) < n
<1> DEFINE h == toUInt64(n)[1]
           l == toUInt64(n)[2]
<1>1. h \in Nat /\ h < TwoTo31 /\ l \in Nat /\ l < TwoTo32 /\ n = h * TwoTo32 + l
  BY Words, SMT
<1>2. Received(n) = fromUInt64(h, l)
  BY SMT DEF Received
<1> HIDE DEF h, l
<1>3. CASE h = 0
  BY <1>1, <1>2, <1>3, SMT DEF fromUInt64, Signed, TwoTo31, TwoTo32, TWO_PWR_32
<1>4. CASE h > 0
  BY <1>1, <1>2, <1>4, SMT DEF fromUInt64, Signed, TwoTo31, TwoTo32, TWO_PWR_32
<1> QED
  BY <1>1, <1>3, <1>4, SMT

(* A leecher with 2^32 - 2^17 bytes left arrives with none left, which is  *)
(* how a swarm knows a seeder.                                             *)
THEOREM LeecherBecomesSeeder == Received(TwoTo32 - TWO_PWR_32) = 0
<1> DEFINE n == TwoTo32 - TWO_PWR_32
<1>1. n \in Int /\ 0 <= n /\ n < TwoTo32 /\ n >= TwoTo31
  BY SMT DEF TwoTo31, TwoTo32, TWO_PWR_32
<1>2. n \div TwoTo32 = 0 /\ n % TwoTo32 = n
  BY <1>1, SMT DEF TwoTo32
<1>3. toUInt64(n)[1] = 0 /\ toUInt64(n)[2] = n
  BY <1>2, SMT DEF toUInt64, TwoTo32
<1> QED
  BY <1>1, <1>3, SMT DEF Received, fromUInt64, Signed, TwoTo31, TwoTo32, TWO_PWR_32

-----------------------------------------------------------------------------
(* The packet of an announce, and the reply                                *)

(* The server reads each field where the client has written it: the first  *)
(* one at 0, every other where its predecessor ends, and each at its size. *)
THEOREM ParserFitsPacket ==
    /\ ReadAt(1)[1] = 0
    /\ \A i \in 1 .. 12 : ReadAt(i + 1)[1] = ReadAt(i)[2]
    /\ \A i \in 1 .. 13 : ReadAt(i)[2] = ReadAt(i)[1] + Size(i)
<1>1. /\ ReadAt(1) = <<0, 8>> /\ ReadAt(2) = <<8, 12>> /\ ReadAt(3) = <<12, 16>>
      /\ ReadAt(4) = <<16, 36>> /\ ReadAt(5) = <<36, 56>> /\ ReadAt(6) = <<56, 64>>
      /\ ReadAt(7) = <<64, 72>>
  BY DEF ReadAt, AnnouncePacket, AnnounceParser
<1>2. /\ ReadAt(8) = <<72, 80>> /\ ReadAt(9) = <<80, 84>> /\ ReadAt(10) = <<84, 88>>
      /\ ReadAt(11) = <<88, 92>> /\ ReadAt(12) = <<92, 96>> /\ ReadAt(13) = <<96, 98>>
  BY DEF ReadAt, AnnouncePacket, AnnounceParser
<1>3. /\ Size(1) = 8 /\ Size(2) = 4 /\ Size(3) = 4 /\ Size(4) = 20 /\ Size(5) = 20
      /\ Size(6) = 8 /\ Size(7) = 8 /\ Size(8) = 8 /\ Size(9) = 4 /\ Size(10) = 4
      /\ Size(11) = 4 /\ Size(12) = 4 /\ Size(13) = 2
  BY DEF Size, AnnouncePacket
<1> QED
  BY <1>1, <1>2, <1>3

(* parse-udp.js:34: no reply is larger than 512 bytes.                     *)
THEOREM ReplyFits ==
    ASSUME NEW n \in Nat, n < TwoTo32, NEW peers \in Nat, peers <= NumWant("udp", n)
    PROVE  ReplySize(peers) <= 512
  BY SMT DEF TwoTo32, NumWant, AtMost, ReplySize, DEFAULT_ANNOUNCE_PEERS, MAX_ANNOUNCE_PEERS
=============================================================================
