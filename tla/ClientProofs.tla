---------------------------- MODULE ClientProofs ----------------------------
(***************************************************************************)
(* What users of Client rely on: the peers that announces bring, and the   *)
(* counts of Client.scrape.                                                *)
(*                                                                         *)
(* What becomes of a live peer that was emitted, or of a destroyed one, is *)
(* final, for any number of clients, pages, sockets and offers. The        *)
(* invariant relates the places where the code knows a peer: a tracker     *)
(* holds in `peers` only peers of its own offers whose fate is not final,  *)
(* and a timeout is armed only for a peer that is held. Whatever settles a *)
(* peer finds it in `peers` or through its timeout, and takes it out of    *)
(* both, at once or when its listeners have returned.                      *)
(*                                                                         *)
(* The offers of one announce end with different clients: an invariant     *)
(* that follows each offer to a page and back.                             *)
(*                                                                         *)
(* A scrape that succeeds is complete and true, for any trackers, torrents *)
(* and changes of their swarms (last part).                                *)
(***************************************************************************)
EXTENDS OfferExchange, ClientScrape, FiniteSetTheorems, TLAPS

(* Among n numbers, there is for every k up to n one that is the k-th.     *)
LEMMA Ranks ==
    ASSUME NEW S \in SUBSET Int, IsFiniteSet(S)
    PROVE  \A k \in 1 .. Cardinality(S) :
              \E i \in S : Cardinality({j \in S : j <= i}) = k
<1> DEFINE Below(i) == {j \in S : j <= i}
           rank == [i \in S |-> Cardinality(Below(i))]
           N == Cardinality(S)
<1>1. N \in Nat
  BY FS_CardinalityType
<1>2. \A i \in S : IsFiniteSet(Below(i)) /\ Cardinality(Below(i)) \in 1 .. N
  <2> SUFFICES ASSUME NEW i \in S
               PROVE  IsFiniteSet(Below(i)) /\ Cardinality(Below(i)) \in 1 .. N
    OBVIOUS
  <2>1. Below(i) \in SUBSET S /\ i \in Below(i)
    OBVIOUS
  <2> HIDE DEF Below
  <2>2. IsFiniteSet(Below(i)) /\ Cardinality(Below(i)) <= N
    BY <2>1, FS_Subset
  <2>3. Cardinality(Below(i)) \in Nat /\ Cardinality(Below(i)) # 0
    BY <2>1, <2>2, FS_CardinalityType, FS_EmptySet
  <2> QED
    BY <1>1, <2>2, <2>3
<1>3. \A i, j \in S : i < j => Cardinality(Below(i)) # Cardinality(Below(j))
  <2> SUFFICES ASSUME NEW i \in S, NEW j \in S, i < j
               PROVE  Cardinality(Below(i)) # Cardinality(Below(j))
    OBVIOUS
  <2>0. \A x \in S : x \in Int
    OBVIOUS
  <2>1. Below(i) \in SUBSET Below(j) /\ j \in Below(j) /\ j \notin Below(i)
    <3>1. \A x \in S : x <= i => x <= j
      BY <2>0
    <3>2. j <= j /\ ~(j <= i)
      BY <2>0
    <3> QED
      BY <3>1, <3>2
  <2> HIDE DEF Below
  <2> QED
    BY <1>2, <2>1, FS_Subset
<1> HIDE DEF Below, N
<1>4. rank \in Injection(S, 1 .. N)
  <2>1. \A i, j \in S : rank[i] = rank[j] => i = j
    BY <1>3
  <2> QED
    BY <1>2, <2>1 DEF Injection, IsInjective
<1>5. IsFiniteSet(1 .. N) /\ Cardinality(1 .. N) = N
  BY <1>1, FS_Interval
<1>6. rank \in Surjection(S, 1 .. N)
  BY <1>4, <1>5, FS_Injection DEF N
<1>7. \A k \in 1 .. N : \E i \in S : Cardinality(Below(i)) = k
  BY <1>6 DEF Surjection
<1> QED
  BY <1>7 DEF N, Below

-----------------------------------------------------------------------------
Open == {"waiting", "failed"}
Phases == {"free", "waiting", "failed", "dead", "met", "corpse"}

(* The types of the variables that describe offers.                        *)
TypeOK ==
    /\ peers \in [Client -> SUBSET Offer]
    /\ timers \in SUBSET Offer
    /\ phase \in [Offer -> Phases]
    /\ maker \in [Offer -> Client \cup {None}]
    /\ partner = [o \in Offer |-> partner[o]]
    /\ emitting \in SUBSET Offer

(* Offers are made in the order of their numbers.                          *)
InOrder == \E k \in 0 .. MaxOffers : Made = 1 .. k

(* The peers that a tracker may hold: those that still may be answered or  *)
(* destroyed.                                                              *)
Loose(o) == phase[o] \in Open \cup {"corpse"} \/ (phase[o] = "met" /\ o \in emitting)

Held ==
    /\ \A c \in Client : \A o \in peers[c] : maker[o] = c /\ Loose(o)
    /\ \A o \in timers : maker[o] \in Client /\ o \in peers[maker[o]]
    /\ \A o \in emitting : phase[o] \in {"met", "corpse", "dead"}

IInv == TypeOK /\ InOrder /\ Held

LEMMA InitOK == Init => IInv
<1> SUFFICES ASSUME Init PROVE IInv
  OBVIOUS
<1>1. TypeOK
  BY DEF Init, TypeOK, Phases
<1>2. Made = 1 .. 0
  BY DEF Init, Made
<1>3. InOrder
  BY <1>2, BoundAssumption DEF InOrder
<1>4. Held
  BY DEF Init, Held
<1> QED
  BY <1>1, <1>3, <1>4 DEF IInv

(* Which offers are made does not change unless a phase becomes or was     *)
(* "free".                                                                 *)
LEMMA KeepsOrder ==
    ASSUME InOrder, \A o \in Offer : phase'[o] = "free" <=> phase[o] = "free"
    PROVE  InOrder'
  BY DEF InOrder, Made

LEMMA SmallerOf ==
    ASSUME NEW a \in Int, NEW b \in Int
    PROVE  Min({a, b}) = IF a <= b THEN a ELSE b
<1> DEFINE m == IF a <= b THEN a ELSE b
<1>1. m \in {a, b} /\ \A y \in {a, b} : m <= y
  OBVIOUS
<1>2. \A x \in {a, b} : (\A y \in {a, b} : x <= y) => x = m
  OBVIOUS
<1> HIDE DEF m
<1>3. Min({a, b}) = m
  BY <1>1, <1>2 DEF Min
<1> QED
  BY <1>3 DEF m

(* New offers are made of numbers that were free.                          *)
LEMMA FreshOffers ==
    ASSUME IInv, NEW n \in Nat
    PROVE  LET made == Cardinality(Made)
               offers == (made + 1) .. Min({made + n, MaxOffers})
           IN  /\ \E k \in 0 .. MaxOffers : \E top \in k .. MaxOffers :
                     Made = 1 .. k /\ offers = (k + 1) .. top
               /\ offers \in SUBSET Offer
               /\ \A o \in offers : phase[o] = "free"
<1> DEFINE made == Cardinality(Made)
           offers == (made + 1) .. Min({made + n, MaxOffers})
<1>1. PICK k \in 0 .. MaxOffers : Made = 1 .. k
  BY DEF IInv, InOrder
<1>2. made = k
  BY <1>1, FS_Interval, BoundAssumption
<1>3. PICK top \in k .. MaxOffers : offers = (k + 1) .. top
  BY <1>2, SmallerOf, BoundAssumption
<1> HIDE DEF offers, made
<1>4. /\ offers \in SUBSET Offer
      /\ \A o \in offers : phase[o] = "free"
  <2> SUFFICES ASSUME NEW o \in offers PROVE o \in Offer /\ phase[o] = "free"
    OBVIOUS
  <2>1. o \in Offer /\ o \notin 1 .. k
    BY <1>3, BoundAssumption DEF Offer
  <2> QED
    BY <1>1, <2>1 DEF Made
<1> QED
  BY <1>1, <1>3, <1>4 DEF offers, made

LEMMA AnnounceOK ==
    ASSUME IInv, NEW c \in Client, NEW s, NEW n \in Nat, Announce(c, s, n)
    PROVE  IInv' /\ SettledStep
<1> DEFINE made == Cardinality(Made)
           offers == (made + 1) .. Min({made + n, MaxOffers})
<1>1. PICK k \in 0 .. MaxOffers :
        \E top \in k .. MaxOffers : Made = 1 .. k /\ offers = (k + 1) .. top
  BY FreshOffers
<1>3. PICK top \in k .. MaxOffers : Made = 1 .. k /\ offers = (k + 1) .. top
  BY <1>1
<1>4. offers \in SUBSET Offer /\ \A o \in offers : phase[o] = "free"
  BY FreshOffers
<1> HIDE DEF offers, made
<1>5. /\ peers' = [peers EXCEPT ![c] = @ \cup offers]
      /\ timers' = timers \cup offers
      /\ phase' = [o \in Offer |-> IF o \in offers THEN "waiting" ELSE phase[o]]
      /\ maker' = [o \in Offer |-> IF o \in offers THEN c ELSE maker[o]]
      /\ partner' = partner /\ emitting' = emitting
  BY DEF Announce, offers, made
<1>6. TypeOK'
  BY <1>4, <1>5 DEF IInv, TypeOK, Phases
<1>7. Made' = 1 .. top
  BY <1>3, <1>4, <1>5, BoundAssumption DEF Made, Offer
<1>8. InOrder'
  BY <1>3, <1>7, BoundAssumption DEF InOrder
<1>9. Held'
  <2>1. ASSUME NEW d \in Client, NEW o \in peers'[d]
        PROVE  maker'[o] = d /\ Loose(o)'
    <3>1. CASE o \in offers
      <4>1. o \notin peers[d]
        BY <1>4, <3>1 DEF IInv, Held, Loose, Open
      <4>2. d = c
        BY <1>5, <2>1, <4>1 DEF IInv, TypeOK
      <4> QED
        BY <1>4, <1>5, <3>1, <4>2 DEF Loose, Open
    <3>2. CASE o \notin offers
      BY <1>5, <2>1, <3>2 DEF IInv, TypeOK, Held, Loose
    <3> QED
      BY <3>1, <3>2
  <2>2. ASSUME NEW o \in timers'
        PROVE  maker'[o] \in Client /\ o \in peers'[maker'[o]]
    BY <1>4, <1>5, <2>2 DEF IInv, TypeOK, Held
  <2>3. \A o \in emitting' : phase'[o] \in {"met", "corpse", "dead"}
    BY <1>4, <1>5 DEF IInv, TypeOK, Held
  <2> QED
    BY <2>1, <2>2, <2>3 DEF Held
<1>10. SettledStep
  BY <1>4, <1>5 DEF SettledStep
<1> QED
  BY <1>6, <1>8, <1>9, <1>10 DEF IInv

(* destroy() settles the peers that the trackers hold.                     *)
LEMMA DestroyOK ==
    ASSUME IInv, NEW cs, cs \subseteq Client, DestroyPeers(cs)
    PROVE  IInv' /\ SettledStep
<1> DEFINE gone == UNION {peers[c] : c \in cs}
<1>1. /\ phase' = [o \in Offer |-> IF o \in gone THEN "dead" ELSE phase[o]]
      /\ timers' = timers \ gone
      /\ peers' = [c \in Client |-> IF c \in cs THEN {} ELSE peers[c]]
      /\ maker' = maker /\ partner' = partner /\ emitting' = emitting
  BY DEF DestroyPeers
<1>2. \A o \in gone : maker[o] \in cs /\ Loose(o)
  BY DEF IInv, Held
<1>3. \A c \in cs : \A o \in peers[c] : o \in gone
  OBVIOUS
<1> HIDE DEF gone
<1>4. TypeOK'
  BY <1>1 DEF IInv, TypeOK, Phases
<1>5. InOrder'
  BY <1>1, <1>2, KeepsOrder DEF IInv, Loose, Open
<1>6. Held'
  <2>1. ASSUME NEW d \in Client, NEW o \in peers'[d]
        PROVE  maker'[o] = d /\ Loose(o)'
    <3>1. d \notin cs /\ o \in peers[d]
      BY <1>1, <2>1
    <3>2. maker[o] = d /\ Loose(o) /\ o \in Offer
      BY <3>1 DEF IInv, TypeOK, Held
    <3>3. o \notin gone
      BY <1>2, <3>1, <3>2
    <3> QED
      BY <1>1, <3>2, <3>3 DEF Loose
  <2>2. ASSUME NEW o \in timers'
        PROVE  maker'[o] \in Client /\ o \in peers'[maker'[o]]
    BY <1>1, <1>3, <2>2 DEF IInv, Held
  <2>3. \A o \in emitting' : phase'[o] \in {"met", "corpse", "dead"}
    BY <1>1 DEF IInv, TypeOK, Held
  <2> QED
    BY <2>1, <2>2, <2>3 DEF Held
<1>7. SettledStep
  BY <1>1, <1>2 DEF SettledStep, Loose, Open
<1> QED
  BY <1>4, <1>5, <1>6, <1>7 DEF IInv

(* While no handler of its page is under way, a peer that a tracker holds  *)
(* was not emitted, or only as a failed one.                               *)
LEMMA HeldOpen ==
    ASSUME IInv, NEW c \in Client, NoHandler(PageOf[c]), NEW o \in peers[c]
    PROVE  o \in Offer /\ maker[o] = c /\ o \notin emitting /\ phase[o] \in Open \cup {"corpse"}
BY DEF IInv, TypeOK, Held, Loose, NoHandler

(* An answer finds a peer that was not emitted, or only as a failed one.   *)
LEMMA AnswerOK ==
    ASSUME IInv, NEW m, NEW hearers, hearers \subseteq Client, OnAnswer(m, hearers),
           \A c \in hearers : NoHandler(PageOf[c])
    PROVE  IInv' /\ SettledStep
<1>1. CASE \E c \in hearers \ {m.from} : m.offer \in peers[c]
  <2> DEFINE x == m.offer
  <2>1. /\ phase' = [phase EXCEPT ![x] = IF @ = "waiting" THEN "met" ELSE "corpse"]
        /\ partner' = [partner EXCEPT ![x] = m.from]
        /\ emitting' = {x} \cup emitting
        /\ UNCHANGED <<timers, peers, maker>>
    BY <1>1 DEF OnAnswer
  <2>2. x \in Offer /\ phase[x] \in Open \cup {"corpse"}
    BY <1>1, HeldOpen
  <2> HIDE DEF x
  <2>3. TypeOK'
    BY <2>1, <2>2 DEF IInv, TypeOK, Phases
  <2>4. InOrder'
    BY <2>1, <2>2, KeepsOrder DEF IInv, TypeOK, Open
  <2>5. Held'
    <3>1. \A o \in Offer : Loose(o) => Loose(o)'
      BY <2>1, <2>2 DEF IInv, TypeOK, Loose, Open
    <3>2. \A o \in emitting' : phase'[o] \in {"met", "corpse", "dead"}
      BY <2>1, <2>2 DEF IInv, TypeOK, Held
    <3> QED
      BY <2>1, <3>1, <3>2 DEF IInv, TypeOK, Held
  <2>6. SettledStep
    BY <2>1, <2>2 DEF IInv, TypeOK, SettledStep, Open
  <2> QED
    BY <2>3, <2>4, <2>5, <2>6 DEF IInv
<1>2. CASE ~ \E c \in hearers \ {m.from} : m.offer \in peers[c]
  <2>1. UNCHANGED <<phase, partner, emitting, timers, peers, maker>>
    BY <1>2 DEF OnAnswer
  <2> QED
    BY <2>1, KeepsOrder DEF IInv, TypeOK, Held, Loose, SettledStep
<1> QED
  BY <1>1, <1>2

(* When the listeners have returned, the tracker holds the peer no more if *)
(* it was emitted alive.                                                   *)
LEMMA ReleaseOK ==
    ASSUME IInv, NEW x \in Offer, Release(x)
    PROVE  IInv' /\ SettledStep
<1>1. /\ emitting' = emitting \ {x} /\ UNCHANGED <<phase, partner, maker>>
      /\ \/ /\ timers' = timers \ {x}
            /\ peers' = [c \in Client |-> peers[c] \ {x}]
         \/ phase[x] = "corpse" /\ UNCHANGED <<timers, peers>>
  BY DEF Release
<1>2. TypeOK' /\ InOrder'
  BY <1>1, KeepsOrder DEF IInv, TypeOK
<1>3. \A c \in Client : \A o \in peers'[c] :
         o \in peers[c] /\ (o = x => phase[x] = "corpse")
  BY <1>1
<1>4. \A c \in Client : \A o \in peers'[c] : maker'[o] = c /\ Loose(o)'
  BY <1>1, <1>3 DEF IInv, Held, Loose
<1>5. \A o \in timers' : maker'[o] \in Client /\ o \in peers'[maker'[o]]
  BY <1>1 DEF IInv, Held
<1>6. Held'
  BY <1>1, <1>4, <1>5 DEF IInv, Held
<1> QED
  BY <1>1, <1>2, <1>6 DEF IInv, SettledStep

LEMMA QuietOK ==
    ASSUME IInv, UNCHANGED <<phase, partner, emitting, timers, peers, maker>>
    PROVE  IInv' /\ SettledStep
  BY KeepsOrder DEF IInv, TypeOK, Held, Loose, SettledStep

LEMMA StepOK == IInv /\ [Next]_vars => IInv' /\ SettledStep
<1> SUFFICES ASSUME IInv, [Next]_vars PROVE IInv' /\ SettledStep
  OBVIOUS
<1> USE DEF offerVars
<1>1. ASSUME NEW c \in Client, Update(c) PROVE IInv' /\ SettledStep
  BY <1>1, AnnounceOK, BoundAssumption DEF Update
<1>2. ASSUME NEW c \in Client, Connect(c) PROVE IInv' /\ SettledStep
  BY <1>2, AnnounceOK, BoundAssumption DEF Connect
<1>3. ASSUME NEW c \in Client, Stop(c) PROVE IInv' /\ SettledStep
  BY <1>3, QuietOK DEF Stop
<1>4. ASSUME NEW c \in Client, Destroy(c) PROVE IInv' /\ SettledStep
  BY <1>4, DestroyOK DEF Destroy
<1>5. ASSUME NEW o \in Offer, Signal(o) PROVE IInv' /\ SettledStep
  BY <1>5, QuietOK DEF Signal
<1>6. ASSUME NEW o \in Offer, PeerFails(o) PROVE IInv' /\ SettledStep
  <2>1. /\ phase[o] = "waiting"
        /\ phase' = [phase EXCEPT ![o] = "failed"]
        /\ UNCHANGED <<partner, emitting, timers, peers, maker>>
    BY <1>6 DEF PeerFails
  <2>2. InOrder'
    BY <2>1, KeepsOrder DEF IInv, TypeOK
  <2> QED
    BY <2>1, <2>2 DEF IInv, TypeOK, Phases, Held, Loose, Open, SettledStep
<1>7. ASSUME NEW o \in Offer, OfferTimeout(o) PROVE IInv' /\ SettledStep
  <2>1. /\ o \in timers
        /\ timers' = timers \ {o}
        /\ peers' = [peers EXCEPT ![maker[o]] = @ \ {o}]
        /\ phase' = [phase EXCEPT ![o] = "dead"]
        /\ UNCHANGED <<partner, emitting, maker>>
        /\ NoHandler(PageOf[maker[o]])
    BY <1>7 DEF OfferTimeout
  <2>2. /\ maker[o] \in Client /\ o \in peers[maker[o]]
        /\ o \notin emitting /\ phase[o] \in Open \cup {"corpse"}
    <3>1. maker[o] \in Client /\ o \in peers[maker[o]]
      BY <2>1 DEF IInv, Held
    <3> QED
      BY <2>1, <3>1, HeldOpen
  <2>3. TypeOK'
    BY <2>1, <2>2 DEF IInv, TypeOK, Phases
  <2>4. InOrder'
    BY <2>1, <2>2, KeepsOrder DEF IInv, TypeOK, Open
  <2>5. Held'
    BY <2>1, <2>2 DEF IInv, TypeOK, Held, Loose
  <2>6. SettledStep
    BY <2>1, <2>2 DEF IInv, TypeOK, SettledStep, Open
  <2> QED
    BY <2>3, <2>4, <2>5, <2>6 DEF IInv
<1>8. ASSUME NEW a \in answering, SendAnswer(a) PROVE IInv' /\ SettledStep
  BY <1>8, QuietOK DEF SendAnswer
<1>9. ASSUME NEW p \in Page, Receive(p) PROVE IInv' /\ SettledStep
  <2>1. PICK m : IF m.kind = "offer" THEN OnOffer(m, Users(p)) ELSE OnAnswer(m, Users(p))
    BY <1>9 DEF Receive
  <2>2. CASE OnOffer(m, Users(p))
    BY <2>2, QuietOK DEF OnOffer
  <2>3. CASE OnAnswer(m, Users(p))
    <3>1. Users(p) \subseteq Client /\ \A c \in Users(p) : NoHandler(PageOf[c])
      BY <1>9 DEF Receive, Users
    <3> QED
      BY <2>3, <3>1, AnswerOK
  <2> QED
    BY <2>1, <2>2, <2>3
<1>10. ASSUME NEW p \in Page, SocketCloses(p) PROVE IInv' /\ SettledStep
  BY <1>10, DestroyOK DEF SocketCloses, Users
<1>11. ASSUME NEW s \in Socket, ServerCloses(s) \/ Breaks(s) PROVE IInv' /\ SettledStep
  BY <1>11, QuietOK DEF ServerCloses, Breaks
<1>12. ASSUME NEW o \in Offer, Release(o) PROVE IInv' /\ SettledStep
  BY <1>12, ReleaseOK
<1>13. CASE UNCHANGED vars
  BY <1>13, QuietOK DEF vars
<1> QED
  BY <1>1, <1>2, <1>3, <1>4, <1>5, <1>6, <1>7, <1>8, <1>9, <1>10, <1>11, <1>12, <1>13 DEF Next

(* A live peer that was emitted is not emitted for a second answer, nor    *)
(* destroyed by OFFER_TIMEOUT, when the socket fails, or by destroy() but  *)
(* in a listener that hears of it. A peer that a timeout or destroy()      *)
(* destroyed is never emitted, and one that failed never as a live one.    *)
THEOREM OffersSettled == Spec => Settled
<1>1. IInv /\ [Next]_vars => IInv' /\ [SettledStep]_vars
  BY StepOK
<1> QED
  BY <1>1, InitOK, PTL DEF Spec, Settled

-----------------------------------------------------------------------------
(***************************************************************************)
(* The safety core of OffersEnd: a peer whose fate is open is held by a    *)
(* tracker that is up, and has its OFFER_TIMEOUT armed.                    *)
(***************************************************************************)
NoPeerLeaks ==
    \A o \in Offer : phase[o] \in Open =>
        /\ o \in timers
        /\ maker[o] \in Client /\ o \in peers[maker[o]]
        /\ tracker[maker[o]] = "up"

(* What of it does not follow from Held.                                   *)
Armed ==
    /\ tracker \in [Client -> {"up", "away", "destroyed"}]
    /\ \A o \in Offer : phase[o] \in Open => o \in timers /\ tracker[maker[o]] = "up"

(* An announce of a tracker that is up, or comes up with it.               *)
LEMMA AnnounceArms ==
    ASSUME IInv, Armed, NEW c \in Client, NEW s, NEW n \in Nat, Announce(c, s, n),
           tracker' \in {tracker, [tracker EXCEPT ![c] = "up"]}, tracker'[c] = "up"
    PROVE  Armed'
<1> DEFINE offers == (Cardinality(Made) + 1) .. Min({Cardinality(Made) + n, MaxOffers})
<1>1. /\ timers' = timers \cup offers
      /\ phase' = [o \in Offer |-> IF o \in offers THEN "waiting" ELSE phase[o]]
      /\ maker' = [o \in Offer |-> IF o \in offers THEN c ELSE maker[o]]
  BY DEF Announce
<1> HIDE DEF offers
<1>2. /\ tracker' \in [Client -> {"up", "away", "destroyed"}]
      /\ \A d \in Client : tracker[d] = "up" => tracker'[d] = "up"
  BY DEF Armed
<1>3. ASSUME NEW o \in Offer, phase'[o] \in Open
      PROVE  o \in timers' /\ tracker'[maker'[o]] = "up"
  <2>1. CASE o \in offers
    BY <1>1, <2>1
  <2>2. CASE o \notin offers
    <3>1. o \in timers /\ tracker[maker[o]] = "up" /\ maker'[o] = maker[o]
      BY <1>1, <1>3, <2>2 DEF Armed
    <3>2. maker[o] \in Client
      BY <3>1 DEF IInv, Held
    <3> QED
      BY <1>1, <1>2, <3>1, <3>2
  <2> QED
    BY <2>1, <2>2
<1> QED
  BY <1>2, <1>3 DEF Armed

(* A tracker leaves after its peers were destroyed.                        *)
LEMMA DestroyArms ==
    ASSUME IInv, Armed, NEW cs, cs \subseteq Client, DestroyPeers(cs),
           tracker' \in [Client -> {"up", "away", "destroyed"}],
           \A d \in Client \ cs : tracker'[d] = tracker[d]
    PROVE  Armed'
<1> DEFINE gone == UNION {peers[c] : c \in cs}
<1>1. /\ phase' = [o \in Offer |-> IF o \in gone THEN "dead" ELSE phase[o]]
      /\ timers' = timers \ gone
      /\ maker' = maker
  BY DEF DestroyPeers
<1>2. ASSUME NEW o \in Offer, phase'[o] \in Open
      PROVE  o \in timers' /\ tracker'[maker'[o]] = "up"
  <2>1. o \notin gone /\ phase[o] \in Open
    BY <1>1, <1>2 DEF Open
  <2>2. o \in timers /\ tracker[maker[o]] = "up"
    BY <2>1 DEF Armed
  <2>3. maker[o] \in Client /\ o \in peers[maker[o]]
    BY <2>2 DEF IInv, Held
  <2>4. maker[o] \notin cs
    BY <2>1, <2>3
  <2> QED
    BY <1>1, <2>1, <2>2, <2>3, <2>4
<1> QED
  BY <1>2 DEF Armed

(* One peer is settled, or none, and nothing else happens to peers.        *)
LEMMA SettlingArms ==
    ASSUME Armed, UNCHANGED <<tracker, maker>>,
           \A o \in Offer : phase'[o] \in Open =>
                phase[o] \in Open /\ (o \in timers => o \in timers')
    PROVE  Armed'
  BY DEF Armed

LEMMA ArmedStep == IInv /\ Armed /\ [Next]_vars => Armed'
<1> SUFFICES ASSUME IInv, Armed, [Next]_vars PROVE Armed'
  OBVIOUS
<1> USE DEF offerVars
<1>1. ASSUME NEW c \in Client, Update(c) PROVE Armed'
  <2>1. tracker' = tracker /\ tracker'[c] = "up" /\ \E n \in {0, NumWant} : Announce(c, LineOf(c), n)
    BY <1>1 DEF Update
  <2> QED
    BY <2>1, AnnounceArms, BoundAssumption
<1>2. ASSUME NEW c \in Client, Connect(c) PROVE Armed'
  <2>1. /\ tracker' = [tracker EXCEPT ![c] = "up"]
        /\ \E s : Announce(c, s, NumWant)
    BY <1>2 DEF Connect
  <2>2. tracker'[c] = "up"
    BY <2>1 DEF Armed
  <2> QED
    BY <2>1, <2>2, AnnounceArms, BoundAssumption
<1>3. ASSUME NEW c \in Client, Stop(c) PROVE Armed'
  BY <1>3, SettlingArms DEF Stop
<1>4. ASSUME NEW c \in Client, Destroy(c) PROVE Armed'
  <2>1. DestroyPeers({c}) /\ tracker' = [tracker EXCEPT ![c] = "destroyed"]
    BY <1>4 DEF Destroy
  <2>2. /\ tracker' \in [Client -> {"up", "away", "destroyed"}]
        /\ \A d \in Client \ {c} : tracker'[d] = tracker[d]
    BY <2>1 DEF Armed
  <2> QED
    BY <2>1, <2>2, DestroyArms
<1>5. ASSUME NEW o \in Offer, Signal(o) PROVE Armed'
  BY <1>5, SettlingArms DEF Signal
<1>6. ASSUME NEW o \in Offer, PeerFails(o) PROVE Armed'
  BY <1>6, SettlingArms DEF PeerFails, Open, IInv, TypeOK
<1>7. ASSUME NEW o \in Offer, OfferTimeout(o) PROVE Armed'
  BY <1>7, SettlingArms DEF OfferTimeout, Open, IInv, TypeOK
<1>8. ASSUME NEW a \in answering, SendAnswer(a) PROVE Armed'
  BY <1>8, SettlingArms DEF SendAnswer
<1>9. ASSUME NEW p \in Page, Receive(p) PROVE Armed'
  <2>1. tracker' = tracker
    BY <1>9 DEF Receive
  <2>2. PICK m : IF m.kind = "offer" THEN OnOffer(m, Users(p)) ELSE OnAnswer(m, Users(p))
    BY <1>9 DEF Receive
  <2>3. CASE OnOffer(m, Users(p))
    BY <2>1, <2>3, SettlingArms DEF OnOffer
  <2>4. CASE OnAnswer(m, Users(p))
    <3>1. \A o \in Offer : phase'[o] \in Open => phase[o] \in Open
      BY <2>4 DEF OnAnswer, Open, IInv, TypeOK
    <3> QED
      BY <2>1, <2>4, <3>1, SettlingArms DEF OnAnswer
  <2> QED
    BY <2>2, <2>3, <2>4
<1>10. ASSUME NEW p \in Page, SocketCloses(p) PROVE Armed'
  <2>1. /\ DestroyPeers(Users(p)) /\ Users(p) \subseteq Client
        /\ tracker' = [c \in Client |-> IF c \in Users(p) THEN "away" ELSE tracker[c]]
    BY <1>10 DEF SocketCloses, Users
  <2>2. /\ tracker' \in [Client -> {"up", "away", "destroyed"}]
        /\ \A d \in Client \ Users(p) : tracker'[d] = tracker[d]
    BY <2>1 DEF Armed
  <2> QED
    BY <2>1, <2>2, DestroyArms
<1>11. ASSUME NEW s \in Socket, ServerCloses(s) \/ Breaks(s) PROVE Armed'
  BY <1>11, SettlingArms DEF ServerCloses, Breaks
<1>12. ASSUME NEW o \in Offer, Release(o) PROVE Armed'
  <2>1. phase[o] \notin Open
    BY <1>12 DEF IInv, Held, Open, Release
  <2> QED
    BY <1>12, <2>1, SettlingArms DEF Release
<1>13. CASE UNCHANGED vars
  BY <1>13, SettlingArms DEF vars
<1> QED
  BY <1>1, <1>2, <1>3, <1>4, <1>5, <1>6, <1>7, <1>8, <1>9, <1>10, <1>11, <1>12, <1>13 DEF Next

(* No offer's peer outlives the tracker that made it, be that destroyed or *)
(* cut off, and none waits without its OFFER_TIMEOUT, so that the timeout  *)
(* settles whatever no answer settles.                                     *)
THEOREM OffersArmed == Spec => []NoPeerLeaks
<1>1. Init => Armed
  BY DEF Init, Armed, Open
<1>2. IInv /\ Armed => NoPeerLeaks
  BY DEF IInv, Held, Armed, NoPeerLeaks
<1>3. IInv /\ [Next]_vars => IInv'
  BY StepOK
<1> QED
  BY <1>1, <1>2, <1>3, InitOK, ArmedStep, PTL DEF Spec

-----------------------------------------------------------------------------
(* Other partners. An offer is handed to one member, and heard by all the  *)
(* clients of that member's page. So the offers of one announce reach the  *)
(* same page only if two members, other than their maker, are on it. The   *)
(* invariant follows an offer from the socket's messages to the peers that *)
(* answer, back over a socket, and to the partner in the end.              *)

Message == [kind : {"offer", "answer"}, from : Client, offer : Offer]

Types ==
    /\ partner \in [Offer -> Client \cup {None}]
    /\ batch \in [Offer -> SUBSET Offer]
    /\ answering \in SUBSET [by : Client, to : Client, offer : Offer]
    /\ down \in [Socket -> Seq(Message)]
    /\ line \in [Page -> Socket \cup {None}]
    /\ entry \in [Client -> Socket \cup {None}]

(* A socket that works belongs to one page, and is the one that the page's *)
(* members are known by.                                                   *)
OnePage(l) == \A p, q \in Page : l[p] = l[q] /\ l[p] # None => p = q
Wired(e, d, l) ==
    /\ \A x \in Client : e[x] \in Socket \ broken => l[PageOf[x]] = e[x]
    /\ \A s \in Socket : d[s] # <<>> => \E p \in Page : l[p] = s
Lines ==
    /\ OnePage(line)
    /\ \A p \in Page : line[p] # None => line[p] \in open \cup broken
    /\ Wired(entry, down, line)

Batches ==
    /\ signalled \subseteq Made
    /\ \A o \in Made :
          /\ maker[o] \in Client
          /\ o \in batch[o] /\ batch[o] \subseteq Made
          /\ \A b \in batch[o] : batch[b] = batch[o] /\ maker[b] = maker[o]

(* Where an offer is: on its way to page p, or answered from there.        *)
About(d, s, o, k) == {i \in DOMAIN d[s] : d[s][i].kind = k /\ d[s][i].offer = o}
Invited(o, p) == line[p] \in Socket /\ About(down, line[p], o, "offer") # {}
Answered(o, p) ==
    \/ \E a \in answering : a.offer = o /\ PageOf[a.by] = p
    \/ \E s \in Socket : \E i \in About(down, s, o, "answer") : PageOf[down[s][i].from] = p
    \/ partner[o] # None /\ PageOf[partner[o]] = p
Reached(o, p) == Invited(o, p) \/ Answered(o, p)

TwoOthers(c, p) == \E x, y \in Client \ {c} : x # y /\ PageOf[x] = p /\ PageOf[y] = p

Path(o, p) ==
    /\ o \in Made
    /\ batch[o] \subseteq signalled
    /\ \A b \in batch[o] \ {o} : Reached(b, p) => TwoOthers(maker[o], p)
Paths ==
    /\ \A o \in Offer, p \in Page : Reached(o, p) => Path(o, p)
    /\ \A o \in Offer : partner[o] # None => partner[o] # maker[o]

PInv == IInv /\ Types /\ Lines /\ Batches /\ Paths

(* Sorted enumerates a finite set.                                         *)
LEMMA SortedOK ==
    ASSUME NEW S \in SUBSET Int, IsFiniteSet(S)
    PROVE  /\ Cardinality(S) \in Nat
           /\ DOMAIN Sorted(S) = 1 .. Cardinality(S)
           /\ \A k \in 1 .. Cardinality(S) : Sorted(S)[k] \in S
  BY FS_CardinalityType, Ranks DEF Sorted

(* What Forward puts on the way are invitations of as many different       *)
(* members, the j-th offer for the j-th of them.                           *)
Handed(c, offers, n, picked) ==
    /\ IsInjective(picked)
    /\ \A j \in 1 .. n : Sorted(offers)[j] \in offers
    /\ \A s \in Socket : \A i \in DOMAIN down'[s] :
          \/ i \in DOMAIN down[s] /\ down'[s][i] = down[s][i]
          \/ /\ s \notin broken
             /\ \E j \in 1 .. n :
                  /\ entry[picked[j]] = s
                  /\ down'[s][i] = [kind |-> "offer", from |-> c,
                                    offer |-> Sorted(offers)[j]]

LEMMA ForwardSays ==
    ASSUME Types, NEW c \in Client, NEW offers \in SUBSET Offer, Forward(c, offers)
    PROVE  /\ down' \in [Socket -> Seq(Message)]
           /\ \E n \in Nat : \E picked \in [1 .. n -> Members \ {c}] :
                Handed(c, offers, n, picked)
<1> DEFINE others == Members \ {c}
           n == Min({Cardinality(others), Cardinality(offers)})
           Invite(i) == [kind |-> "offer", from |-> c, offer |-> Sorted(offers)[i]]
<1>1. IsFiniteSet(offers) /\ offers \in SUBSET Int
  <2>1. IsFiniteSet(1 .. MaxOffers) /\ offers \in SUBSET (1 .. MaxOffers)
    BY FS_Interval, BoundAssumption DEF Offer
  <2>2. IsFiniteSet(offers)
    BY <2>1, FS_Subset
  <2> QED
    BY <2>1, <2>2
<1>2. IsFiniteSet(others)
  <2>1. others \in SUBSET Client
    BY DEF Members
  <2> QED
    BY <2>1, FS_Subset, PageAssumption
<1>3. n \in Nat /\ n <= Cardinality(offers)
  <2>1. Cardinality(others) \in Nat /\ Cardinality(offers) \in Nat
    BY <1>1, <1>2, FS_CardinalityType
  <2> QED
    BY <2>1, SmallerOf
<1>4. \A j \in 1 .. n : Sorted(offers)[j] \in offers
  BY <1>1, <1>3, SortedOK
<1> HIDE DEF n
<1>5. PICK picked \in [1 .. n -> others] :
        /\ IsInjective(picked)
        /\ down' = [s \in Socket |->
              LET mine == Sorted({i \in 1 .. n : entry[picked[i]] = s}) IN
              IF Carries(s) THEN down[s] \o [j \in DOMAIN mine |-> Invite(mine[j])]
                            ELSE down[s]]
  BY DEF Forward, n
<1>6. ASSUME NEW s \in Socket
      PROVE  /\ down'[s] \in Seq(Message)
             /\ \A i \in DOMAIN down'[s] :
                  \/ i \in DOMAIN down[s] /\ down'[s][i] = down[s][i]
                  \/ /\ s \notin broken
                     /\ \E j \in 1 .. n : entry[picked[j]] = s /\ down'[s][i] = Invite(j)
  <2>1. CASE ~ Carries(s)
    BY <1>5, <2>1 DEF Types
  <2>2. CASE Carries(s)
    <3> DEFINE S == {i \in 1 .. n : entry[picked[i]] = s}
               mine == Sorted(S)
               more == [j \in DOMAIN mine |-> Invite(mine[j])]
    <3>1. IsFiniteSet(S) /\ S \in SUBSET Int
      BY <1>3, FS_Interval, FS_Subset
    <3>2. /\ Cardinality(S) \in Nat
          /\ DOMAIN mine = 1 .. Cardinality(S)
          /\ \A k \in 1 .. Cardinality(S) : mine[k] \in S
      BY <3>1, SortedOK
    <3>3. down'[s] = down[s] \o more
      BY <1>5, <2>2
    <3> HIDE DEF mine
    <3>4. \A k \in DOMAIN mine : /\ mine[k] \in 1 .. n /\ entry[picked[mine[k]]] = s
                                 /\ Invite(mine[k]) \in Message
      BY <1>4, <3>2 DEF Message
    <3>5. more \in Seq(Message) /\ Len(more) = Cardinality(S)
      <4>1. more \in [1 .. Cardinality(S) -> Message]
        BY <3>2, <3>4
      <4> HIDE DEF more, S
      <4> QED
        BY <3>2, <4>1
    <3>6. \A k \in DOMAIN more : more[k] = Invite(mine[k]) /\ k \in DOMAIN mine
      OBVIOUS
    <3> HIDE DEF more
    <3>7. down[s] \in Seq(Message)
      BY DEF Types
    <3>8. \A i \in DOMAIN down'[s] :
             \/ i \in DOMAIN down[s] /\ down'[s][i] = down[s][i]
             \/ \E k \in DOMAIN more : down'[s][i] = more[k]
      <4> DEFINE old == down[s]
      <4> HIDE DEF old
      <4>1. \A i \in DOMAIN (old \o more) :
               \/ i \in DOMAIN old /\ (old \o more)[i] = old[i]
               \/ i - Len(old) \in DOMAIN more /\ (old \o more)[i] = more[i - Len(old)]
        BY <3>5, <3>7 DEF old
      <4> QED
        BY <3>3, <4>1 DEF old
    <3>9. down'[s] \in Seq(Message)
      BY <3>3, <3>5, <3>7
    <3>10. \A k \in DOMAIN more : \E j \in 1 .. n : entry[picked[j]] = s /\ more[k] = Invite(j)
      BY <3>4, <3>6
    <3> QED
      BY <2>2, <3>8, <3>9, <3>10 DEF Carries
  <2> QED
    BY <2>1, <2>2
<1>7. down' \in [Socket -> Seq(Message)]
  BY <1>5, <1>6
<1>8. \A s \in Socket : \A i \in DOMAIN down'[s] :
         \/ i \in DOMAIN down[s] /\ down'[s][i] = down[s][i]
         \/ /\ s \notin broken
            /\ \E j \in 1 .. n : entry[picked[j]] = s /\ down'[s][i] = Invite(j)
  BY <1>6
<1>9. n \in Nat /\ picked \in [1 .. n -> Members \ {c}] /\ IsInjective(picked)
  BY <1>3, <1>5
<1>10. Handed(c, offers, n, picked)
  BY <1>4, <1>8, <1>9 DEF Handed
<1> QED
  BY <1>7, <1>9, <1>10

(* With no offers, nothing is put on the way.                              *)
LEMMA ForwardNothing ==
    ASSUME Types, NEW c \in Client, Forward(c, {})
    PROVE  down' = down
<1> DEFINE n == Min({Cardinality(Members \ {c}), Cardinality({})})
           Invite(i) == [kind |-> "offer", from |-> c, offer |-> Sorted({})[i]]
<1>1. IsFiniteSet(Members \ {c})
  <2>1. Members \ {c} \in SUBSET Client
    BY DEF Members
  <2> QED
    BY <2>1, FS_Subset, PageAssumption
<1>2. n = 0
  <2>1. Cardinality(Members \ {c}) \in Nat /\ Cardinality({}) = 0
    BY <1>1, FS_CardinalityType, FS_EmptySet
  <2> DEFINE a == Cardinality(Members \ {c})
             b == Cardinality({})
  <2> HIDE DEF a, b
  <2>2. a \in Int /\ b \in Int /\ b = 0 /\ 0 <= a
    BY <2>1 DEF a, b
  <2>3. Min({a, b}) = 0
    BY <2>2, SmallerOf
  <2> QED
    BY <2>3 DEF a, b
<1> HIDE DEF n
<1>3. PICK picked \in [1 .. n -> Members \ {c}] : down' = [s \in Socket |->
              LET mine == Sorted({i \in 1 .. n : entry[picked[i]] = s}) IN
              IF Carries(s) THEN down[s] \o [j \in DOMAIN mine |-> Invite(mine[j])]
                            ELSE down[s]]
  BY DEF Forward, n
<1>4. \A s \in Socket : {i \in 1 .. n : entry[picked[i]] = s} = {}
  BY <1>2
<1>5. DOMAIN Sorted({}) = {}
  BY FS_EmptySet DEF Sorted
<1>6. \A s \in Socket : down'[s] = down[s]
  <2> SUFFICES ASSUME NEW s \in Socket, Carries(s) PROVE down'[s] = down[s]
    BY <1>3
  <2> DEFINE more == [j \in DOMAIN Sorted({}) |-> Invite(Sorted({})[j])]
  <2>1. down'[s] = down[s] \o more
    BY <1>3, <1>4
  <2>2. more \in Seq(Message) /\ Len(more) = 0
    <3>1. DOMAIN more = 1 .. 0 /\ \A i \in 1 .. 0 : more[i] \in Message
      BY <1>5
    <3> QED
      BY <3>1
  <2> HIDE DEF more
  <2> QED
    BY <2>1, <2>2 DEF Types
<1> QED
  BY <1>3, <1>6 DEF Types

LEMMA PathsStart == Init => Types /\ Lines /\ Batches /\ Paths
<1> SUFFICES ASSUME Init PROVE Types /\ Lines /\ Batches /\ Paths
  OBVIOUS
<1>1. line \in [Page -> Socket] /\ IsInjective(line)
  BY SocketAssumption DEF Init
<1>2. /\ entry = [c \in Client |-> line[PageOf[c]]]
      /\ open = Range(line)
      /\ down = [s \in Socket |-> <<>>]
  BY DEF Init, LineOf
<1>3. Types
  <2>1. \A c \in Client : line[PageOf[c]] \in Socket
    BY <1>1, PageAssumption
  <2>2. entry \in [Client -> Socket \cup {None}] /\ line \in [Page -> Socket \cup {None}]
    BY <1>1, <1>2, <2>1
  <2>3. down \in [Socket -> Seq(Message)]
    BY <1>2
  <2>4. /\ partner = [o \in Offer |-> None]
        /\ batch = [o \in Offer |-> {}]
        /\ answering = {}
    BY DEF Init
  <2> QED
    BY <2>2, <2>3, <2>4 DEF Types
<1>4. Lines
  BY <1>1, <1>2 DEF Lines, OnePage, Wired, IsInjective, Range
<1>5. Made = {}
  BY DEF Init, Made
<1>6. Batches
  BY <1>5 DEF Init, Batches
<1>8. \A o \in Offer : partner[o] = None
  BY DEF Init
<1>7. \A o \in Offer, p \in Page : ~ Reached(o, p)
  <2> SUFFICES ASSUME NEW o \in Offer, NEW p \in Page PROVE ~ Reached(o, p)
    OBVIOUS
  <2>1. \A s \in Socket, k \in {"offer", "answer"} : About(down, s, o, k) = {}
    BY <1>2 DEF About
  <2>2. answering = {}
    BY DEF Init
  <2> QED
    BY <1>8, <2>1, <2>2 DEF Reached, Invited, Answered
<1> QED
  BY <1>3, <1>4, <1>6, <1>7, <1>8 DEF Paths

(* A member that joins over its page's socket is known by it.              *)
LEMMA JoinLines ==
    ASSUME Types, NEW c \in Client, NEW s \in Socket, NEW l,
           Wired(entry, down, l), l[PageOf[c]] = s, JoinSwarm(c, s)
    PROVE  /\ entry' \in [Client -> Socket \cup {None}]
           /\ Wired(entry', down, l)
  BY DEF Types, Wired, JoinSwarm

LEMMA SendLines ==
    ASSUME Types, NEW c \in Client, NEW s, NEW offers \in SUBSET Offer, NEW l,
           Wired(entry, down, l), s \in Socket => l[PageOf[c]] = s,
           SendAnnounce(c, s, offers)
    PROVE  /\ entry' \in [Client -> Socket \cup {None}]
           /\ down' \in [Socket -> Seq(Message)]
           /\ Wired(entry', down', l)
<1>1. CASE ~ Carries(s)
  BY <1>1 DEF SendAnnounce, swarmVars, Types
<1>2. CASE Carries(s)
  <2>1. s \in Socket /\ JoinSwarm(c, s) /\ Forward(c, offers)
    BY <1>2 DEF SendAnnounce, Carries
  <2>2. entry' \in [Client -> Socket \cup {None}] /\ Wired(entry', down, l)
    BY <2>1, JoinLines
  <2>3. PICK n \in Nat : \E picked \in [1 .. n -> Members \ {c}] :
                            Handed(c, offers, n, picked)
    BY <2>1, ForwardSays
  <2>4. PICK picked \in [1 .. n -> Members \ {c}] : Handed(c, offers, n, picked)
    BY <2>3
  <2>5. down' \in [Socket -> Seq(Message)]
    BY <2>1, ForwardSays
  <2>6. \A t \in Socket : down'[t] # <<>> => \E p \in Page : l[p] = t
    <3> SUFFICES ASSUME NEW t \in Socket, down'[t] # <<>>
                 PROVE  \E p \in Page : l[p] = t
      OBVIOUS
    <3>1. 1 \in DOMAIN down'[t]
      BY <2>5
    <3>2. CASE down[t] # <<>>
      BY <3>2 DEF Wired
    <3>3. CASE down[t] = <<>>
      <4>1. t \notin broken /\ \E j \in 1 .. n : entry[picked[j]] = t
        <5>1. 1 \notin DOMAIN down[t]
          BY <3>3
        <5>2. \/ 1 \in DOMAIN down[t]
              \/ t \notin broken /\ \E j \in 1 .. n : entry[picked[j]] = t
          BY <2>4, <3>1 DEF Handed
        <5> QED
          BY <5>1, <5>2
      <4>2. PICK x \in Client : entry[x] = t
        BY <4>1 DEF Members
      <4> QED
        BY <4>1, <4>2, PageAssumption DEF Wired
    <3> QED
      BY <3>2, <3>3
  <2> QED
    BY <2>2, <2>5, <2>6 DEF Wired
<1> QED
  BY <1>1, <1>2

LEMMA RelayLines ==
    ASSUME Types, NEW c \in Client, NEW s, NEW to \in Client, NEW o \in Offer, NEW l,
           Wired(entry, down, l), s \in Socket => l[PageOf[c]] = s,
           RelayAnswer(c, s, to, o)
    PROVE  /\ entry' \in [Client -> Socket \cup {None}]
           /\ down' \in [Socket -> Seq(Message)]
           /\ Wired(entry', down', l)
<1>1. CASE ~ Carries(s)
  BY <1>1 DEF RelayAnswer, swarmVars, Types
<1>2. CASE Carries(s)
  <2> DEFINE t == entry'[to]
             m == [kind |-> "answer", from |-> c, offer |-> o]
  <2>1. /\ s \in Socket /\ JoinSwarm(c, s)
        /\ down' = IF Carries(t) THEN [down EXCEPT ![t] = Append(@, m)] ELSE down
    BY <1>2 DEF RelayAnswer, Carries
  <2>2. entry' \in [Client -> Socket \cup {None}] /\ Wired(entry', down, l)
    BY <2>1, JoinLines
  <2>3. m \in Message
    BY DEF Message
  <2>4. Carries(t) => l[PageOf[to]] = t /\ PageOf[to] \in Page
    BY <2>2, PageAssumption DEF Wired, Carries
  <2> HIDE DEF t, m
  <2>5. down' \in [Socket -> Seq(Message)]
    BY <2>1, <2>3 DEF Types, Carries
  <2>6. \A u \in Socket : u # t \/ ~ Carries(t) => down'[u] = down[u]
    BY <2>1 DEF Types
  <2>7. \A u \in Socket : down'[u] # <<>> => \E p \in Page : l[p] = u
    BY <2>2, <2>4, <2>6 DEF Wired
  <2> QED
    BY <2>2, <2>5, <2>7 DEF Wired
<1> QED
  BY <1>1, <1>2

(* Announcing puts nothing on the way yet: it makes offers, or has none.   *)
LEMMA AnnounceLines ==
    ASSUME IInv, Types, NEW c \in Client, NEW s, NEW n \in Nat, NEW l,
           Wired(entry, down, l), s \in Socket => l[PageOf[c]] = s,
           Announce(c, s, n)
    PROVE  /\ entry' \in [Client -> Socket \cup {None}]
           /\ Wired(entry', down, l)
           /\ batch' \in [Offer -> SUBSET Offer]
           /\ down' = down
<1> DEFINE made == Cardinality(Made)
           offers == (made + 1) .. Min({made + n, MaxOffers})
<1>1. offers \in SUBSET Offer
  BY FreshOffers
<1>2. /\ batch' = [o \in Offer |-> IF o \in offers THEN offers ELSE batch[o]]
      /\ IF offers = {} THEN SendAnnounce(c, s, {}) ELSE UNCHANGED <<swarmVars, down>>
  BY DEF Announce
<1> HIDE DEF offers
<1>3. batch' \in [Offer -> SUBSET Offer]
  BY <1>1, <1>2 DEF Types
<1>4. CASE offers # {}
  BY <1>2, <1>3, <1>4 DEF swarmVars, Types
<1>5. CASE offers = {}
  <2>1. SendAnnounce(c, s, {})
    BY <1>2, <1>5
  <2>2. down' = down
    BY <2>1, ForwardNothing DEF SendAnnounce
  <2>3. entry' \in [Client -> Socket \cup {None}] /\ Wired(entry', down', l)
    BY <2>1, SendLines
  <2> QED
    BY <1>3, <2>2, <2>3
<1> QED
  BY <1>4, <1>5

(* Who hears a broken page's socket is no longer known by it.              *)
LEMMA CutLines ==
    ASSUME Types, Lines, NEW p \in Page,
           UNCHANGED <<partner, batch, answering, entry, open>>,
           line' = [line EXCEPT ![p] = None],
           down' = [down EXCEPT ![line[p]] = <<>>],
           broken' = broken \cup {line[p]}
    PROVE  Types' /\ Lines'
<1>1. down' \in [Socket -> Seq(Message)]
  <2>1. <<>> \in Seq(Message)
    OBVIOUS
  <2> QED
    BY <2>1 DEF Types
<1>2. line' \in [Page -> Socket \cup {None}]
  BY DEF Types
<1>3. \A x \in Client : entry[x] \in Socket \ broken' => line'[PageOf[x]] = entry[x]
  <2> SUFFICES ASSUME NEW x \in Client, entry[x] \in Socket \ broken'
               PROVE  line'[PageOf[x]] = entry[x]
    OBVIOUS
  <2>1. line[PageOf[x]] = entry[x] /\ entry[x] # line[p]
    BY DEF Lines, Wired
  <2> QED
    BY <2>1, PageAssumption DEF Types
<1>4. \A s \in Socket : down'[s] # <<>> => \E q \in Page : line'[q] = s
  <2> SUFFICES ASSUME NEW s \in Socket, down'[s] # <<>>
               PROVE  \E q \in Page : line'[q] = s
    OBVIOUS
  <2>1. s # line[p] /\ down[s] # <<>>
    BY DEF Types
  <2>2. PICK q \in Page : line[q] = s
    BY <2>1 DEF Lines, Wired
  <2> QED
    BY <2>1, <2>2 DEF Types
<1>5. OnePage(line') /\ \A q \in Page : line'[q] # None => line'[q] \in open' \cup broken'
  BY DEF Lines, OnePage, Types
<1>6. Types'
  BY <1>1, <1>2 DEF Types
<1> QED
  BY <1>3, <1>4, <1>5, <1>6 DEF Lines, Wired

LEMMA LinesStep == PInv /\ [Next]_vars => Types' /\ Lines'
<1> SUFFICES ASSUME PInv, [Next]_vars PROVE Types' /\ Lines'
  OBVIOUS
<1> USE DEF offerVars, swarmVars
<1>0. IInv /\ Types /\ Lines /\ Batches
  BY DEF PInv
<1>1. ASSUME NEW c \in Client, Update(c) PROVE Types' /\ Lines'
  <2>1. PICK n \in {0, NumWant} : Announce(c, LineOf(c), n)
    BY <1>1 DEF Update
  <2>2. UNCHANGED <<line, broken, open, partner, answering>>
    BY <1>1, <2>1 DEF Update, Announce
  <2>3. /\ entry' \in [Client -> Socket \cup {None}]
        /\ Wired(entry', down, line)
        /\ batch' \in [Offer -> SUBSET Offer]
        /\ down' = down
    <3>1. n \in Nat /\ Wired(entry, down, line) /\ line[PageOf[c]] = LineOf(c)
      BY BoundAssumption, <1>0 DEF Lines, LineOf
    <3> QED
      BY <1>0, <2>1, <3>1, AnnounceLines
  <2> QED
    BY <1>0, <2>2, <2>3 DEF Types, Lines, Wired, OnePage
<1>2. ASSUME NEW c \in Client, Connect(c) PROVE Types' /\ Lines'
  <2> DEFINE p == PageOf[c]
             fresh == Socket \ (open \cup broken)
             s == IF line[p] # None THEN line[p] ELSE CHOOSE x \in fresh : TRUE
  <2>1. /\ line[p] # None \/ fresh # {}
        /\ line' = [line EXCEPT ![p] = s]
        /\ open' = open \cup (fresh \cap {s})
        /\ Announce(c, s, NumWant)
        /\ broken' = broken
    BY <1>2 DEF Connect
  <2>2. p \in Page
    BY PageAssumption
  <2>3. s \in Socket /\ (line[p] = None => s \in fresh)
    BY <1>0, <2>1, <2>2 DEF Types
  <2>4. \A q \in Page \ {p} : line[q] # s
    BY <1>0, <2>2, <2>3, NoneAssumption DEF Lines, OnePage
  <2>5. UNCHANGED <<partner, answering>>
    BY <2>1 DEF Announce
  <2> HIDE DEF s, p, fresh
  <2>6. /\ line' \in [Page -> Socket \cup {None}] /\ line'[p] = s
        /\ \A q \in Page \ {p} : line'[q] = line[q]
    BY <1>0, <2>1, <2>2, <2>3 DEF Types
  <2>7. OnePage(line) /\ \A q \in Page : line[q] # None => line[q] \in open \cup broken
    BY <1>0 DEF Lines
  <2>8. OnePage(line')
    BY <2>2, <2>4, <2>6, <2>7 DEF OnePage
  <2>9. \A q \in Page : line'[q] # None => line'[q] \in open' \cup broken'
    <3>1. s \in open' \cup broken'
      BY <1>0, <2>1, <2>2, <2>3 DEF fresh, s, Lines
    <3> QED
      BY <2>1, <2>6, <2>7, <3>1
  <2>10. Wired(entry, down, line')
    <3>1. ASSUME NEW x \in Client, entry[x] \in Socket \ broken
          PROVE  line'[PageOf[x]] = entry[x]
      <4>1. line[PageOf[x]] = entry[x] /\ PageOf[x] \in Page
        BY <1>0, <3>1, PageAssumption DEF Lines, Wired
      <4>2. line[p] # None => s = line[p]
        BY DEF s
      <4> QED
        BY <2>6, <3>1, <4>1, <4>2, NoneAssumption
    <3>2. ASSUME NEW t \in Socket, down[t] # <<>> PROVE \E q \in Page : line'[q] = t
      <4>1. PICK q \in Page : line[q] = t
        BY <1>0, <3>2 DEF Lines, Wired
      <4>2. line[p] # None => s = line[p]
        BY DEF s
      <4> QED
        BY <2>6, <4>1, <4>2, NoneAssumption
    <3> QED
      BY <3>1, <3>2 DEF Wired
  <2>11. /\ entry' \in [Client -> Socket \cup {None}]
         /\ Wired(entry', down, line')
         /\ batch' \in [Offer -> SUBSET Offer]
         /\ down' = down
    BY <1>0, <2>1, <2>6, <2>10, AnnounceLines, BoundAssumption DEF p
  <2> QED
    BY <1>0, <2>1, <2>5, <2>6, <2>8, <2>9, <2>11 DEF Types, Lines, Wired, OnePage
<1>3. ASSUME NEW c \in Client, Stop(c) PROVE Types' /\ Lines'
  <2>1. /\ UNCHANGED <<partner, batch, answering, line, broken, down, open>>
        /\ entry' = entry \/ entry' = [entry EXCEPT ![c] = None]
    BY <1>3 DEF Stop, SendStop
  <2>2. Types'
    BY <1>0, <2>1 DEF Types
  <2>3. \A x \in Client : entry'[x] = entry[x] \/ entry'[x] = None
    BY <1>0, <2>1 DEF Types
  <2> QED
    BY <1>0, <2>1, <2>2, <2>3, NoneAssumption DEF Lines, Wired, OnePage
<1>4. ASSUME NEW c \in Client, Destroy(c) PROVE Types' /\ Lines'
  <2>1. UNCHANGED <<partner, batch, answering, entry, open>>
    BY <1>4 DEF Destroy, DestroyPeers
  <2>2. CASE Users(PageOf[c]) = {c}
    <3>1. /\ line' = [line EXCEPT ![PageOf[c]] = None]
          /\ broken' = broken \cup {LineOf(c)}
          /\ down' = [down EXCEPT ![LineOf(c)] = <<>>]
      BY <1>4, <2>2 DEF Destroy
    <3> QED
      BY <1>0, <2>1, <3>1, CutLines, PageAssumption DEF LineOf
  <2>3. CASE Users(PageOf[c]) # {c}
    <3>1. UNCHANGED <<line, broken, down>>
      BY <1>4, <2>3 DEF Destroy
    <3> QED
      BY <1>0, <2>1, <3>1 DEF Types, Lines, Wired, OnePage
  <2> QED
    BY <2>2, <2>3
<1>5. ASSUME NEW o \in Offer, Signal(o) PROVE Types' /\ Lines'
  <2>1. UNCHANGED <<partner, batch, answering, line, broken, open>>
    BY <1>5 DEF Signal
  <2>2. CASE ~ (batch[o] \subseteq signalled')
    BY <1>0, <1>5, <2>1, <2>2 DEF Signal, Types, Lines, Wired, OnePage
  <2>3. CASE batch[o] \subseteq signalled'
    <3>1. SendAnnounce(maker[o], LineOf(maker[o]), batch[o])
      BY <1>5, <2>3 DEF Signal
    <3>2. maker[o] \in Client /\ batch[o] \in SUBSET Offer
      BY <1>0, <1>5 DEF Signal, Made, Batches, Types
    <3>3. /\ entry' \in [Client -> Socket \cup {None}]
          /\ down' \in [Socket -> Seq(Message)]
          /\ Wired(entry', down', line)
      BY <1>0, <3>1, <3>2, SendLines DEF Lines, LineOf
    <3> QED
      BY <1>0, <2>1, <3>3 DEF Types, Lines, Wired, OnePage
  <2> QED
    BY <2>2, <2>3
<1>6. ASSUME NEW o \in Offer, PeerFails(o) \/ OfferTimeout(o) \/ Release(o)
      PROVE  Types' /\ Lines'
  BY <1>0, <1>6 DEF PeerFails, OfferTimeout, Release, Types, Lines, Wired, OnePage
<1>7. ASSUME NEW a \in answering, SendAnswer(a) PROVE Types' /\ Lines'
  <2>1. /\ UNCHANGED <<partner, batch, line, broken, open>>
        /\ answering' = answering \ {a}
    BY <1>7 DEF SendAnswer
  <2>2. CASE tracker[a.by] # "up"
    BY <1>0, <1>7, <2>1, <2>2 DEF SendAnswer, Types, Lines, Wired, OnePage
  <2>3. CASE tracker[a.by] = "up"
    <3>1. RelayAnswer(a.by, LineOf(a.by), a.to, a.offer)
      BY <1>7, <2>3 DEF SendAnswer
    <3>2. a.by \in Client /\ a.to \in Client /\ a.offer \in Offer
      BY <1>0 DEF Types
    <3>3. /\ entry' \in [Client -> Socket \cup {None}]
          /\ down' \in [Socket -> Seq(Message)]
          /\ Wired(entry', down', line)
      BY <1>0, <3>1, <3>2, RelayLines DEF Lines, LineOf
    <3> QED
      BY <1>0, <2>1, <3>3 DEF Types, Lines, Wired, OnePage
  <2> QED
    BY <2>2, <2>3
<1>8. ASSUME NEW p \in Page, Receive(p) PROVE Types' /\ Lines'
  <2> DEFINE s == line[p]
             m == Head(down[s])
  <2>1. /\ s # None /\ down[s] # <<>>
        /\ IF m.kind = "offer" THEN OnOffer(m, Users(p)) ELSE OnAnswer(m, Users(p))
        /\ down' = [down EXCEPT ![s] = Tail(@)]
        /\ UNCHANGED <<line, broken, open, entry>>
    BY <1>8 DEF Receive
  <2>2. s \in Socket /\ m \in Message /\ Tail(down[s]) \in Seq(Message)
    BY <1>0, <2>1 DEF Types
  <2>3. down' \in [Socket -> Seq(Message)]
    BY <1>0, <2>1, <2>2 DEF Types
  <2>4. \A t \in Socket : down'[t] # <<>> => down[t] # <<>>
    BY <1>0, <2>1, <2>2 DEF Types
  <2> HIDE DEF m, s
  <2>5. /\ partner' \in [Offer -> Client \cup {None}]
        /\ batch' = batch
        /\ answering' \in SUBSET [by : Client, to : Client, offer : Offer]
    <3>1. CASE OnOffer(m, Users(p))
      BY <1>0, <2>2, <3>1 DEF OnOffer, Types, Message, Users
    <3>2. CASE OnAnswer(m, Users(p))
      BY <1>0, <2>2, <3>2 DEF OnAnswer, Types, Message
    <3> QED
      BY <2>1, <3>1, <3>2
  <2> QED
    BY <1>0, <2>1, <2>3, <2>4, <2>5 DEF Types, Lines, Wired, OnePage
<1>9. ASSUME NEW p \in Page, SocketCloses(p) PROVE Types' /\ Lines'
  <2>1. /\ UNCHANGED <<partner, batch, answering, entry, open, broken>>
        /\ line[p] \in broken
        /\ line' = [line EXCEPT ![p] = None]
        /\ down' = [down EXCEPT ![line[p]] = <<>>]
    BY <1>9 DEF SocketCloses, DestroyPeers
  <2>2. broken' = broken \cup {line[p]}
    BY <2>1
  <2> QED
    BY <1>0, <2>1, <2>2, CutLines
<1>10. ASSUME NEW s \in Socket, ServerCloses(s) PROVE Types' /\ Lines'
  <2>1. /\ s \in broken
        /\ open' = open \ {s}
        /\ UNCHANGED <<partner, batch, answering, line, broken, down>>
        /\ entry' = entry \/ entry' = [entry EXCEPT ![owner[s]] = None]
    BY <1>10 DEF ServerCloses
  <2>2. Types'
    BY <1>0, <2>1 DEF Types
  <2>3. \A x \in Client : entry'[x] = entry[x] \/ entry'[x] = None
    BY <1>0, <2>1 DEF Types
  <2> QED
    BY <1>0, <2>1, <2>2, <2>3, NoneAssumption DEF Lines, Wired, OnePage
<1>11. ASSUME NEW s \in Socket, Breaks(s) PROVE Types' /\ Lines'
  BY <1>0, <1>11 DEF Breaks, Types, Lines, Wired, OnePage
<1>12. CASE UNCHANGED vars
  BY <1>0, <1>12 DEF vars, Types, Lines, Wired, OnePage
<1> QED
  BY <1>1, <1>2, <1>3, <1>4, <1>5, <1>6, <1>7, <1>8, <1>9, <1>10, <1>11, <1>12 DEF Next

(* What an offer was made by and with does not change.                     *)
Kept ==
    /\ signalled \subseteq signalled'
    /\ \A o \in Made : o \in Made' /\ batch'[o] = batch[o] /\ maker'[o] = maker[o]

LEMMA AnnounceBatches ==
    ASSUME IInv, Types, Batches, NEW c \in Client, NEW s, NEW n \in Nat, Announce(c, s, n)
    PROVE  Batches' /\ Kept
<1> DEFINE made == Cardinality(Made)
           offers == (made + 1) .. Min({made + n, MaxOffers})
<1>1. offers \in SUBSET Offer /\ \A o \in offers : phase[o] = "free"
  BY FreshOffers
<1>2. /\ phase' = [o \in Offer |-> IF o \in offers THEN "waiting" ELSE phase[o]]
      /\ maker' = [o \in Offer |-> IF o \in offers THEN c ELSE maker[o]]
      /\ batch' = [o \in Offer |-> IF o \in offers THEN offers ELSE batch[o]]
      /\ signalled' = signalled
  BY DEF Announce
<1> HIDE DEF offers
<1>3. Made' = Made \cup offers /\ Made \cap offers = {}
  BY <1>1, <1>2 DEF Made
<1>4. Kept
  BY <1>2, <1>3 DEF Kept, Made
<1>5. Batches'
  <2>1. ASSUME NEW o \in Made
        PROVE  /\ maker'[o] \in Client
               /\ o \in batch'[o] /\ batch'[o] \subseteq Made'
               /\ \A b \in batch'[o] : batch'[b] = batch'[o] /\ maker'[b] = maker'[o]
    <3>1. /\ maker[o] \in Client /\ o \in batch[o] /\ batch[o] \subseteq Made
          /\ \A b \in batch[o] : batch[b] = batch[o] /\ maker[b] = maker[o]
      BY <2>1 DEF Batches
    <3> QED
      BY <1>3, <1>4, <2>1, <3>1 DEF Kept
  <2>2. ASSUME NEW o \in offers
        PROVE  /\ maker'[o] \in Client
               /\ o \in batch'[o] /\ batch'[o] \subseteq Made'
               /\ \A b \in batch'[o] : batch'[b] = batch'[o] /\ maker'[b] = maker'[o]
    BY <1>1, <1>2, <1>3, <2>2
  <2>3. signalled' \subseteq Made'
    BY <1>2, <1>3 DEF Batches
  <2> QED
    BY <1>3, <2>1, <2>2, <2>3 DEF Batches
<1> QED
  BY <1>4, <1>5

LEMMA SameBatches ==
    ASSUME Batches, UNCHANGED <<batch, maker, signalled>>,
           \A o \in Offer : phase'[o] = "free" <=> phase[o] = "free"
    PROVE  Batches' /\ Kept
<1>1. Made' = Made
  BY DEF Made
<1> QED
  BY <1>1 DEF Batches, Kept

LEMMA BatchesStep == PInv /\ [Next]_vars => Batches' /\ Kept
<1> SUFFICES ASSUME PInv, [Next]_vars PROVE Batches' /\ Kept
  OBVIOUS
<1> USE DEF offerVars
<1>0. IInv /\ Types /\ Batches
  BY DEF PInv
<1>a. TypeOK /\ Held
  BY <1>0 DEF IInv
<1>1. ASSUME NEW c \in Client, Update(c) \/ Connect(c) PROVE Batches' /\ Kept
  <2>1. PICK s : \E n \in Nat : Announce(c, s, n)
    BY <1>1, BoundAssumption DEF Update, Connect
  <2> QED
    BY <1>0, <2>1, AnnounceBatches
<1>2. ASSUME NEW c \in Client, Stop(c) PROVE Batches' /\ Kept
  BY <1>0, <1>2, SameBatches DEF Stop
<1>3. ASSUME NEW cs, cs \subseteq Client, DestroyPeers(cs) PROVE Batches' /\ Kept
  <2> DEFINE gone == UNION {peers[c] : c \in cs}
  <2>1. /\ phase' = [o \in Offer |-> IF o \in gone THEN "dead" ELSE phase[o]]
        /\ UNCHANGED <<batch, maker, signalled>>
    BY <1>3 DEF DestroyPeers
  <2>2. \A o \in gone : phase[o] # "free"
    BY <1>a, <1>3 DEF Held, Loose, Open
  <2> HIDE DEF gone
  <2> QED
    BY <1>0, <2>1, <2>2, SameBatches
<1>4. ASSUME NEW c \in Client, Destroy(c) PROVE Batches' /\ Kept
  BY <1>3, <1>4 DEF Destroy
<1>5. ASSUME NEW p \in Page, SocketCloses(p) PROVE Batches' /\ Kept
  BY <1>3, <1>5 DEF SocketCloses, Users
<1>6. ASSUME NEW o \in Offer, Signal(o) PROVE Batches' /\ Kept
  <2>1. /\ phase[o] = "waiting" /\ UNCHANGED <<phase, batch, maker>>
        /\ signalled' = signalled \cup {o}
    BY <1>6 DEF Signal
  <2>2. Made' = Made /\ o \in Made
    BY <2>1 DEF Made
  <2> QED
    BY <1>0, <2>1, <2>2 DEF Batches, Kept
<1>7. ASSUME NEW o \in Offer, PeerFails(o) PROVE Batches' /\ Kept
  BY <1>0, <1>a, <1>7, SameBatches DEF PeerFails, TypeOK
<1>8. ASSUME NEW o \in Offer, OfferTimeout(o) PROVE Batches' /\ Kept
  <2>1. phase[o] # "free"
    BY <1>a, <1>8 DEF OfferTimeout, Held, Loose, Open
  <2> QED
    BY <1>0, <1>a, <1>8, <2>1, SameBatches DEF OfferTimeout, TypeOK
<1>9. ASSUME NEW a \in answering, SendAnswer(a) PROVE Batches' /\ Kept
  BY <1>0, <1>9, SameBatches DEF SendAnswer
<1>10. ASSUME NEW p \in Page, Receive(p) PROVE Batches' /\ Kept
  <2>1. PICK m : OnOffer(m, Users(p)) \/ OnAnswer(m, Users(p))
    BY <1>10 DEF Receive
  <2>2. UNCHANGED <<batch, maker, signalled>>
    BY <2>1 DEF OnOffer, OnAnswer
  <2>3. CASE phase' = phase
    BY <1>0, <2>2, <2>3, SameBatches
  <2>4. CASE phase' # phase
    <3>1. /\ \E c \in Users(p) : m.offer \in peers[c]
          /\ phase' = [phase EXCEPT ![m.offer] = IF @ = "waiting" THEN "met" ELSE "corpse"]
      BY <2>1, <2>4 DEF OnOffer, OnAnswer
    <3>2. m.offer \in Offer /\ phase[m.offer] # "free"
      BY <1>a, <3>1 DEF Users, Held, Loose, Open, TypeOK
    <3> QED
      BY <1>0, <1>a, <2>2, <3>1, <3>2, SameBatches DEF TypeOK
  <2> QED
    BY <2>3, <2>4
<1>11. ASSUME NEW s \in Socket, ServerCloses(s) \/ Breaks(s) PROVE Batches' /\ Kept
  BY <1>0, <1>11, SameBatches DEF ServerCloses, Breaks
<1>12. ASSUME NEW o \in Offer, Release(o) PROVE Batches' /\ Kept
  BY <1>0, <1>12, SameBatches DEF Release
<1>13. CASE UNCHANGED vars
  BY <1>0, <1>13, SameBatches DEF vars
<1> QED
  BY <1>1, <1>2, <1>4, <1>5, <1>6, <1>7, <1>8, <1>9, <1>10, <1>11, <1>12, <1>13 DEF Next

(* A step that takes no offer to a new page keeps the paths.               *)
NoNewPage ==
    /\ \A o \in Offer, p \in Page : Reached(o, p)' => Reached(o, p)
    /\ \A o \in Offer : partner'[o] # None =>
          partner'[o] = partner[o] \/ (o \in Made /\ partner'[o] # maker[o])

LEMMA PathsStay ==
    ASSUME PInv, Kept, Types', NoNewPage
    PROVE  Paths'
<1>0. Types /\ Batches /\ Paths
  BY DEF PInv
<1>1. ASSUME NEW o \in Offer, NEW p \in Page, Reached(o, p)' PROVE Path(o, p)'
  <2>1. Path(o, p)
    BY <1>0, <1>1 DEF NoNewPage, Paths
  <2>2. /\ o \in Made /\ o \in Made' /\ batch'[o] = batch[o] /\ maker'[o] = maker[o]
        /\ batch[o] \subseteq signalled' /\ batch[o] \subseteq Offer
    BY <1>0, <2>1 DEF Path, Kept, Types
  <2>3. \A b \in batch[o] : Reached(b, p)' => Reached(b, p)
    BY <2>2 DEF NoNewPage
  <2>4. \A b \in batch[o] \ {o} : Reached(b, p)' => TwoOthers(maker[o], p)
    BY <2>1, <2>3 DEF Path
  <2>5. TwoOthers(maker[o], p)' <=> TwoOthers(maker[o], p)
    BY <2>2 DEF TwoOthers
  <2> QED
    BY <2>2, <2>4, <2>5 DEF Path
<1>2. ASSUME NEW o \in Offer, partner'[o] # None PROVE partner'[o] # maker'[o]
  <2>1. CASE partner'[o] = partner[o]
    <3>1. Reached(o, PageOf[partner[o]]) /\ PageOf[partner[o]] \in Page
      BY <1>0, <1>2, <2>1, PageAssumption DEF Reached, Answered, Types
    <3>2. o \in Made
      BY <1>0, <3>1 DEF Paths, Path
    <3> QED
      BY <1>0, <1>2, <2>1, <3>2 DEF Kept, Paths
  <2>2. CASE partner'[o] # partner[o]
    BY <1>2, <2>2 DEF NoNewPage, Kept
  <2> QED
    BY <2>1, <2>2
<1> QED
  BY <1>1, <1>2 DEF Paths

(* Where offers are depends on four variables, and on what a page is still *)
(* to hear.                                                                *)
LEMMA LessHeard ==
    ASSUME Types, UNCHANGED <<partner, answering>>,
           \A p \in Page : line'[p] \in Socket /\ down'[line'[p]] # <<>> => line'[p] = line[p],
           \A s \in Socket : down'[s] = down[s] \/ down'[s] = <<>>
    PROVE  NoNewPage
<1>1. ASSUME NEW s \in Socket, NEW o \in Offer, NEW k \in {"offer", "answer"},
             NEW i \in About(down', s, o, k)
      PROVE  down'[s] = down[s] /\ down'[s] # <<>>
  <2>1. i \in DOMAIN down'[s]
    BY <1>1 DEF About
  <2> QED
    BY <2>1
<1>2. ASSUME NEW o \in Offer, NEW p \in Page, Invited(o, p)' PROVE Invited(o, p)
  <2>1. line'[p] \in Socket /\ \E i : i \in About(down', line'[p], o, "offer")
    BY <1>2 DEF Invited
  <2>2. line'[p] = line[p] /\ down'[line[p]] = down[line[p]]
    BY <1>1, <2>1
  <2> QED
    BY <2>1, <2>2 DEF Invited, About
<1>3. ASSUME NEW o \in Offer, NEW p \in Page, Answered(o, p)' PROVE Answered(o, p)
  <2>1. CASE \E s \in Socket : \E i \in About(down', s, o, "answer") :
                PageOf[down'[s][i].from] = p
    <3>1. PICK s \in Socket : \E i \in About(down', s, o, "answer") :
                PageOf[down'[s][i].from] = p
      BY <2>1
    <3>2. down'[s] = down[s]
      BY <1>1, <3>1
    <3> QED
      BY <3>1, <3>2 DEF Answered, About
  <2>2. CASE ~ \E s \in Socket : \E i \in About(down', s, o, "answer") :
                PageOf[down'[s][i].from] = p
    BY <1>3, <2>2 DEF Answered
  <2> QED
    BY <2>1, <2>2
<1> QED
  BY <1>2, <1>3 DEF NoNewPage, Reached

LEMMA SameHeard ==
    ASSUME Types, UNCHANGED <<partner, answering, line, down>>
    PROVE  NoNewPage
  BY LessHeard

(* The offers of a batch are handed to different members, each of whom has *)
(* its page to itself or shares it with another.                           *)
LEMMA SignalPaths ==
    ASSUME PInv, NEW o \in Offer, Signal(o), Kept
    PROVE  Paths'
<1> DEFINE c == maker[o]
<1>0. IInv /\ Types /\ Lines /\ Batches /\ Paths
  BY DEF PInv
<1>1. /\ o \in Made /\ o \notin signalled /\ signalled' = signalled \cup {o}
      /\ UNCHANGED <<partner, answering, line, batch, maker, phase>>
  BY DEF Signal, Made
<1>2. Made' = Made
  BY <1>1 DEF Made
<1>3. /\ c \in Client /\ o \in batch[o] /\ batch[o] \subseteq Made
      /\ \A b \in batch[o] : batch[b] = batch[o] /\ maker[b] = c
      /\ batch[o] \in SUBSET Offer
  BY <1>0, <1>1 DEF Batches, Types
<1>4. \A b \in batch[o], p \in Page : ~ Reached(b, p)
  BY <1>0, <1>1, <1>3 DEF Paths, Path
<1>5. \A b \in Offer : partner'[b] # None => partner'[b] # maker'[b]
  BY <1>0, <1>1 DEF Paths
<1>6. CASE down' = down
  <2>1. \A b \in Offer, p \in Page : Reached(b, p)' <=> Reached(b, p)
    BY <1>1, <1>6 DEF Reached, Invited, Answered, About
  <2>2. \A b \in Offer, p \in Page : Path(b, p) => Path(b, p)'
    <3> SUFFICES ASSUME NEW b \in Offer, NEW p \in Page, Path(b, p) PROVE Path(b, p)'
      OBVIOUS
    <3>1. batch[b] \subseteq Offer
      BY <1>0 DEF Types
    <3> QED
      BY <1>1, <1>2, <2>1, <3>1 DEF Path, TwoOthers
  <2> QED
    BY <1>0, <1>5, <2>1, <2>2 DEF Paths
<1>7. CASE down' # down
  <2>1. batch[o] \subseteq signalled' /\ Forward(c, batch[o])
    BY <1>7 DEF Signal, SendAnnounce
  <2>2. PICK n \in Nat : \E picked \in [1 .. n -> Members \ {c}] :
                            Handed(c, batch[o], n, picked)
    BY <1>0, <1>3, <2>1, ForwardSays
  <2>3. PICK picked \in [1 .. n -> Members \ {c}] : Handed(c, batch[o], n, picked)
    BY <2>2
  <2> DEFINE For(b, p) == \E j \in 1 .. n :
                            /\ Sorted(batch[o])[j] = b
                            /\ entry[picked[j]] = line[p] /\ line[p] \in Socket \ broken
  <2>4. ASSUME NEW s \in Socket, NEW i \in DOMAIN down'[s]
        PROVE  \/ i \in DOMAIN down[s] /\ down'[s][i] = down[s][i]
               \/ /\ s \notin broken
                  /\ down'[s][i].kind = "offer"
                  /\ \E j \in 1 .. n : entry[picked[j]] = s
                                       /\ down'[s][i].offer = Sorted(batch[o])[j]
    <3>1. \/ i \in DOMAIN down[s] /\ down'[s][i] = down[s][i]
          \/ /\ s \notin broken
             /\ \E j \in 1 .. n :
                  /\ entry[picked[j]] = s
                  /\ down'[s][i] = [kind |-> "offer", from |-> c,
                                    offer |-> Sorted(batch[o])[j]]
      BY <2>3, <2>4 DEF Handed
    <3>2. ASSUME NEW j \in 1 .. n,
                 down'[s][i] = [kind |-> "offer", from |-> c, offer |-> Sorted(batch[o])[j]]
          PROVE  down'[s][i].kind = "offer" /\ down'[s][i].offer = Sorted(batch[o])[j]
      BY <3>2
    <3> HIDE DEF c
    <3> QED
      BY <3>1, <3>2
  <2>5. ASSUME NEW b \in Offer, NEW p \in Page, Invited(b, p)'
        PROVE  Invited(b, p) \/ For(b, p)
    <3>1. PICK i \in DOMAIN down'[line[p]] :
             /\ line[p] \in Socket
             /\ down'[line[p]][i].kind = "offer" /\ down'[line[p]][i].offer = b
      BY <1>1, <2>5 DEF Invited, About
    <3>2. CASE i \in DOMAIN down[line[p]] /\ down'[line[p]][i] = down[line[p]][i]
      BY <3>1, <3>2 DEF Invited, About
    <3>3. CASE /\ line[p] \notin broken
               /\ \E j \in 1 .. n : entry[picked[j]] = line[p]
                                    /\ down'[line[p]][i].offer = Sorted(batch[o])[j]
      BY <3>1, <3>3
    <3> QED
      BY <2>4, <3>1, <3>2, <3>3
  <2>6. ASSUME NEW b \in Offer, NEW p \in Page, Answered(b, p)'
        PROVE  Answered(b, p)
    <3>1. CASE \E s \in Socket : \E i \in About(down', s, b, "answer") :
                  PageOf[down'[s][i].from] = p
      <4>1. PICK s \in Socket : \E i \in About(down', s, b, "answer") :
                  PageOf[down'[s][i].from] = p
        BY <3>1
      <4>2. PICK i \in DOMAIN down'[s] :
              /\ down'[s][i].kind = "answer" /\ down'[s][i].offer = b
              /\ PageOf[down'[s][i].from] = p
        BY <4>1 DEF About
      <4>3. i \in DOMAIN down[s] /\ down'[s][i] = down[s][i]
        BY <2>4, <4>2
      <4> QED
        BY <4>2, <4>3 DEF Answered, About
    <3>2. CASE ~ \E s \in Socket : \E i \in About(down', s, b, "answer") :
                  PageOf[down'[s][i].from] = p
      BY <1>1, <2>6, <3>2 DEF Answered
    <3> QED
      BY <3>1, <3>2
  <2>7. \A b \in Offer, p \in Page : For(b, p) => b \in batch[o]
    BY <2>3 DEF Handed
  <2>8. ASSUME NEW b \in Offer, NEW d \in Offer, NEW p \in Page, b # d, For(b, p), For(d, p)
        PROVE  TwoOthers(c, p)
    <3>1. PICK j \in 1 .. n : /\ Sorted(batch[o])[j] = b /\ entry[picked[j]] = line[p]
                              /\ line[p] \in Socket \ broken
      BY <2>8
    <3>2. PICK k \in 1 .. n : Sorted(batch[o])[k] = d /\ entry[picked[k]] = line[p]
      BY <2>8
    <3>3. picked[j] # picked[k]
      BY <2>3, <2>8, <3>1, <3>2 DEF Handed, IsInjective
    <3>4. /\ picked[j] \in Client \ {c} /\ picked[k] \in Client \ {c}
          /\ PageOf[picked[j]] \in Page /\ PageOf[picked[k]] \in Page
      BY PageAssumption DEF Members
    <3>5. line[PageOf[picked[j]]] = line[p] /\ line[PageOf[picked[k]]] = line[p]
      BY <1>0, <3>1, <3>2, <3>4 DEF Lines, Wired
    <3>6. PageOf[picked[j]] = p /\ PageOf[picked[k]] = p
      BY <1>0, <3>1, <3>4, <3>5, NoneAssumption DEF Lines, OnePage
    <3> QED
      BY <3>3, <3>4, <3>6 DEF TwoOthers
  <2> HIDE DEF For
  <2>9. \A b \in Offer, p \in Page : Reached(b, p)' => Reached(b, p) \/ For(b, p)
    BY <2>5, <2>6 DEF Reached
  <2>10. ASSUME NEW b \in Offer, NEW p \in Page, Reached(b, p)' PROVE Path(b, p)'
    <3>1. CASE b \in batch[o]
      <4>1. batch[b] = batch[o] /\ maker[b] = c /\ b \in Made'
        BY <1>2, <1>3, <3>1
      <4>2. \A d \in batch[o] : Reached(d, p)' => For(d, p)
        BY <1>3, <1>4, <2>9
      <4>3. \A d \in batch[o] \ {b} : Reached(d, p)' => TwoOthers(c, p)
        BY <1>3, <2>8, <2>10, <3>1, <4>2
      <4> QED
        BY <1>1, <2>1, <4>1, <4>3 DEF Path, TwoOthers
    <3>2. CASE b \notin batch[o]
      <4>1. Reached(b, p)
        BY <2>7, <2>9, <2>10, <3>2
      <4>2. Path(b, p)
        BY <1>0, <4>1 DEF Paths
      <4>3. \A d \in batch[b] : d \in Offer /\ d \notin batch[o]
        BY <1>0, <1>3, <3>2, <4>2 DEF Path, Batches, Types
      <4>4. \A d \in batch[b] : Reached(d, p)' => Reached(d, p)
        BY <2>7, <2>9, <4>3
      <4> QED
        BY <1>1, <1>2, <4>2, <4>4 DEF Path, TwoOthers
    <3> QED
      BY <3>1, <3>2
  <2> QED
    BY <1>5, <2>10 DEF Paths
<1> QED
  BY <1>6, <1>7

LEMMA PathsStep ==
    ASSUME PInv, [Next]_vars, Kept, Types'
    PROVE  Paths'
<1> USE DEF offerVars
<1>0. IInv /\ Types /\ Lines /\ Batches /\ Paths
  BY DEF PInv
<1>a. TypeOK /\ Held
  BY <1>0 DEF IInv
<1>1. ASSUME NEW c \in Client, Update(c) PROVE Paths'
  <2>1. PICK n \in {0, NumWant} : Announce(c, LineOf(c), n)
    BY <1>1 DEF Update
  <2>2. n \in Nat /\ Wired(entry, down, line) /\ line[PageOf[c]] = LineOf(c)
    BY BoundAssumption, <1>0 DEF Lines, LineOf
  <2>3. UNCHANGED <<partner, answering, line, down>>
    <3>1. down' = down
      BY <1>0, <2>1, <2>2, AnnounceLines
    <3> QED
      BY <1>1, <2>1, <3>1 DEF Update, Announce
  <2> QED
    BY <1>0, <2>3, SameHeard, PathsStay
<1>2. ASSUME NEW c \in Client, Connect(c) PROVE Paths'
  <2> DEFINE p == PageOf[c]
             fresh == Socket \ (open \cup broken)
             s == IF line[p] # None THEN line[p] ELSE CHOOSE x \in fresh : TRUE
             made == Cardinality(Made)
             offers == (made + 1) .. Min({made + NumWant, MaxOffers})
  <2>1. /\ line[p] # None \/ fresh # {}
        /\ line' = [line EXCEPT ![p] = s]
        /\ Announce(c, s, NumWant)
    BY <1>2 DEF Connect
  <2>2. p \in Page
    BY PageAssumption
  <2>3. line[p] = None => s \in fresh
    BY <2>1
  <2>4. UNCHANGED <<partner, answering>>
    BY <2>1 DEF Announce
  <2>5. down' = down
    <3>1. offers = {} => SendAnnounce(c, s, {})
      BY <2>1 DEF Announce
    <3>2. offers # {} => down' = down
      BY <2>1 DEF Announce
    <3> QED
      BY <1>0, <3>1, <3>2, ForwardNothing DEF SendAnnounce
  <2>6. line[p] # None => line' = line
    BY <1>0, <2>1 DEF Types
  <2>7. line[p] = None => down[s] = <<>>
    <3> SUFFICES ASSUME line[p] = None, down[s] # <<>> PROVE FALSE
      OBVIOUS
    <3>1. s \in fresh
      BY <2>3
    <3>2. PICK q \in Page : line[q] = s
      BY <1>0, <3>1 DEF Lines, Wired
    <3> QED
      BY <1>0, <3>1, <3>2, NoneAssumption DEF Lines
  <2> HIDE DEF s, fresh, p
  <2>8. \A q \in Page : line'[q] \in Socket /\ down'[line'[q]] # <<>> => line'[q] = line[q]
    <3>1. CASE line[p] # None
      BY <2>6, <3>1
    <3>2. CASE line[p] = None
      <4>1. \A q \in Page : IF q = p THEN line'[q] = s ELSE line'[q] = line[q]
        BY <1>0, <2>1 DEF Types
      <4> QED
        BY <2>5, <2>7, <3>2, <4>1
    <3> QED
      BY <3>1, <3>2
  <2>9. NoNewPage
    BY <1>0, <2>4, <2>5, <2>8, LessHeard
  <2> QED
    BY <2>9, PathsStay
<1>3. ASSUME NEW c \in Client, Stop(c) PROVE Paths'
  BY <1>0, <1>3, SameHeard, PathsStay DEF Stop
<1>4. ASSUME NEW p \in Page, UNCHANGED <<partner, answering>>,
             line' = [line EXCEPT ![p] = None],
             down' = [down EXCEPT ![line[p]] = <<>>]
      PROVE  Paths'
  <2>1. \A q \in Page : line'[q] \in Socket => line'[q] = line[q]
    BY <1>0, <1>4, NoneAssumption DEF Types
  <2>2. \A s \in Socket : down'[s] = down[s] \/ down'[s] = <<>>
    BY <1>0, <1>4 DEF Types
  <2>3. NoNewPage
    BY <1>0, <1>4, <2>1, <2>2, LessHeard
  <2> QED
    BY <2>3, PathsStay
<1>5. ASSUME NEW c \in Client, Destroy(c) PROVE Paths'
  <2>1. UNCHANGED <<partner, answering>>
    BY <1>5 DEF Destroy, DestroyPeers
  <2>2. CASE Users(PageOf[c]) = {c}
    <3>1. /\ line' = [line EXCEPT ![PageOf[c]] = None]
          /\ down' = [down EXCEPT ![LineOf(c)] = <<>>]
      BY <1>5, <2>2 DEF Destroy
    <3> QED
      BY <1>4, <2>1, <3>1, PageAssumption DEF LineOf
  <2>3. CASE Users(PageOf[c]) # {c}
    BY <1>0, <1>5, <2>1, <2>3, SameHeard, PathsStay DEF Destroy
  <2> QED
    BY <2>2, <2>3
<1>6. ASSUME NEW p \in Page, SocketCloses(p) PROVE Paths'
  BY <1>4, <1>6 DEF SocketCloses, DestroyPeers
<1>7. ASSUME NEW o \in Offer, Signal(o) PROVE Paths'
  BY <1>7, SignalPaths
<1>8. ASSUME NEW o \in Offer, PeerFails(o) \/ OfferTimeout(o) \/ Release(o) PROVE Paths'
  BY <1>0, <1>8, SameHeard, PathsStay DEF PeerFails, OfferTimeout, Release
<1>9. ASSUME NEW a \in answering, SendAnswer(a) PROVE Paths'
  <2> DEFINE t == entry'[a.to]
             m == [kind |-> "answer", from |-> a.by, offer |-> a.offer]
  <2>1. /\ UNCHANGED <<partner, line>>
        /\ answering' = answering \ {a}
        /\ down' = down \/ (Carries(t) /\ down' = [down EXCEPT ![t] = Append(@, m)])
    BY <1>9 DEF SendAnswer, RelayAnswer
  <2>2. a.by \in Client /\ a.offer \in Offer /\ m \in Message
    BY <1>0 DEF Types, Message
  <2>3. m.kind = "answer" /\ m.from = a.by /\ m.offer = a.offer
    OBVIOUS
  <2> HIDE DEF t, m
  <2>4. ASSUME NEW s \in Socket, NEW i \in DOMAIN down'[s]
        PROVE  \/ i \in DOMAIN down[s] /\ down'[s][i] = down[s][i]
               \/ down'[s][i] = m
    <3>1. CASE down'[s] = down[s]
      BY <2>4, <3>1
    <3>2. CASE down'[s] = Append(down[s], m)
      <4>1. down[s] \in Seq(Message)
        BY <1>0 DEF Types
      <4> QED
        BY <2>2, <2>4, <3>2, <4>1
    <3>3. down'[s] = down[s] \/ down'[s] = Append(down[s], m)
      BY <1>0, <2>1 DEF Types
    <3> QED
      BY <3>1, <3>2, <3>3
  <2>5. ASSUME NEW o \in Offer, NEW p \in Page, Invited(o, p)' PROVE Invited(o, p)
    <3>1. PICK i \in DOMAIN down'[line[p]] :
             /\ line[p] \in Socket
             /\ down'[line[p]][i].kind = "offer" /\ down'[line[p]][i].offer = o
      BY <2>1, <2>5 DEF Invited, About
    <3>2. i \in DOMAIN down[line[p]] /\ down'[line[p]][i] = down[line[p]][i]
      BY <2>3, <2>4, <3>1
    <3> QED
      BY <3>1, <3>2 DEF Invited, About
  <2>6. ASSUME NEW o \in Offer, NEW p \in Page, Answered(o, p)' PROVE Answered(o, p)
    <3>1. CASE \E s \in Socket : \E i \in About(down', s, o, "answer") :
                  PageOf[down'[s][i].from] = p
      <4>1. PICK s \in Socket : \E i \in About(down', s, o, "answer") :
                  PageOf[down'[s][i].from] = p
        BY <3>1
      <4>2. PICK i \in DOMAIN down'[s] :
              /\ down'[s][i].kind = "answer" /\ down'[s][i].offer = o
              /\ PageOf[down'[s][i].from] = p
        BY <4>1 DEF About
      <4>3. CASE i \in DOMAIN down[s] /\ down'[s][i] = down[s][i]
        BY <4>2, <4>3 DEF Answered, About
      <4>4. CASE down'[s][i] = m
        BY <1>9, <2>3, <4>2, <4>4 DEF Answered
      <4> QED
        BY <2>4, <4>3, <4>4
    <3>2. CASE ~ \E s \in Socket : \E i \in About(down', s, o, "answer") :
                  PageOf[down'[s][i].from] = p
      BY <2>1, <2>6, <3>2 DEF Answered
    <3> QED
      BY <3>1, <3>2
  <2>7. NoNewPage
    BY <2>1, <2>5, <2>6 DEF NoNewPage, Reached
  <2> QED
    BY <2>7, PathsStay
<1>10. ASSUME NEW p \in Page, Receive(p) PROVE Paths'
  <2> DEFINE s == line[p]
             m == Head(down[s])
  <2>1. /\ s # None /\ down[s] # <<>>
        /\ IF m.kind = "offer" THEN OnOffer(m, Users(p)) ELSE OnAnswer(m, Users(p))
        /\ down' = [down EXCEPT ![s] = Tail(@)]
        /\ line' = line
    BY <1>10 DEF Receive
  <2>2. s \in Socket /\ down[s] \in Seq(Message)
    BY <1>0, <2>1 DEF Types
  <2>3. 1 \in DOMAIN down[s] /\ m = down[s][1] /\ m \in Message
    BY <2>1, <2>2
  <2>4. ASSUME NEW t \in Socket, NEW i \in DOMAIN down'[t]
        PROVE  \E j \in DOMAIN down[t] : down'[t][i] = down[t][j]
    <3>1. CASE t = s
      <4>1. down'[t] = Tail(down[s])
        BY <1>0, <2>1, <2>2, <3>1 DEF Types
      <4>2. \A q \in Seq(Message) : q # <<>> => \A k \in DOMAIN Tail(q) :
               k + 1 \in DOMAIN q /\ Tail(q)[k] = q[k + 1]
        <5> SUFFICES ASSUME NEW q \in Seq(Message), q # <<>>, NEW k \in DOMAIN Tail(q)
                     PROVE  k + 1 \in DOMAIN q /\ Tail(q)[k] = q[k + 1]
          OBVIOUS
        <5>1. DOMAIN Tail(q) = 1 .. Len(q) - 1 /\ DOMAIN q = 1 .. Len(q) /\ Len(q) \in Nat
          OBVIOUS
        <5> QED
          BY <5>1
      <4> HIDE DEF s
      <4>3. i + 1 \in DOMAIN down[s] /\ Tail(down[s])[i] = down[s][i + 1]
        BY <2>1, <2>2, <2>4, <4>1, <4>2
      <4> QED
        BY <3>1, <4>1, <4>3
    <3>2. CASE t # s
      BY <1>0, <2>1, <2>4, <3>2 DEF Types
    <3> QED
      BY <3>1, <3>2
  <2>5. m.offer \in Offer /\ m.from \in Client /\ m.kind \in {"offer", "answer"}
    BY <2>3 DEF Message
  <2>6. m.kind = "offer" => Invited(m.offer, p)
    BY <2>2, <2>3 DEF Invited, About
  <2>7. m.kind = "answer" => Answered(m.offer, PageOf[m.from])
    BY <2>2, <2>3 DEF Answered, About
  <2> HIDE DEF m, s
  <2>8. ASSUME NEW o \in Offer, NEW q \in Page, Invited(o, q)' PROVE Invited(o, q)
    <3>1. PICK i \in DOMAIN down'[line[q]] :
             /\ line[q] \in Socket
             /\ down'[line[q]][i].kind = "offer" /\ down'[line[q]][i].offer = o
      BY <2>1, <2>8 DEF Invited, About
    <3> QED
      BY <2>4, <3>1 DEF Invited, About
  <2>9. ASSUME NEW o \in Offer, NEW q \in Page,
               NEW t \in Socket, NEW i \in About(down', t, o, "answer"),
               PageOf[down'[t][i].from] = q
        PROVE  Answered(o, q)
    <3>1. /\ i \in DOMAIN down'[t]
          /\ down'[t][i].kind = "answer" /\ down'[t][i].offer = o
      BY <2>9 DEF About
    <3>2. PICK j \in DOMAIN down[t] : down'[t][i] = down[t][j]
      BY <2>4, <3>1
    <3> QED
      BY <2>9, <3>1, <3>2 DEF Answered, About
  <2>10. CASE m.kind = "offer"
    <3>1. /\ partner' = partner
          /\ \A a \in answering' : a \in answering
                                   \/ (a.offer = m.offer /\ PageOf[a.by] = p)
      BY <2>1, <2>10 DEF OnOffer, Users
    <3>2. ASSUME NEW o \in Offer, NEW q \in Page, Reached(o, q)' PROVE Reached(o, q)
      <4>1. CASE \E a \in answering' : a.offer = o /\ PageOf[a.by] = q
        BY <2>6, <2>10, <3>1, <4>1 DEF Reached, Answered
      <4>2. CASE ~ \E a \in answering' : a.offer = o /\ PageOf[a.by] = q
        BY <2>8, <2>9, <3>1, <3>2, <4>2 DEF Reached, Answered
      <4> QED
        BY <4>1, <4>2
    <3>3. NoNewPage
      BY <3>1, <3>2 DEF NoNewPage
    <3> QED
      BY <3>3, PathsStay
  <2>11. CASE m.kind = "answer"
    <3>1. OnAnswer(m, Users(p)) /\ answering' = answering
      BY <2>1, <2>11 DEF OnAnswer
    <3>2. CASE partner' = partner
      <4>1. ASSUME NEW o \in Offer, NEW q \in Page, Reached(o, q)' PROVE Reached(o, q)
        BY <2>8, <2>9, <3>1, <3>2, <4>1 DEF Reached, Answered
      <4>2. NoNewPage
        BY <3>2, <4>1 DEF NoNewPage
      <4> QED
        BY <4>2, PathsStay
    <3>3. CASE partner' # partner
      <4>1. /\ \E c \in Users(p) \ {m.from} : m.offer \in peers[c]
            /\ partner' = [partner EXCEPT ![m.offer] = m.from]
        BY <3>1, <3>3 DEF OnAnswer
      <4>2. m.offer \in Made /\ m.from # maker[m.offer]
        BY <1>a, <2>5, <4>1 DEF Users, Held, Loose, Open, Made
      <4>3. \A o \in Offer : partner'[o] = IF o = m.offer THEN m.from ELSE partner[o]
        BY <1>0, <4>1 DEF Types
      <4>4. ASSUME NEW o \in Offer, NEW q \in Page, Reached(o, q)' PROVE Reached(o, q)
        <5>1. CASE partner'[o] # None /\ PageOf[partner'[o]] = q
          BY <2>7, <2>11, <4>3, <5>1 DEF Reached, Answered
        <5>2. CASE ~ (partner'[o] # None /\ PageOf[partner'[o]] = q)
          BY <2>8, <2>9, <3>1, <4>4, <5>2 DEF Reached, Answered
        <5> QED
          BY <5>1, <5>2
      <4>5. NoNewPage
        BY <4>2, <4>3, <4>4 DEF NoNewPage
      <4> QED
        BY <4>5, PathsStay
    <3> QED
      BY <3>2, <3>3
  <2> QED
    BY <2>5, <2>10, <2>11
<1>11. ASSUME NEW s \in Socket, ServerCloses(s) \/ Breaks(s) PROVE Paths'
  BY <1>0, <1>11, SameHeard, PathsStay DEF ServerCloses, Breaks
<1>12. CASE UNCHANGED vars
  BY <1>0, <1>12, SameHeard, PathsStay DEF vars
<1> QED
  BY <1>1, <1>2, <1>3, <1>5, <1>6, <1>7, <1>8, <1>9, <1>10, <1>11, <1>12 DEF Next

LEMMA PathsShow == PInv => OtherPartners
<1> SUFFICES ASSUME PInv PROVE OtherPartners
  OBVIOUS
<1>0. Types /\ Paths
  BY DEF PInv
<1>1. ASSUME NEW o \in Offer, partner[o] # None
      PROVE  /\ partner[o] # maker[o]
             /\ \A b \in batch[o] \ {o} : partner[b] = partner[o] =>
                  \E c \in Client \ {partner[o], maker[o]} : PageOf[c] = PageOf[partner[o]]
  <2> DEFINE p == PageOf[partner[o]]
  <2>1. p \in Page /\ partner[o] # maker[o]
    BY <1>0, <1>1, PageAssumption DEF Types, Paths
  <2>2. Reached(o, p)
    BY <1>1 DEF Reached, Answered
  <2>3. ASSUME NEW b \in batch[o] \ {o}, partner[b] = partner[o]
        PROVE  \E c \in Client \ {partner[o], maker[o]} : PageOf[c] = p
    <3>1. b \in Offer
      BY <1>0 DEF Types
    <3>2. Reached(b, p)
      BY <1>1, <2>3 DEF Reached, Answered
    <3>3. TwoOthers(maker[o], p)
      BY <1>0, <2>1, <2>2, <3>2 DEF Paths, Path
    <3> QED
      BY <3>3 DEF TwoOthers
  <2> QED
    BY <2>1, <2>3
<1> QED
  BY <1>1 DEF OtherPartners

(* The offers of one announce connect their maker with different clients,  *)
(* and never with itself: the server hands each to another member, and two *)
(* answers can come from one client only where a page has several members, *)
(* all of whom hear what comes down its socket. For any number of clients, *)
(* pages, sockets, offers and reconnections.                               *)
THEOREM PartnersDiffer == Spec => []OtherPartners
<1>1. Init => PInv
  BY InitOK, PathsStart DEF PInv
<1>2. PInv /\ [Next]_vars => PInv'
  <2> SUFFICES ASSUME PInv, [Next]_vars PROVE PInv'
    OBVIOUS
  <2>1. IInv'
    BY StepOK DEF PInv
  <2>2. Types' /\ Lines'
    BY LinesStep
  <2>3. Batches' /\ Kept
    BY BatchesStep
  <2>4. Paths'
    BY <2>2, <2>3, PathsStep
  <2> QED
    BY <2>1, <2>2, <2>3, <2>4 DEF PInv
<1> QED
  BY <1>1, <1>2, PathsShow, PTL DEF Spec

-----------------------------------------------------------------------------
(***************************************************************************)
(* Safety of ClientScrape. The invariant says what the server's loop has   *)
(* looked up so far, that no count came before the call, and, when no      *)
(* torrent is asked for twice and no socket is shared, that a client that  *)
(* is not destroyed has no count at all: the first answer is complete.     *)
(***************************************************************************)

(* What a packet may hold in the place of an info hash.                    *)
OnWire == Hash \cup (Hash \X {"left", "right"})
Counts == [at : Tracker, of : OnWire, version : Nat]

(* The types of the variables.                                             *)
ScrapeTypes ==
    /\ kind \in Seq(Kinds)
    /\ asked \in Seq(Hash) /\ asked # <<>>
    /\ form \in {"hex", "bytes"}
    /\ version \in [Tracker -> [Hash -> Nat]]
    /\ since \in [Tracker -> [Hash -> Nat]]
    /\ stage \in [Tracker -> {"idle", "asked", "over", "lost"}]
    /\ found \in [Tracker -> Seq(Counts)]
    /\ len \in Int
    /\ results \in [Hash \cup {Undefined} -> {Nothing} \cup Counts]
    /\ called \in {"nothing", "error", "results"}
    /\ thrown \in BOOLEAN
    /\ destroyed \in BOOLEAN

(* r is the count of h at t, as it was between the call and now.           *)
InTime(t, h, r) == since[t][h] <= r.version /\ r.version <= version[t][h]

(* The loop has looked up a prefix of what the tracker received.           *)
LookedUp ==
    \A t \in Tracker :
        /\ \A h \in Hash : since[t][h] <= version[t][h]
        /\ Len(found[t]) <= Len(Wire(t))
        /\ \A i \in DOMAIN found[t] :
              /\ found[t][i].at = t /\ found[t][i].of = Wire(t)[i]
              /\ Wire(t)[i] \in Hash => InTime(t, Wire(t)[i], found[t][i])

(* Before the call nothing was looked up and nothing came.                 *)
NothingYet ==
    (\A t \in Tracker : stage[t] = "idle") =>
        /\ \A t \in Tracker : found[t] = <<>>
        /\ \A h \in DOMAIN results : results[h] = Nothing

SuccessDestroys == called = "results" => destroyed

Alone == ~Repeats /\ \A t \in Tracker : kind[t] # "pooled"

FirstIsComplete ==
    Alone /\ ~destroyed =>
        /\ len = Len(asked)
        /\ \A h \in DOMAIN results : results[h] = Nothing

ScrapeInv == ScrapeTypes /\ LookedUp /\ NothingYet /\ SuccessDestroys /\ FirstIsComplete
               /\ CountsTrue /\ AllReported

-----------------------------------------------------------------------------
(* A set of numbers up to n has a last one: that which has as many up to it *)
(* as there are.                                                           *)
LEMMA LastOf ==
    ASSUME NEW n \in Nat, NEW S \in SUBSET (1 .. n), S # {}
    PROVE  \E i \in S : \A j \in S : j <= i
<1> DEFINE Upto(i) == {j \in S : j <= i}
<1>1. IsFiniteSet(S)
  <2>1. IsFiniteSet(1 .. n)
    BY FS_Interval
  <2> QED
    BY <2>1, FS_Subset
<1>2. Cardinality(S) \in Nat /\ Cardinality(S) # 0
  BY <1>1, FS_CardinalityType, FS_EmptySet
<1>3. PICK i \in S : Cardinality(Upto(i)) = Cardinality(S)
  BY <1>1, <1>2, Ranks
<1>4. Upto(i) = S
  BY <1>1, <1>3, FS_Subset
<1> QED
  BY <1>4

(* A client that is asked for no torrent twice asks for distinct ones.     *)
LEMMA DistinctHashes ==
    ASSUME ScrapeTypes, ~Repeats
    PROVE  \A i, j \in 1 .. Len(asked) : asked[i] = asked[j] => i = j
<1> DEFINE n == Len(asked)
<1>1. n \in Nat /\ DOMAIN asked = 1 .. n /\ asked \in [1 .. n -> AskedFor]
  BY DEF ScrapeTypes, AskedFor
<1>2. asked \in Surjection(1 .. n, AskedFor)
  BY <1>1 DEF AskedFor, Surjection
<1>3. IsFiniteSet(1 .. n) /\ Cardinality(1 .. n) = n
  BY <1>1, FS_Interval
<1>4. /\ IsFiniteSet(AskedFor)
      /\ Cardinality(AskedFor) <= n
      /\ Cardinality(AskedFor) = n => asked \in Injection(1 .. n, AskedFor)
  BY <1>2, <1>3, FS_Surjection
<1>5. Cardinality(AskedFor) = n
  BY <1>1, <1>4, FS_CardinalityType DEF Repeats
<1> QED
  BY <1>4, <1>5 DEF Injection, IsInjective

(* What a tracker receives is a sequence of info hashes or of their halves.*)
LEMMA WireType ==
    ASSUME ScrapeTypes, NEW t \in Tracker
    PROVE  /\ Wire(t) \in Seq(OnWire)
           /\ Garbled(t) => Len(Wire(t)) = 2 * Len(asked)
           /\ ~Garbled(t) => Wire(t) = asked
<1>1. ~Garbled(t) => Wire(t) = asked /\ asked \in Seq(OnWire)
  BY DEF Garbled, Wire, ScrapeTypes, OnWire
<1>2. CASE Garbled(t)
  <2> DEFINE n == Len(asked)
  <2>1. n \in Nat /\ asked \in [1 .. n -> Hash]
    BY DEF ScrapeTypes
  <2>2. Wire(t) = [i \in 1 .. 2 * n |-> Halves(asked[(i + 1) \div 2])[2 - (i % 2)]]
    BY <1>2 DEF Garbled, Wire
  <2>3. ASSUME NEW i \in 1 .. 2 * n PROVE Wire(t)[i] \in OnWire
    <3> DEFINE h == asked[(i + 1) \div 2]
    <3>1. (i + 1) \div 2 \in 1 .. n /\ 2 - (i % 2) \in {1, 2}
      BY <2>1
    <3>2. h \in Hash
      BY <2>1, <3>1
    <3>3. Wire(t)[i] = Halves(h)[2 - (i % 2)]
      BY <2>2
    <3>4. Halves(h)[1] \in OnWire /\ Halves(h)[2] \in OnWire
      BY <3>2 DEF Halves, OnWire
    <3> QED
      BY <3>1, <3>3, <3>4
  <2>4. Wire(t) \in [1 .. 2 * n -> OnWire]
    BY <2>2, <2>3
  <2> QED
    BY <1>2, <2>1, <2>4
<1> QED
  BY <1>1, <1>2 DEF Garbled

(* Without repetitions it has none either.                                 *)
LEMMA WireDistinct ==
    ASSUME ScrapeTypes, ~Repeats, NEW t \in Tracker
    PROVE  \A i, j \in DOMAIN Wire(t) : Wire(t)[i] = Wire(t)[j] => i = j
<1> DEFINE n == Len(asked)
<1>1. n \in Nat /\ DOMAIN asked = 1 .. n
  BY DEF ScrapeTypes
<1>2. CASE ~Garbled(t)
  BY <1>1, <1>2, DistinctHashes, WireType
<1>3. CASE Garbled(t)
  <2>1. Wire(t) = [i \in 1 .. 2 * n |-> Halves(asked[(i + 1) \div 2])[2 - (i % 2)]]
    BY <1>3 DEF Garbled, Wire
  <2>2. ASSUME NEW i \in 1 .. 2 * n, NEW j \in 1 .. 2 * n, Wire(t)[i] = Wire(t)[j]
        PROVE  i = j
    <3> DEFINE a == (i + 1) \div 2
               b == (j + 1) \div 2
    <3>1. a \in 1 .. n /\ b \in 1 .. n /\ i % 2 \in {0, 1} /\ j % 2 \in {0, 1}
      BY <1>1
    <3>2. Halves(asked[a])[2 - (i % 2)] = Halves(asked[b])[2 - (j % 2)]
      BY <2>1, <2>2
    <3>3. a = b => i = j \/ i % 2 # j % 2
      BY <1>1
    <3>4. asked[a] = asked[b] /\ i % 2 = j % 2
      BY <3>1, <3>2 DEF Halves
    <3> QED
      BY <3>1, <3>3, <3>4, DistinctHashes
  <2> QED
    BY <1>1, <2>1, <2>2
<1> QED
  BY <1>2, <1>3

(* The keys of `files` are then what the tracker received, in that order.  *)
LEMMA KeysDistinct ==
    ASSUME ScrapeTypes, ~Repeats, NEW t \in Tracker
    PROVE  /\ Keys(t) = 1 .. Len(Wire(t))
           /\ \A i \in Keys(t) : Position(t, i) = i
<1>1. Len(Wire(t)) \in Nat /\ DOMAIN Wire(t) = 1 .. Len(Wire(t))
  BY WireType
<1>2. Keys(t) = 1 .. Len(Wire(t))
  <2>1. ASSUME NEW i \in DOMAIN Wire(t), NEW j \in 1 .. i - 1
        PROVE  Wire(t)[j] # Wire(t)[i]
    BY <1>1, <2>1, WireDistinct
  <2> QED
    BY <1>1, <2>1 DEF Keys
<1>3. ASSUME NEW i \in Keys(t) PROVE Position(t, i) = i
  <2>1. {j \in Keys(t) : j <= i} = 1 .. i
    BY <1>1, <1>2
  <2>2. Cardinality(1 .. i) = i
    BY <1>1, <1>2, FS_Interval
  <2> QED
    BY <2>1, <2>2 DEF Position
<1> QED
  BY <1>2, <1>3

(* A reply never has fewer counts than the call asked for.                 *)
LEMMA KeysCount ==
    ASSUME ScrapeTypes, NEW t \in Tracker
    PROVE  /\ IsFiniteSet(Keys(t)) /\ Cardinality(Keys(t)) \in Nat
           /\ ~Repeats => /\ Cardinality(Keys(t)) = Len(Wire(t))
                          /\ Cardinality(Keys(t)) >= Len(asked)
<1> DEFINE n == Len(Wire(t))
<1>1. n \in Nat /\ DOMAIN Wire(t) = 1 .. n
  BY WireType
<1>2. IsFiniteSet(1 .. n) /\ Cardinality(1 .. n) = n
  <2> HIDE DEF n
  <2> QED
    BY <1>1, FS_Interval
<1>3. IsFiniteSet(Keys(t)) /\ Cardinality(Keys(t)) \in Nat
  <2>1. Keys(t) \in SUBSET (1 .. n)
    BY <1>1 DEF Keys
  <2> QED
    BY <1>2, <2>1, FS_Subset, FS_CardinalityType
<1>4. n \in {Len(asked), 2 * Len(asked)} /\ Len(asked) \in Nat
  BY WireType DEF ScrapeTypes
<1> QED
  BY <1>2, <1>3, <1>4, KeysDistinct

(* Every event of an answer holds a count that was looked up for its key.  *)
LEMMA EventsOf ==
    ASSUME ScrapeInv, NEW t \in Tracker, Len(found[t]) = Len(Wire(t))
    PROVE  /\ Len(Wire(t)) \in Nat
           /\ DOMAIN ScrapeEvents(t) = Keys(t)
           /\ Keys(t) \in SUBSET (1 .. Len(Wire(t)))
           /\ \A i \in Keys(t) :
                 LET e == ScrapeEvents(t)[i] IN
                 /\ e.hash = IF kind[t] = "udp" THEN Nth(Position(t, i)) ELSE Wire(t)[i]
                 /\ e.count \in Counts
                 /\ e.count.at = t /\ e.count.of = Wire(t)[i]
                 /\ Wire(t)[i] \in Hash => InTime(t, Wire(t)[i], e.count)
<1>1. Len(Wire(t)) \in Nat /\ DOMAIN Wire(t) = 1 .. Len(Wire(t))
  BY WireType DEF ScrapeInv
<1>2. found[t] \in Seq(Counts) /\ DOMAIN found[t] = 1 .. Len(Wire(t))
  BY DEF ScrapeInv, ScrapeTypes
<1>3. Keys(t) \in SUBSET (1 .. Len(Wire(t)))
  BY <1>1 DEF Keys
<1>4. ASSUME NEW i \in Keys(t)
      PROVE  \E k \in DOMAIN found[t] : File(t, Wire(t)[i]) = found[t][k] /\ Wire(t)[k] = Wire(t)[i]
  <2> DEFINE S == {k \in DOMAIN found[t] : Wire(t)[k] = Wire(t)[i]}
  <2>1. S \in SUBSET (1 .. Len(Wire(t))) /\ S # {}
    BY <1>2, <1>3
  <2>2. \E k \in S : \A j \in S : j <= k
    BY <1>1, <2>1, LastOf
  <2>3. \E k \in DOMAIN found[t] :
            Wire(t)[k] = Wire(t)[i] /\ \A j \in DOMAIN found[t] : Wire(t)[j] = Wire(t)[i] => j <= k
    BY <2>2
  <2> QED
    BY <2>3 DEF File
<1>5. ASSUME NEW i \in Keys(t)
      PROVE  LET c == File(t, Wire(t)[i]) IN
             /\ c \in Counts
             /\ c.at = t /\ c.of = Wire(t)[i]
             /\ Wire(t)[i] \in Hash => InTime(t, Wire(t)[i], c)
  <2>1. PICK k \in DOMAIN found[t] :
            File(t, Wire(t)[i]) = found[t][k] /\ Wire(t)[k] = Wire(t)[i]
    BY <1>4
  <2>2. found[t][k] \in Counts
    BY <1>2
  <2> QED
    BY <2>1, <2>2 DEF ScrapeInv, LookedUp
<1>6. /\ DOMAIN ScrapeEvents(t) = Keys(t)
      /\ \A i \in Keys(t) :
            /\ ScrapeEvents(t)[i].hash =
                  IF kind[t] = "udp" THEN Nth(Position(t, i)) ELSE Wire(t)[i]
            /\ ScrapeEvents(t)[i].count = File(t, Wire(t)[i])
  BY DEF ScrapeEvents
<1> QED
  BY <1>1, <1>3, <1>5, <1>6

(* What the listener does with the events: a count stays as it is, or it   *)
(* is the count of an event that names its torrent.                        *)
LEMMA Collected ==
    ASSUME ScrapeTypes, NEW n \in Nat, NEW events, DOMAIN events \in SUBSET (1 .. n), Collect(events)
    PROVE  /\ DOMAIN results' = DOMAIN results
           /\ \A h \in DOMAIN results :
                 \/ results'[h] = results[h] /\ \A i \in DOMAIN events : events[i].hash # h
                 \/ \E i \in DOMAIN events : events[i].hash = h /\ results'[h] = events[i].count
<1>1. ASSUME NEW h \in DOMAIN results
      PROVE  LET those == {i \in DOMAIN events : events[i].hash = h} IN
             those # {} => \E i \in those : \A j \in those : j <= i
  BY <1>1, LastOf
<1> QED
  BY <1>1 DEF Collect

-----------------------------------------------------------------------------
LEMMA ScrapeInitOK == ScrapeInit => ScrapeInv
<1> SUFFICES ASSUME ScrapeInit PROVE ScrapeInv
  OBVIOUS
<1>1. /\ kind \in Seq(Kinds)
      /\ asked \in Seq(Hash) /\ asked # <<>>
  BY CallAssumption DEF ScrapeInit
<1>2. /\ \A t \in Tracker : found[t] = <<>> /\ stage[t] = "idle"
      /\ \A h \in DOMAIN results : results[h] = Nothing
  BY DEF ScrapeInit
<1>3. ScrapeTypes
  <2>1. version \in [Tracker -> [Hash -> Nat]] /\ since \in [Tracker -> [Hash -> Nat]]
    BY DEF ScrapeInit
  <2>2. found \in [Tracker -> Seq(Counts)]
    BY DEF ScrapeInit
  <2>3. results \in [Hash \cup {Undefined} -> {Nothing} \cup Counts]
    BY DEF ScrapeInit
  <2>4. stage \in [Tracker -> {"idle", "asked", "over", "lost"}]
    BY DEF ScrapeInit
  <2>5. len \in Int
    BY <1>1 DEF ScrapeInit
  <2> QED
    BY <1>1, <2>1, <2>2, <2>3, <2>4, <2>5 DEF ScrapeInit, ScrapeTypes
<1>4. LookedUp
  <2>1. ASSUME NEW t \in Tracker
        PROVE  /\ found[t] = <<>> /\ Len(Wire(t)) \in Nat
               /\ \A h \in Hash : since[t][h] <= version[t][h]
    <3>1. since[t] = version[t] /\ \A h \in Hash : version[t][h] = 0
      BY DEF ScrapeInit
    <3> QED
      BY <1>2, <1>3, <3>1, WireType
  <2> QED
    BY <2>1 DEF LookedUp
<1>5. NothingYet
  BY <1>2 DEF NothingYet
<1>6. SuccessDestroys /\ FirstIsComplete /\ AllReported
  BY <1>2 DEF ScrapeInit, SuccessDestroys, FirstIsComplete, AllReported
<1>7. CountsTrue
  BY <1>2, <1>3 DEF CountsTrue, ScrapeTypes
<1> QED
  BY <1>3, <1>4, <1>5, <1>6, <1>7 DEF ScrapeInv

(* While the call stays the same, what the trackers receive does, too.     *)
LEMMA CallStays ==
    ASSUME UNCHANGED <<kind, asked, form>>
    PROVE  /\ Tracker' = Tracker /\ OnWire' = OnWire /\ Counts' = Counts
           /\ AskedFor' = AskedFor /\ Repeats' = Repeats /\ Alone' = Alone
           /\ \A t \in Tracker : Wire(t)' = Wire(t) /\ Garbled(t)' = Garbled(t)
  BY DEF Tracker, OnWire, Counts, AskedFor, Repeats, Alone, Wire, Garbled

(* A step that leaves the client alone, or only calls back with an error,  *)
(* disturbs what was looked up at most.                                    *)
LEMMA NoEvent ==
    ASSUME ScrapeInv, UNCHANGED client \/ Warn, UNCHANGED <<kind, asked, form>>,
           version' \in [Tracker -> [Hash -> Nat]],
           \A t \in Tracker : \A h \in Hash : version[t][h] <= version'[t][h],
           \/ UNCHANGED since
           \/ since' = version' /\ UNCHANGED version /\ \A t \in Tracker : stage[t] = "idle"
    PROVE  /\ since' \in [Tracker -> [Hash -> Nat]]
           /\ len' \in Int /\ destroyed' \in BOOLEAN
           /\ called' \in {"nothing", "error", "results"}
           /\ results' \in [Hash \cup {Undefined} -> {Nothing} \cup Counts]
           /\ results' = results
           /\ SuccessDestroys' /\ FirstIsComplete' /\ CountsTrue' /\ AllReported'
<1>1. /\ results' = results /\ len' = len /\ destroyed' = destroyed
      /\ called' = called \/ (called = "nothing" /\ called' = "error")
  BY DEF client, Warn
<1>2. /\ since' \in [Tracker -> [Hash -> Nat]]
      /\ len' \in Int /\ destroyed' \in BOOLEAN
      /\ called' \in {"nothing", "error", "results"}
      /\ results' \in [Hash \cup {Undefined} -> {Nothing} \cup Counts]
  BY <1>1 DEF ScrapeInv, ScrapeTypes
<1>3. SuccessDestroys'
  BY <1>1 DEF ScrapeInv, SuccessDestroys
<1>4. FirstIsComplete'
  BY <1>1, CallStays DEF ScrapeInv, FirstIsComplete
<1>5. AllReported'
  BY <1>1, CallStays DEF ScrapeInv, AllReported
<1>6. CountsTrue'
  <2> SUFFICES ASSUME NEW h \in Hash, results[h] # Nothing,
                      ~(kind[results[h].at] = "udp" /\ (form = "hex" \/ Repeats))
               PROVE  /\ results[h].of = h
                      /\ results[h].version <= version'[results[h].at][h]
                      /\ kind[results[h].at] # "pooled" =>
                            results[h].version >= since'[results[h].at][h]
    BY <1>1, CallStays DEF CountsTrue
  <2> DEFINE r == results[h]
  <2>1. r \in Counts
    BY DEF ScrapeInv, ScrapeTypes
  <2>2. r.at \in Tracker /\ r.version \in Nat
    BY <2>1 DEF Counts
  <2>3. /\ r.of = h
        /\ r.version <= version[r.at][h]
        /\ kind[r.at] # "pooled" => r.version >= since[r.at][h]
    BY DEF ScrapeInv, CountsTrue
  <2>4. /\ version[r.at][h] \in Nat /\ version'[r.at][h] \in Nat
        /\ version[r.at][h] <= version'[r.at][h]
    BY <2>2 DEF ScrapeInv, ScrapeTypes
  <2>5. UNCHANGED since
    BY DEF ScrapeInv, NothingYet, ScrapeTypes
  <2> HIDE DEF r
  <2>6. r.version <= version'[r.at][h]
    BY <2>2, <2>3, <2>4
  <2> QED
    BY <2>3, <2>5, <2>6 DEF r
<1> QED
  BY <1>1, <1>2, <1>3, <1>4, <1>5, <1>6

(* The counts of a reply that is heeded are true, whoever it is for.       *)
LEMMA TrueAfter ==
    ASSUME ScrapeInv, UNCHANGED <<kind, asked, form, version, since>>,
           NEW n \in Nat, NEW events, DOMAIN events \in SUBSET (1 .. n), Collect(events),
           \A i \in DOMAIN events :
              /\ events[i].count \in Counts
              /\ LET r == events[i].count IN
                 events[i].hash \in Hash
                   /\ ~(kind[r.at] = "udp" /\ (form = "hex" \/ Repeats)) =>
                      /\ r.of = events[i].hash
                      /\ r.version <= version[r.at][events[i].hash]
                      /\ kind[r.at] # "pooled" =>
                            r.version >= since[r.at][events[i].hash]
    PROVE  /\ results' \in [Hash \cup {Undefined} -> {Nothing} \cup Counts]
           /\ CountsTrue'
<1>1. /\ DOMAIN results = Hash \cup {Undefined}
      /\ results' = [h \in DOMAIN results |-> results'[h]]
  BY DEF ScrapeInv, ScrapeTypes, Collect
<1>2. \A h \in DOMAIN results :
         \/ results'[h] = results[h]
         \/ \E i \in DOMAIN events : events[i].hash = h /\ results'[h] = events[i].count
  BY Collected DEF ScrapeInv
<1>3. \A h \in DOMAIN results : results'[h] \in {Nothing} \cup Counts
  BY <1>1, <1>2 DEF ScrapeInv, ScrapeTypes
<1>4. \A h \in Hash : LET r == results'[h] IN
         r # Nothing /\ ~(kind[r.at] = "udp" /\ (form = "hex" \/ Repeats)) =>
            /\ r.of = h
            /\ r.version <= version[r.at][h]
            /\ kind[r.at] # "pooled" => r.version >= since[r.at][h]
  <2> SUFFICES ASSUME NEW h \in Hash, results'[h] # Nothing,
                      ~(kind[results'[h].at] = "udp" /\ (form = "hex" \/ Repeats))
               PROVE  /\ results'[h].of = h
                      /\ results'[h].version <= version[results'[h].at][h]
                      /\ kind[results'[h].at] # "pooled" =>
                            results'[h].version >= since[results'[h].at][h]
    OBVIOUS
  <2>1. CASE results'[h] = results[h]
    BY <2>1 DEF ScrapeInv, CountsTrue
  <2>2. CASE \E i \in DOMAIN events : events[i].hash = h /\ results'[h] = events[i].count
    BY <2>2
  <2> QED
    BY <1>1, <1>2, <2>1, <2>2
<1>5. CountsTrue'
  BY <1>4, CallStays DEF CountsTrue
<1> QED
  BY <1>1, <1>3, <1>5

LEMMA OverhearOK ==
    ASSUME ScrapeInv, NEW t \in Tracker, Overhear(t)
    PROVE  /\ results' \in [Hash \cup {Undefined} -> {Nothing} \cup Counts]
           /\ len' \in Int /\ destroyed' \in BOOLEAN
           /\ called' \in {"nothing", "error", "results"}
           /\ SuccessDestroys' /\ FirstIsComplete' /\ CountsTrue' /\ AllReported'
<1>1. /\ kind[t] = "pooled"
      /\ UNCHANGED <<kind, asked, form, version, since>>
  BY DEF Overhear, call
<1>2. PICK h \in Hash : \E v \in 0 .. version[t][h] :
          Collect(<<[hash |-> h, count |-> [at |-> t, of |-> h, version |-> v]]>>)
  BY DEF Overhear
<1>3. PICK v \in 0 .. version[t][h] :
          Collect(<<[hash |-> h, count |-> [at |-> t, of |-> h, version |-> v]]>>)
  BY <1>2
<1> DEFINE c == [at |-> t, of |-> h, version |-> v]
           events == <<[hash |-> h, count |-> c]>>
<1>4. version[t][h] \in Nat /\ v \in Nat /\ v <= version[t][h]
  BY DEF ScrapeInv, ScrapeTypes
<1>5. c \in Counts /\ c.at = t /\ c.of = h /\ c.version = v
  BY <1>4 DEF Counts, OnWire
<1>6. /\ DOMAIN events = {1} /\ {1} \in SUBSET (1 .. 1)
      /\ events[1].hash = h /\ events[1].count = c
  OBVIOUS
<1> HIDE DEF c
<1>7. Collect(events)
  BY <1>3 DEF c
<1> HIDE DEF events
<1>8. /\ results' \in [Hash \cup {Undefined} -> {Nothing} \cup Counts]
      /\ CountsTrue'
  BY <1>1, <1>4, <1>5, <1>6, <1>7, TrueAfter
<1>9. /\ len' = len - Cardinality(DOMAIN events)
      /\ \/ destroyed' = TRUE /\ called' \in {called, "results"}
         \/ UNCHANGED <<destroyed, called>>
  BY <1>7 DEF Collect
<1>10. /\ len' \in Int /\ destroyed' \in BOOLEAN
       /\ called' \in {"nothing", "error", "results"}
       /\ SuccessDestroys'
  <2>1. Cardinality(DOMAIN events) = 1
    BY <1>6, FS_Singleton
  <2>2. len' \in Int
    BY <1>9, <2>1 DEF ScrapeInv, ScrapeTypes
  <2>3. CASE destroyed' = TRUE /\ called' \in {called, "results"}
    BY <2>2, <2>3 DEF ScrapeInv, ScrapeTypes, SuccessDestroys
  <2>4. CASE UNCHANGED <<destroyed, called>>
    BY <2>2, <2>4 DEF ScrapeInv, ScrapeTypes, SuccessDestroys
  <2> QED
    BY <1>9, <2>3, <2>4
<1>11. ~Alone' /\ FirstIsComplete' /\ AllReported'
  BY <1>1, CallStays DEF Alone, FirstIsComplete, AllReported
<1> QED
  BY <1>8, <1>10, <1>11

LEMMA ScrapeAnswerOK ==
    ASSUME ScrapeInv, NEW t \in Tracker, Answer(t), ~destroyed
    PROVE  /\ results' \in [Hash \cup {Undefined} -> {Nothing} \cup Counts]
           /\ len' \in Int /\ destroyed' \in BOOLEAN
           /\ called' \in {"nothing", "error", "results"}
           /\ SuccessDestroys' /\ FirstIsComplete' /\ CountsTrue' /\ AllReported'
<1> DEFINE events == ScrapeEvents(t)
           n == Len(Wire(t))
<1>1. /\ UNCHANGED <<kind, asked, form, version, since>>
      /\ Len(found[t]) = n
      /\ Collect(events)
  BY DEF Answer, call
<1>2. /\ n \in Nat
      /\ DOMAIN events = Keys(t) /\ Keys(t) \in SUBSET (1 .. n)
      /\ \A i \in Keys(t) :
            /\ events[i].hash = IF kind[t] = "udp" THEN Nth(Position(t, i)) ELSE Wire(t)[i]
            /\ events[i].count \in Counts
            /\ events[i].count.at = t /\ events[i].count.of = Wire(t)[i]
            /\ Wire(t)[i] \in Hash => InTime(t, Wire(t)[i], events[i].count)
  BY <1>1, EventsOf
<1>3. IsFiniteSet(Keys(t)) /\ Cardinality(Keys(t)) \in Nat
  BY KeysCount DEF ScrapeInv
<1> HIDE DEF events, n
<1>4. ~Repeats =>
         /\ Keys(t) = 1 .. n /\ \A i \in Keys(t) : Position(t, i) = i
         /\ Cardinality(Keys(t)) = n
         /\ n >= Len(asked)
  BY KeysCount, KeysDistinct DEF ScrapeInv, n
<1>5. ~Garbled(t) => Wire(t) = asked /\ n = Len(asked)
  BY WireType DEF ScrapeInv, n
<1>6. ASSUME NEW i \in Keys(t), events[i].hash \in Hash, ~(kind[t] = "udp" /\ (form = "hex" \/ Repeats))
      PROVE  /\ events[i].count.of = events[i].hash
             /\ InTime(t, events[i].hash, events[i].count)
  <2>1. CASE kind[t] # "udp"
    BY <1>2, <1>6, <2>1
  <2>2. CASE kind[t] = "udp"
    <3>1. Wire(t) = asked /\ i \in DOMAIN asked /\ Position(t, i) = i
      BY <1>2, <1>4, <1>5, <1>6, <2>2 DEF Garbled, ScrapeInv, ScrapeTypes
    <3>2. events[i].hash = Wire(t)[i]
      BY <1>2, <2>2, <3>1 DEF Nth
    <3> QED
      BY <1>2, <1>6, <3>2
  <2> QED
    BY <2>1, <2>2
<1>7. /\ results' \in [Hash \cup {Undefined} -> {Nothing} \cup Counts]
      /\ CountsTrue'
  <2>1. ASSUME NEW i \in DOMAIN events
        PROVE  /\ events[i].count \in Counts
               /\ LET r == events[i].count IN
                  events[i].hash \in Hash
                    /\ ~(kind[r.at] = "udp" /\ (form = "hex" \/ Repeats)) =>
                       /\ r.of = events[i].hash
                       /\ r.version <= version[r.at][events[i].hash]
                       /\ kind[r.at] # "pooled" =>
                             r.version >= since[r.at][events[i].hash]
    <3>1. events[i].count \in Counts /\ events[i].count.at = t
      BY <1>2
    <3>2. ASSUME events[i].hash \in Hash, ~(kind[t] = "udp" /\ (form = "hex" \/ Repeats))
          PROVE  /\ events[i].count.of = events[i].hash
                 /\ InTime(t, events[i].hash, events[i].count)
      BY <1>2, <1>6, <3>2
    <3>3. ASSUME NEW h \in Hash PROVE since[t][h] \in Nat /\ version[t][h] \in Nat
      BY DEF ScrapeInv, ScrapeTypes
    <3>4. events[i].count.version \in Nat
      BY <3>1 DEF Counts
    <3> QED
      BY <3>1, <3>2, <3>3, <3>4 DEF InTime
  <2> QED
    BY <1>1, <1>2, <2>1, TrueAfter
<1>8. /\ len' = len - Cardinality(Keys(t))
      /\ IF len > 0 /\ len' <= 0
         THEN destroyed' = TRUE /\ called' = IF called = "nothing" THEN "results" ELSE called
         ELSE UNCHANGED <<destroyed, called>>
  BY <1>1, <1>2 DEF Collect
<1>9. /\ len' \in Int /\ destroyed' \in BOOLEAN
      /\ called' \in {"nothing", "error", "results"}
      /\ SuccessDestroys'
  <2>1. len' \in Int
    BY <1>3, <1>8 DEF ScrapeInv, ScrapeTypes
  <2>2. CASE destroyed' = TRUE /\ called' \in {called, "results"}
    BY <2>1, <2>2 DEF ScrapeInv, ScrapeTypes, SuccessDestroys
  <2>3. CASE UNCHANGED <<destroyed, called>>
    BY <2>1, <2>3 DEF ScrapeInv, ScrapeTypes, SuccessDestroys
  <2> QED
    BY <1>8, <2>2, <2>3
<1>10. ASSUME Alone
       PROVE  /\ destroyed'
              /\ \A h \in AskedFor : results'[h].at = t
              /\ ~Garbled(t) => \A h \in DOMAIN results \ AskedFor : results'[h] = Nothing
  <2>1. len = Len(asked) /\ \A h \in DOMAIN results : results[h] = Nothing
    BY <1>10 DEF ScrapeInv, FirstIsComplete
  <2>2. Len(asked) \in Nat /\ Len(asked) > 0 /\ DOMAIN asked = 1 .. Len(asked)
    BY DEF ScrapeInv, ScrapeTypes
  <2>3. destroyed'
    BY <1>2, <1>4, <1>8, <1>10, <2>1, <2>2 DEF Alone
  <2>4. \A i \in Keys(t) : i \in DOMAIN asked => events[i].hash = asked[i]
    <3> SUFFICES ASSUME NEW i \in Keys(t), i \in DOMAIN asked PROVE events[i].hash = asked[i]
      OBVIOUS
    <3>1. CASE kind[t] = "udp"
      BY <1>2, <1>4, <1>10, <3>1 DEF Alone, Nth
    <3>2. CASE kind[t] # "udp"
      BY <1>2, <1>5, <3>2 DEF Garbled
    <3> QED
      BY <3>1, <3>2
  <2>5. \A h \in DOMAIN results :
           \/ results'[h] = results[h] /\ \A i \in DOMAIN events : events[i].hash # h
           \/ \E i \in DOMAIN events : events[i].hash = h /\ results'[h] = events[i].count
    BY <1>1, <1>2, Collected DEF ScrapeInv
  <2>6. ASSUME NEW h \in AskedFor PROVE results'[h].at = t
    <3>1. PICK i \in DOMAIN asked : asked[i] = h
      BY DEF AskedFor
    <3>2. i \in Keys(t) /\ events[i].hash = h /\ h \in DOMAIN results
      BY <1>2, <1>4, <1>10, <2>2, <2>4, <3>1 DEF Alone, ScrapeInv, ScrapeTypes
    <3>3. PICK j \in DOMAIN events : results'[h] = events[j].count
      BY <1>2, <2>5, <3>2
    <3> QED
      BY <1>2, <3>3
  <2>7. ASSUME ~Garbled(t), NEW h \in DOMAIN results \ AskedFor PROVE results'[h] = Nothing
    <3>1. \A i \in DOMAIN events : events[i].hash # h
      BY <1>2, <1>4, <1>5, <1>10, <2>2, <2>4, <2>7 DEF Alone, AskedFor
    <3> QED
      BY <2>1, <2>5, <3>1
  <2> QED
    BY <2>3, <2>6, <2>7
<1>11. FirstIsComplete'
  BY <1>1, <1>10, CallStays DEF FirstIsComplete
<1>12. AllReported'
  <2> SUFFICES ASSUME Alone
               PROVE  \E s \in Tracker :
                        /\ \A h \in AskedFor : results'[h].at = s
                        /\ ~Garbled(s) => \A h \in DOMAIN results' \ AskedFor : results'[h] = Nothing
    BY <1>1, CallStays DEF AllReported, Alone
  <2>1. DOMAIN results' = DOMAIN results
    BY <1>1 DEF Collect
  <2> QED
    BY <1>10, <2>1
<1> QED
  BY <1>7, <1>9, <1>11, <1>12

(* What an action does to the requests, and to what was looked up.         *)
LEMMA RequestsStep ==
    ASSUME ScrapeInv, [ScrapeNext]_scrapeVars
    PROVE  /\ UNCHANGED <<kind, asked, form>> /\ thrown' \in BOOLEAN
           /\ version' \in [Tracker -> [Hash -> Nat]]
           /\ \A t \in Tracker : \A h \in Hash : version[t][h] <= version'[t][h]
           /\ stage' \in [Tracker -> {"idle", "asked", "over", "lost"}]
           /\ \/ UNCHANGED since
              \/ since' = version' /\ UNCHANGED <<version, found>>
                 /\ \A t \in Tracker : stage[t] = "idle"
           /\ \/ UNCHANGED found
              \/ \E t \in Tracker : LookUp(t)
           /\ \/ UNCHANGED client
              \/ Warn
              \/ \E t \in Tracker : (Answer(t) /\ ~destroyed) \/ Overhear(t)
           /\ (\A t \in Tracker : stage'[t] = "idle") =>
                 UNCHANGED <<stage, found, client>> \/ Tracker = {}
           /\ Tracker = {} => UNCHANGED results
<1> USE DEF call, client
<1>0. /\ thrown \in BOOLEAN
      /\ version \in [Tracker -> [Hash -> Nat]]
      /\ stage \in [Tracker -> {"idle", "asked", "over", "lost"}]
      /\ \A t \in Tracker : \A h \in Hash : version[t][h] <= version[t][h]
  BY DEF ScrapeInv, ScrapeTypes
<1>1. CASE Scrape
  <2>1. stage' \in [Tracker -> {"idle", "asked", "over", "lost"}]
    BY <1>1 DEF Scrape
  <2>2. UNCHANGED client \/ Warn
    BY <1>1 DEF Scrape
  <2>3. ASSUME NEW t \in Tracker PROVE stage'[t] # "idle"
    BY <1>1 DEF Scrape
  <2>4. UNCHANGED results
    BY <2>2 DEF Warn
  <2> QED
    BY <1>0, <1>1, <2>1, <2>2, <2>3, <2>4 DEF Scrape
<1>2. ASSUME NEW t \in Tracker, InvalidUrl(t) \/ Fails(t) \/ GetsLost(t)
      PROVE  /\ UNCHANGED <<call, version, found, thrown>>
             /\ UNCHANGED client \/ Warn
             /\ stage' \in [Tracker -> {"idle", "asked", "over", "lost"}]
             /\ stage'[t] # "idle"
  BY <1>0, <1>2 DEF InvalidUrl, Fails, GetsLost
<1>3. ASSUME NEW t \in Tracker, NEW h \in Hash, Change(t, h)
      PROVE  /\ UNCHANGED <<call, stage, found, client, thrown>>
             /\ version' \in [Tracker -> [Hash -> Nat]]
             /\ \A s \in Tracker : \A g \in Hash : version[s][g] <= version'[s][g]
  <2>1. version' = [version EXCEPT ![t][h] = version[t][h] + 1]
    BY <1>3 DEF Change
  <2>2. ASSUME NEW s \in Tracker, NEW g \in Hash
        PROVE  version[s][g] \in Nat
               /\ version'[s][g] = IF s = t /\ g = h THEN version[t][h] + 1 ELSE version[s][g]
    BY <1>0, <2>1
  <2> QED
    BY <1>0, <1>3, <2>1, <2>2 DEF Change
<1>4. ASSUME NEW t \in Tracker, LookUp(t)
      PROVE  /\ UNCHANGED <<call, version, stage, client, thrown>> /\ stage[t] # "idle"
  BY <1>4 DEF LookUp
<1>5. ASSUME NEW t \in Tracker, Answer(t)
      PROVE  /\ UNCHANGED <<call, version, found, thrown>>
             /\ UNCHANGED client \/ ~destroyed
             /\ stage' \in [Tracker -> {"idle", "asked", "over", "lost"}]
             /\ stage'[t] # "idle"
  BY <1>0, <1>5 DEF Answer
<1>6. ASSUME NEW t \in Tracker, Overhear(t)
      PROVE  UNCHANGED <<call, version, stage, found, thrown>> /\ stage[t] # "idle"
  BY <1>6 DEF Overhear
<1>7. CASE UNCHANGED scrapeVars
  BY <1>0, <1>7 DEF scrapeVars
<1>8. ASSUME NEW t \in Tracker,
             InvalidUrl(t) \/ LookUp(t) \/ Answer(t) \/ Overhear(t) \/ Fails(t) \/ GetsLost(t)
      PROVE  /\ UNCHANGED <<call, version, thrown>>
             /\ stage' \in [Tracker -> {"idle", "asked", "over", "lost"}]
             /\ stage'[t] # "idle"
             /\ UNCHANGED found \/ LookUp(t)
             /\ UNCHANGED client \/ Warn \/ (Answer(t) /\ ~destroyed) \/ Overhear(t)
  BY <1>0, <1>2, <1>4, <1>5, <1>6, <1>8
<1>9. CASE \E t \in Tracker : InvalidUrl(t) \/ LookUp(t) \/ Answer(t) \/ Overhear(t)
                                \/ Fails(t) \/ GetsLost(t)
  BY <1>0, <1>8, <1>9
<1>10. CASE \E t \in Tracker, h \in Hash : Change(t, h)
  BY <1>0, <1>3, <1>10
<1> QED
  BY <1>1, <1>7, <1>9, <1>10 DEF ScrapeNext

LEMMA ScrapeStepOK == ScrapeInv /\ [ScrapeNext]_scrapeVars => ScrapeInv'
<1> SUFFICES ASSUME ScrapeInv, [ScrapeNext]_scrapeVars PROVE ScrapeInv'
  OBVIOUS
<1>1. /\ UNCHANGED <<kind, asked, form>> /\ thrown' \in BOOLEAN
      /\ version' \in [Tracker -> [Hash -> Nat]]
      /\ \A t \in Tracker : \A h \in Hash : version[t][h] <= version'[t][h]
      /\ stage' \in [Tracker -> {"idle", "asked", "over", "lost"}]
      /\ \/ UNCHANGED since
         \/ since' = version' /\ UNCHANGED <<version, found>>
            /\ \A t \in Tracker : stage[t] = "idle"
      /\ \/ UNCHANGED found
         \/ \E t \in Tracker : LookUp(t)
      /\ \/ UNCHANGED client
         \/ Warn
         \/ \E t \in Tracker : (Answer(t) /\ ~destroyed) \/ Overhear(t)
      /\ (\A t \in Tracker : stage'[t] = "idle") =>
            UNCHANGED <<stage, found, client>> \/ Tracker = {}
      /\ Tracker = {} => UNCHANGED results
  BY RequestsStep
<1>2. /\ Tracker' = Tracker /\ Counts' = Counts
      /\ \A t \in Tracker : Wire(t)' = Wire(t)
  BY <1>1, CallStays
<1>3. /\ since' \in [Tracker -> [Hash -> Nat]]
      /\ len' \in Int /\ destroyed' \in BOOLEAN
      /\ called' \in {"nothing", "error", "results"}
      /\ results' \in [Hash \cup {Undefined} -> {Nothing} \cup Counts]
      /\ SuccessDestroys' /\ FirstIsComplete' /\ CountsTrue' /\ AllReported'
  <2>1. CASE UNCHANGED client \/ Warn
    BY <1>1, <2>1, NoEvent
  <2>2. CASE \E t \in Tracker : (Answer(t) /\ ~destroyed) \/ Overhear(t)
    <3>1. UNCHANGED since
      BY <2>2 DEF Answer, Overhear, call
    <3> QED
      BY <2>2, <3>1, ScrapeAnswerOK, OverhearOK DEF ScrapeInv, ScrapeTypes
  <2> QED
    BY <1>1, <2>1, <2>2
<1>4. found' \in [Tracker -> Seq(Counts)] /\ LookedUp'
  <2>1. ASSUME NEW t \in Tracker, NEW h \in Hash
        PROVE  /\ since[t][h] \in Nat /\ since'[t][h] \in Nat
               /\ version[t][h] \in Nat /\ version'[t][h] \in Nat
               /\ version[t][h] <= version'[t][h]
               /\ since'[t][h] <= version'[t][h]
    <3>1. /\ version[t] \in [Hash -> Nat] /\ version'[t] \in [Hash -> Nat]
          /\ since[t] \in [Hash -> Nat] /\ since'[t] \in [Hash -> Nat]
      BY <1>1, <1>3 DEF ScrapeInv, ScrapeTypes
    <3>2. /\ since[t][h] \in Nat /\ since'[t][h] \in Nat
          /\ version[t][h] \in Nat /\ version'[t][h] \in Nat
      BY <3>1
    <3>3. version[t][h] <= version'[t][h] /\ since[t][h] <= version[t][h]
      BY <1>1 DEF ScrapeInv, LookedUp
    <3>4. since'[t][h] \in {since[t][h], version'[t][h]}
      BY <1>1
    <3> QED
      BY <3>2, <3>3, <3>4
  <2>2. ASSUME UNCHANGED found
        PROVE  found' \in [Tracker -> Seq(Counts)] /\ LookedUp'
    <3> SUFFICES ASSUME NEW t \in Tracker, NEW i \in DOMAIN found[t], Wire(t)[i] \in Hash
                 PROVE  /\ since'[t][Wire(t)[i]] <= found[t][i].version
                        /\ found[t][i].version <= version'[t][Wire(t)[i]]
      BY <1>2, <2>1, <2>2 DEF ScrapeInv, ScrapeTypes, LookedUp, InTime
    <3>1. since[t][Wire(t)[i]] <= found[t][i].version
          /\ found[t][i].version <= version[t][Wire(t)[i]]
      BY DEF ScrapeInv, LookedUp, InTime
    <3>2. found[t][i].version \in Nat
      <4>1. found[t] \in Seq(Counts)
        BY DEF ScrapeInv, ScrapeTypes
      <4>2. found[t][i] \in Counts
        BY <4>1
      <4> QED
        BY <4>2 DEF Counts
    <3>3. UNCHANGED since
      BY <1>1 DEF ScrapeInv, NothingYet
    <3> QED
      BY <2>1, <3>1, <3>2, <3>3
  <2>3. ASSUME NEW t \in Tracker, LookUp(t)
        PROVE  found' \in [Tracker -> Seq(Counts)] /\ LookedUp'
    <3> DEFINE k == Len(found[t]) + 1
               c == Count(t, Wire(t)[k])
    <3>1. /\ found' = [found EXCEPT ![t] = Append(found[t], c)]
          /\ UNCHANGED <<kind, asked, form, since, version>>
          /\ Len(found[t]) < Len(Wire(t))
      BY <2>3 DEF LookUp, call
    <3>2. Len(Wire(t)) \in Nat /\ \A i \in 1 .. Len(Wire(t)) : Wire(t)[i] \in OnWire
      BY WireType DEF ScrapeInv
    <3>3. found[t] \in Seq(Counts) /\ k \in 1 .. Len(Wire(t))
      BY <3>1, <3>2 DEF ScrapeInv, ScrapeTypes
    <3>4. /\ c \in Counts
          /\ c.at = t /\ c.of = Wire(t)[k]
          /\ Wire(t)[k] \in Hash => InTime(t, Wire(t)[k], c)
      BY <2>1, <3>2, <3>3 DEF Count, Counts, InTime, ScrapeInv, LookedUp
    <3> HIDE DEF c
    <3>5. /\ Append(found[t], c) \in Seq(Counts)
          /\ Len(Append(found[t], c)) = k
          /\ Append(found[t], c)[k] = c
          /\ \A i \in DOMAIN found[t] : Append(found[t], c)[i] = found[t][i]
          /\ DOMAIN Append(found[t], c) = DOMAIN found[t] \cup {k}
      BY <3>3, <3>4
    <3>6. found' \in [Tracker -> Seq(Counts)]
      BY <3>1, <3>5 DEF ScrapeInv, ScrapeTypes
    <3>7. ASSUME NEW s \in Tracker
          PROVE  /\ Len(found'[s]) <= Len(Wire(s))
                 /\ \A i \in DOMAIN found'[s] :
                       /\ found'[s][i].at = s /\ found'[s][i].of = Wire(s)[i]
                       /\ Wire(s)[i] \in Hash => InTime(s, Wire(s)[i], found'[s][i])
      <4>1. CASE s # t
        BY <3>1, <4>1 DEF ScrapeInv, ScrapeTypes, LookedUp
      <4>2. CASE s = t
        <5>1. found'[t] = Append(found[t], c)
          BY <3>1 DEF ScrapeInv, ScrapeTypes
        <5> QED
          BY <3>2, <3>3, <3>4, <3>5, <4>2, <5>1 DEF ScrapeInv, LookedUp
      <4> QED
        BY <4>1, <4>2
    <3> QED
      BY <1>2, <2>1, <3>1, <3>6, <3>7 DEF LookedUp, InTime
  <2> QED
    BY <1>1, <2>2, <2>3
<1>5. NothingYet'
  <2> SUFFICES ASSUME \A t \in Tracker : stage'[t] = "idle"
               PROVE  /\ \A t \in Tracker : found'[t] = <<>>
                      /\ \A h \in DOMAIN results' : results'[h] = Nothing
    BY <1>2 DEF NothingYet
  <2>1. CASE Tracker = {}
    BY <1>1, <2>1 DEF ScrapeInv, NothingYet
  <2>2. CASE UNCHANGED <<stage, found, client>>
    BY <2>2 DEF ScrapeInv, NothingYet, client
  <2> QED
    BY <1>1, <2>1, <2>2
<1>6. ScrapeTypes'
  BY <1>1, <1>2, <1>3, <1>4 DEF ScrapeInv, ScrapeTypes
<1> QED
  BY <1>3, <1>4, <1>5, <1>6 DEF ScrapeInv

LEMMA ScrapeInvOK == ScrapeSpec => []ScrapeInv
  BY ScrapeInitOK, ScrapeStepOK, PTL DEF ScrapeSpec

(* However the trackers answer, fail and get lost: a scrape that succeeds  *)
(* has the count of every torrent it was asked for, all from one tracker,  *)
(* unless a torrent is asked for twice or a socket is shared.              *)
THEOREM ReportCorrect == ScrapeSpec => []AllReported
<1>1. ScrapeInv => AllReported
  BY DEF ScrapeInv
<1> QED
  BY <1>1, ScrapeInvOK, PTL

(* A count was that of the torrent it is filed under, at a time since the  *)
(* call, however the swarms changed between the look-ups; hex strings over *)
(* UDP, repeated info hashes over UDP and shared sockets are excepted as   *)
(* the property says.                                                      *)
THEOREM CountsCorrect == ScrapeSpec => []CountsTrue
<1>1. ScrapeInv => CountsTrue
  BY DEF ScrapeInv
<1> QED
  BY <1>1, ScrapeInvOK, PTL

(* No later reply, of whatever tracker, changes the results of a scrape    *)
(* that has succeeded.                                                     *)
THEOREM ResultsCorrect == ScrapeSpec => ResultsStay
<1>1. ScrapeInv /\ [ScrapeNext]_scrapeVars => [called = "results" => results' = results]_scrapeVars
  <2> SUFFICES ASSUME ScrapeInv, [ScrapeNext]_scrapeVars, called = "results" PROVE results' = results
    OBVIOUS
  <2>1. destroyed
    BY DEF ScrapeInv, SuccessDestroys
  <2>2. UNCHANGED client \/ Warn
    BY <2>1, RequestsStep DEF Overhear
  <2> QED
    BY <2>2 DEF client, Warn
<1> QED
  BY <1>1, ScrapeInvOK, PTL DEF ScrapeSpec, ResultsStay

-----------------------------------------------------------------------------
(***************************************************************************)
(* What the provers can say about CallsBack: no request ends in silence.   *)
(* What is left is that some request ends, which takes fairness.           *)
(***************************************************************************)
NoSilentEnd ==
    ~Repeats /\ (\E t \in Tracker : stage[t] = "over") => called # "nothing"

(* The callback is called when the client is destroyed, and no reply brings*)
(* fewer counts than are missing.                                          *)
EndInv ==
    /\ destroyed => called # "nothing"
    /\ len <= Len(asked)
    /\ len <= 0 => destroyed
    /\ NoSilentEnd

LEMMA EndInitOK == ScrapeInit => EndInv
<1> SUFFICES ASSUME ScrapeInit PROVE EndInv
  OBVIOUS
<1>1. asked \in Seq(Hash) /\ asked # <<>>
  BY CallAssumption DEF ScrapeInit
<1>2. Len(asked) \in Nat /\ Len(asked) > 0
  BY <1>1
<1> QED
  BY <1>2 DEF ScrapeInit, EndInv, NoSilentEnd

(* A call that ends the request of some tracker ends with a warning.       *)
LEMMA CallWarns ==
    ASSUME ScrapeTypes, Scrape, NEW t \in Tracker, stage'[t] = "over"
    PROVE  Warn
<1>1. Len(kind) \in Nat /\ Tracker = 1 .. Len(kind)
  BY DEF ScrapeTypes, Tracker
<1>2. kind[t] = "bare" \/ ~ (Cardinality(Bare(t - 1)) < 2)
  BY DEF Scrape
<1>3. Bare(t - 1) = {} => Cardinality(Bare(t - 1)) = 0
  BY FS_EmptySet
<1>4. kind[t] = "bare" \/ Bare(t - 1) # {}
  BY <1>2, <1>3
<1>5. Bare(Len(kind)) # {}
  BY <1>1, <1>4 DEF Bare
<1> QED
  BY <1>5 DEF Scrape

LEMMA EndStepOK == ScrapeInv /\ EndInv /\ [ScrapeNext]_scrapeVars => EndInv'
<1> SUFFICES ASSUME ScrapeInv, EndInv, [ScrapeNext]_scrapeVars PROVE EndInv'
  OBVIOUS
<1> USE DEF call, client
<1>1. /\ UNCHANGED <<kind, asked, form>>
      /\ Tracker' = Tracker /\ Repeats' = Repeats
  BY RequestsStep, CallStays
<1>2. /\ len \in Int /\ Len(asked) \in Nat
      /\ called \in {"nothing", "error", "results"}
  BY DEF ScrapeInv, ScrapeTypes
<1>3. ASSUME Warn PROVE EndInv'
  BY <1>1, <1>3 DEF Warn, EndInv, NoSilentEnd
<1>4. ASSUME UNCHANGED client,
             destroyed \/ \A t \in Tracker : stage'[t] = "over" => stage[t] = "over"
      PROVE  EndInv'
  BY <1>1, <1>4 DEF EndInv, NoSilentEnd
<1>5. ASSUME NEW events, Collect(events), ~destroyed, Cardinality(DOMAIN events) \in Nat,
             \/ ~Repeats /\ Cardinality(DOMAIN events) >= Len(asked)
             \/ Repeats
             \/ UNCHANGED stage
      PROVE  EndInv'
  <2>1. len' = len - Cardinality(DOMAIN events) /\ len > 0 /\ len <= Len(asked)
    BY <1>2, <1>5 DEF Collect, EndInv
  <2>2. CASE len' <= 0
    <3>1. called' # "nothing" /\ destroyed'
      BY <1>5, <2>1, <2>2 DEF Collect
    <3> QED
      BY <1>1, <1>2, <1>5, <2>1, <3>1 DEF EndInv, NoSilentEnd
  <2>3. CASE ~ (len' <= 0)
    <3>1. UNCHANGED <<destroyed, called>>
      BY <1>5, <2>1, <2>3 DEF Collect
    <3>2. Repeats \/ UNCHANGED stage
      BY <1>2, <1>5, <2>1, <2>3
    <3> QED
      BY <1>1, <1>2, <1>5, <2>1, <2>3, <3>1, <3>2 DEF EndInv, NoSilentEnd
  <2> QED
    BY <2>2, <2>3
<1>6. CASE Scrape
  <2>1. CASE \E t \in Tracker : stage'[t] = "over"
    BY <1>3, <1>6, <2>1, CallWarns DEF ScrapeInv
  <2>2. CASE \A t \in Tracker : stage'[t] # "over"
    BY <1>3, <1>4, <1>6, <2>2 DEF Scrape
  <2> QED
    BY <2>1, <2>2
<1>7. ASSUME NEW t \in Tracker, InvalidUrl(t) \/ LookUp(t) \/ Fails(t) \/ GetsLost(t)
      PROVE  EndInv'
  <2>1. CASE InvalidUrl(t)
    BY <1>3, <2>1 DEF InvalidUrl
  <2>2. CASE LookUp(t)
    BY <1>4, <2>2 DEF LookUp
  <2>3. CASE Fails(t)
    BY <1>3, <1>4, <2>3 DEF Fails
  <2>4. CASE GetsLost(t)
    BY <1>4, <2>4 DEF GetsLost, ScrapeInv, ScrapeTypes
  <2> QED
    BY <1>7, <2>1, <2>2, <2>3, <2>4
<1>8. ASSUME NEW t \in Tracker, Answer(t) PROVE EndInv'
  <2>1. CASE destroyed
    BY <1>4, <1>8, <2>1 DEF Answer
  <2>2. CASE ~destroyed
    <3>1. Collect(ScrapeEvents(t)) /\ DOMAIN ScrapeEvents(t) = Keys(t)
      BY <1>8, <2>2 DEF Answer, ScrapeEvents
    <3>2. /\ Cardinality(Keys(t)) \in Nat
          /\ ~Repeats => Cardinality(Keys(t)) >= Len(asked)
      BY <1>2, KeysCount DEF ScrapeInv
    <3> QED
      BY <1>5, <2>2, <3>1, <3>2
  <2> QED
    BY <2>1, <2>2
<1>9. ASSUME NEW t \in Tracker, Overhear(t) PROVE EndInv'
  <2>1. PICK e : Collect(<<e>>)
    BY <1>9 DEF Overhear
  <2>2. DOMAIN <<e>> = {1} /\ Cardinality({1}) = 1
    BY FS_Singleton
  <2>3. ~destroyed /\ UNCHANGED stage
    BY <1>9 DEF Overhear
  <2> QED
    BY <1>5, <2>1, <2>2, <2>3
<1>10. ASSUME NEW t \in Tracker, NEW h \in Hash, Change(t, h) PROVE EndInv'
  BY <1>4, <1>10 DEF Change
<1>11. CASE UNCHANGED scrapeVars
  BY <1>4, <1>11 DEF scrapeVars
<1> QED
  BY <1>6, <1>7, <1>8, <1>9, <1>10, <1>11 DEF ScrapeNext

(* Unless a torrent is asked for twice, the callback was called as soon as *)
(* one tracker is done with: it has answered, failed or cannot scrape.     *)
THEOREM EndsAreHeard == ScrapeSpec => []NoSilentEnd
<1>1. EndInv => NoSilentEnd
  BY DEF EndInv
<1> QED
  BY <1>1, ScrapeInvOK, EndInitOK, EndStepOK, PTL DEF ScrapeSpec
=============================================================================
