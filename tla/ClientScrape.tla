---------------------------- MODULE ClientScrape ----------------------------
(***************************************************************************)
(* Client.scrape (client.js): one call asks several trackers for the       *)
(* counts of several torrents, and the first tracker whose answer is       *)
(* complete ends it. The module follows the info hashes from the call over *)
(* the packets and queries of the three transports, through the server's   *)
(* loop of look-ups (server.js), and back into the results.                *)
(*                                                                         *)
(* A count is named by its tracker, its torrent and the number of changes  *)
(* that the swarm had seen, so that it can be told from every other count. *)
(* Handshakes and retries are in UdpTracker, fetches in HttpTracker, the   *)
(* pool and reconnecting in WebSocketTracker: here a request is answered,  *)
(* fails or is lost. A tracker is external only in that its answer may     *)
(* take any time.                                                          *)
(***************************************************************************)
EXTENDS Integers, FiniteSets, Sequences

CONSTANTS
    Urls,        \* what opts.announce may be: sequences of kinds of URLs
    Hash,        \* info hashes
    Asks,        \* what opts.infoHash may be: sequences of info hashes
    MaxChanges,  \* bound: changes of a swarm
    Undefined    \* JavaScript's undefined

(* bare: HTTP without a scrape URL; pooled: WebSocket, over a socket that  *)
(* another client of the page uses, too.                                   *)
Kinds == {"udp", "http", "bare", "ws", "pooled", "invalid"}

ASSUME CallAssumption ==
    /\ \A s \in Asks : s # <<>> /\ s \in Seq(Hash)
    /\ \A s \in Urls : s \in Seq(Kinds)

VARIABLES
    kind,       \* of each tracker, by its URL
    asked,      \* opts.infoHash
    form,       \* "hex" strings or "bytes", which only the UDP client can use
    version,    \* changes that a tracker's swarm has seen
    since,      \* version when the call was made
    stage,      \* of a request: "idle", "asked", "over" or "lost"
    found,      \* what the server's loop has looked up so far for a request
    len,        \* counts that are still missing
    results,    \* the counts that came, by info hash
    called,     \* what the callback was called with: "nothing", "error", "results"
    thrown,     \* Client.scrape threw
    destroyed   \* client.destroyed

call == <<kind, asked, form, since>>
client == <<len, results, called, destroyed>>
Tracker == DOMAIN kind

scrapeVars == <<call, version, stage, found, client, thrown>>

Nothing == [at |-> 0, of |-> Undefined, version |-> 0]

ScrapeInit ==
    /\ kind \in Urls
    /\ asked \in Asks
    /\ form \in {"hex", "bytes"}
    /\ form = "bytes" => \A t \in Tracker : kind[t] \in {"udp", "bare", "invalid"}
    /\ version = [t \in Tracker |-> [h \in Hash |-> 0]]
    /\ since = version
    /\ stage = [t \in Tracker |-> "idle"]
    /\ found = [t \in Tracker |-> <<>>]
    /\ len = Len(asked)
    /\ results = [h \in Hash \cup {Undefined} |-> Nothing]
    /\ called = "nothing"
    /\ thrown = FALSE
    /\ destroyed = FALSE

-----------------------------------------------------------------------------
(* What goes over the wire                                                 *)

(* The parser takes every 20 bytes of a packet for an info hash, so each   *)
(* half of a hex string.                                                   *)
Halves(h) == <<<<h, "left">>, <<h, "right">>>>

(* The info hashes that a tracker receives. The HTTP and WebSocket clients *)
(* convert hex strings; the UDP client copies their 40 characters into the *)
(* packet.                                                                 *)
Wire(t) ==
    IF kind[t] = "udp" /\ form = "hex"
    THEN [i \in 1 .. 2 * Len(asked) |-> Halves(asked[(i + 1) \div 2])[2 - (i % 2)]]
    ELSE asked

(* What getSwarm and swarm.scrape find for an info hash: there is no swarm *)
(* for half a string.                                                      *)
Count(t, h) == [at |-> t, of |-> h, version |-> IF h \in Hash THEN version[t][h] ELSE 0]

(* Where a key of `files` is inserted, which keeps its place when another  *)
(* count is stored under it; how many keys there are up to that place; and *)
(* the count under a key, which is the last one stored.                    *)
Keys(t) == {i \in DOMAIN Wire(t) : \A j \in 1 .. i - 1 : Wire(t)[j] # Wire(t)[i]}
Position(t, i) == Cardinality({j \in Keys(t) : j <= i})
File(t, h) == found[t][CHOOSE i \in DOMAIN found[t] :
                 Wire(t)[i] = h /\ \A j \in DOMAIN found[t] : Wire(t)[j] = h => j <= i]

(* The info hash that a UDP client gives the n-th count of a reply.        *)
Nth(n) == IF n \in DOMAIN asked THEN asked[n] ELSE Undefined

(* Mutant of ScrapeEvents: the counts are read from the wrong end.         *)
ScrapeEventsBackwards(t) ==
    [i \in Keys(t) |-> [hash |-> Nth(Len(asked) + 1 - Position(t, i)),
                        count |-> File(t, Wire(t)[i])]]

(* Mutant of ScrapeEvents: the loop ends before the last count.            *)
ScrapeEventsShort(t) ==
    [i \in Keys(t) \ {Len(Wire(t))} |->
        [hash |-> IF kind[t] = "udp" THEN Nth(Position(t, i)) ELSE Wire(t)[i],
         count |-> File(t, Wire(t)[i])]]

(* The 'scrape' events that a reply becomes, one for each key. The packet  *)
(* of a UDP tracker holds counts only, and the client names them by their  *)
(* position in the call; the others send the info hashes along.            *)
ScrapeEvents(t) ==
    [i \in Keys(t) |->
        [hash |-> IF kind[t] = "udp" THEN Nth(Position(t, i)) ELSE Wire(t)[i],
         count |-> File(t, Wire(t)[i])]]

-----------------------------------------------------------------------------
(* The client's listeners                                                  *)

(* Mutant of Collect: a client whose scrape is complete is not destroyed.  *)
CollectOnly(events) ==
    /\ len' = len - Cardinality(DOMAIN events)
    /\ results' = [h \in DOMAIN results |->
            LET those == {i \in DOMAIN events : events[i].hash = h} IN
            IF those = {} THEN results[h]
            ELSE events[CHOOSE i \in those : \A j \in those : j <= i].count]
    /\ IF len > 0 /\ len' <= 0 /\ called = "nothing" THEN called' = "results" ELSE UNCHANGED called
    /\ UNCHANGED destroyed

(* on('scrape'), once for each event: the count is kept, and the event     *)
(* that completes the scrape destroys the client and calls back, unless    *)
(* the callback was called before. The callback is given `results` itself, *)
(* so what the loop adds afterwards shows in them.                         *)
Collect(events) ==
    /\ len' = len - Cardinality(DOMAIN events)
    /\ results' = [h \in DOMAIN results |->
            LET those == {i \in DOMAIN events : events[i].hash = h} IN
            IF those = {} THEN results[h]
            ELSE events[CHOOSE i \in those : \A j \in those : j <= i].count]
    /\ IF len > 0 /\ len' <= 0
       THEN /\ destroyed' = TRUE
            /\ called' = IF called = "nothing" THEN "results" ELSE called
       ELSE UNCHANGED <<destroyed, called>>

(* Mutant of Warn: nobody listens to warnings.                             *)
WarnNobody == UNCHANGED client

(* once('warning') and once('error'): the callback is called with an error,*)
(* unless it was called before. The client is not destroyed.               *)
Warn ==
    /\ called' = IF called = "nothing" THEN "error" ELSE called
    /\ UNCHANGED <<len, results, destroyed>>

-----------------------------------------------------------------------------
(* The first n trackers as far as they cannot scrape: they emit 'error'.   *)
Bare(n) == {t \in 1 .. n : kind[t] = "bare"}

(* Client.scrape: the trackers are asked in turn. One that cannot scrape   *)
(* emits 'error' at once; a second such error finds no listener, so that   *)
(* the call throws and the trackers behind are not asked.                  *)
Scrape ==
    LET Reached(t) == Cardinality(Bare(t - 1)) < 2 IN
    /\ \A t \in Tracker : stage[t] = "idle"
    /\ stage' = [t \in Tracker |->
                    IF kind[t] = "invalid" \/ (kind[t] # "bare" /\ Reached(t))
                    THEN "asked" ELSE "over"]
    /\ thrown' = (Cardinality(Bare(Len(kind))) > 1)
    /\ IF Bare(Len(kind)) # {} THEN Warn ELSE UNCHANGED client
    /\ since' = version
    /\ UNCHANGED <<kind, asked, form, version, found>>

(* The constructor's warning about a URL, in a microtask after the call.   *)
InvalidUrl(t) ==
    /\ kind[t] = "invalid" /\ stage[t] = "asked"
    /\ stage' = [stage EXCEPT ![t] = "over"]
    /\ Warn
    /\ UNCHANGED <<call, version, found, thrown>>

(* A peer of a torrent announces itself to a tracker. What changes after   *)
(* the tracker was done with is of no interest.                            *)
Change(t, h) ==
    /\ kind[t] \notin {"bare", "invalid"} /\ stage[t] \in {"idle", "asked"}
    /\ version[t][h] < MaxChanges
    /\ version' = [version EXCEPT ![t][h] = @ + 1]
    /\ UNCHANGED <<call, stage, found, client, thrown>>

(* _onScrape: the swarms are looked up one after the other, each in a tick *)
(* of its own, between which other requests are handled.                   *)
LookUp(t) ==
    /\ stage[t] = "asked" /\ kind[t] # "invalid"
    /\ Len(found[t]) < Len(Wire(t))
    /\ found' = [found EXCEPT ![t] = Append(@, Count(t, Wire(t)[Len(@) + 1]))]
    /\ UNCHANGED <<call, version, stage, client, thrown>>

(* The reply is here. A tracker that the client destroyed drops it.        *)
Answer(t) ==
    /\ stage[t] = "asked" /\ kind[t] # "invalid"
    /\ Len(found[t]) = Len(Wire(t))
    /\ stage' = [stage EXCEPT ![t] = "over"]
    /\ IF destroyed THEN UNCHANGED client ELSE Collect(ScrapeEvents(t))
    /\ UNCHANGED <<call, version, found, thrown>>

(* A request times out or fails: a warning.                                *)
Fails(t) ==
    /\ stage[t] = "asked" /\ kind[t] # "invalid"
    /\ stage' = [stage EXCEPT ![t] = "over"]
    /\ IF destroyed THEN UNCHANGED client ELSE Warn
    /\ UNCHANGED <<call, version, found, thrown>>

(* Another client of the page gets the reply to a scrape of its own over   *)
(* the shared socket. Only announces are checked for their info hash, so   *)
(* the reply is taken for one to this client.                              *)
Overhear(t) ==
    /\ kind[t] = "pooled" /\ stage[t] # "idle"
    /\ ~destroyed
    /\ \E h \in Hash : \E v \in 0 .. version[t][h] :
          Collect(<<[hash |-> h, count |-> [at |-> t, of |-> h, version |-> v]]>>)
    /\ UNCHANGED <<call, version, stage, found, thrown>>

(* The socket closes without an error and the tracker reconnects, without  *)
(* asking again; or the body of an HTTP response fails. Nobody is told.    *)
GetsLost(t) ==
    /\ stage[t] = "asked" /\ kind[t] \in {"ws", "pooled", "http"}
    /\ stage' = [stage EXCEPT ![t] = "lost"]
    /\ UNCHANGED <<call, version, found, client, thrown>>

ScrapeNext ==
    \/ Scrape
    \/ \E t \in Tracker : InvalidUrl(t) \/ LookUp(t) \/ Answer(t) \/ Overhear(t)
                        \/ Fails(t) \/ GetsLost(t)
    \/ \E t \in Tracker, h \in Hash : Change(t, h)

Place == UNION {DOMAIN s : s \in Urls}

(* Microtasks run, and HTTP and UDP requests have a timeout.               *)
Fairness ==
    \A t \in Place : /\ WF_scrapeVars(t \in Tracker /\ InvalidUrl(t))
                     /\ WF_scrapeVars(t \in Tracker /\ kind[t] \in {"udp", "http"} /\ Fails(t))

ScrapeSpec == ScrapeInit /\ [][ScrapeNext]_scrapeVars /\ Fairness

-----------------------------------------------------------------------------
(* Properties                                                              *)

AskedFor == {asked[i] : i \in DOMAIN asked}
Repeats == Cardinality(AskedFor) < Len(asked)
Garbled(t) == kind[t] = "udp" /\ form = "hex"

(* Success means that the count of every torrent is there, and all of them *)
(* are from one tracker, though every tracker's events count down the same *)
(* len. It is not so with a shared socket (see Complete).                  *)
AllReported ==
    called = "results" /\ ~Repeats /\ (\A t \in Tracker : kind[t] # "pooled") =>
        \E t \in Tracker :
            /\ \A h \in AskedFor : results[h].at = t
            /\ ~Garbled(t) => \A h \in DOMAIN results \ AskedFor : results[h] = Nothing

(* A count under an info hash was the count of that torrent's swarm at the *)
(* tracker, at some time between the call and now, although the swarms     *)
(* changed during the look-ups and a UDP reply names no torrents. It is    *)
(* not so for hex strings over UDP, nor over UDP for an info hash that is  *)
(* given twice, which shifts the positions.                                *)
CountsTrue ==
    \A h \in Hash : LET r == results[h] IN
        r # Nothing /\ ~(kind[r.at] = "udp" /\ (form = "hex" \/ Repeats)) =>
            /\ r.of = h
            /\ r.version <= version[r.at][h]
            /\ kind[r.at] # "pooled" => r.version >= since[r.at][h]

(* The results that the callback was given do not change afterwards, since *)
(* the other trackers are destroyed, not only ignored.                     *)
ResultsStay == [][called = "results" => results' = results]_scrapeVars

(* The callback is called in the end, unless every tracker is a WebSocket  *)
(* tracker, which has no timeout, or lost its request, or a torrent is     *)
(* asked for twice, which leaves len above 0 for good.                     *)
CallsBack ==
    (\E t \in Tracker : stage[t] # "idle") ~>
        \/ called # "nothing"
        \/ Repeats
        \/ \A t \in Tracker : kind[t] \in {"ws", "pooled"} \/ stage[t] = "lost"

(* client.js:249-250: "Support scraping a tracker for multiple torrents at *)
(* the same time". False of the code: a WebSocket tracker counts the reply *)
(* to another client of its page, so that the call succeeds without the    *)
(* count of a torrent that was asked for.                                  *)
Complete == called = "results" /\ ~Repeats => \A h \in AskedFor : results[h] # Nothing
=============================================================================
