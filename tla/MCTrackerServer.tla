-------------------------- MODULE MCTrackerServer --------------------------
(***************************************************************************)
(* Small loads of TrackerServer for TLC.                                   *)
(***************************************************************************)
EXTENDS TrackerServer

CONSTANTS P1, P2, P3, a1, s1, s2, h1, h2

Ws(id, s) == [type |-> "ws", peer_id |-> id, addr |-> a1, socket |-> s]
Http(id, a) == [type |-> "http", peer_id |-> id, addr |-> a, socket |-> NoSocket]
Udp(id, a) == [type |-> "udp", peer_id |-> id, addr |-> a, socket |-> NoSocket]

Start(p, h) == [by |-> p, action |-> "announce", hash |-> h,
                event |-> "started", done |-> FALSE]
Stopped(p, h) == [by |-> p, action |-> "announce", hash |-> h,
                  event |-> "stopped", done |-> FALSE]
ScrapeOf(p, h) == [by |-> p, action |-> "scrape", hash |-> h]

(* A browser in two torrents, and a UDP client: NoShared and NoReconnect.  *)
MCMixed == {Start(Ws(P1, s1), h1), Stopped(Ws(P1, s1), h1), Start(Ws(P1, s1), h2),
            Start(Udp(P3, a1), h1), Stopped(Udp(P3, a1), h1),
            ScrapeOf(Ws(P1, s1), h2)}

(* Two clients of one page that share a socket.                            *)
MCShared == {Start(Ws(P1, s1), h1), Start(Ws(P2, s1), h1)}

(* A browser that comes back on another socket.                            *)
MCReconnect == {Start(Ws(P1, s1), h1), Start(Ws(P1, s2), h1)}
=============================================================================
