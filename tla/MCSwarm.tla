------------------------------ MODULE MCSwarm ------------------------------
(***************************************************************************)
(* Small deployments of Swarm for TLC.                                     *)
(***************************************************************************)
EXTENDS Swarm

CONSTANTS P1, P2, P3, a1, s1, s2, s3

Ws(id, s) == [type |-> "ws", peer_id |-> id, addr |-> a1, socket |-> s]
Http(id, a) == [type |-> "http", peer_id |-> id, addr |-> a, socket |-> NoSocket]
Udp(id, a) == [type |-> "udp", peer_id |-> id, addr |-> a, socket |-> NoSocket]

(* Two browsers, one of which reconnects, so that two sockets carry its    *)
(* peer id, and a classic client that uses HTTP and UDP from one address.  *)
MCMixed == {Ws(P1, s1), Ws(P1, s2), Ws(P2, s3), Http(P3, a1), Udp(P3, a1)}

(* Two browser clients of one page that share a socket, and a third one on *)
(* a socket of its own.                                                    *)
MCShared == {Ws(P1, s1), Ws(P2, s1), Ws(P3, s2)}

(* A hybrid client (P1) next to a browser.                                 *)
MCHybrid == {Ws(P1, s1), Http(P1, a1), Ws(P2, s2)}
=============================================================================
