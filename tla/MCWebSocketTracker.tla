------------------------- MODULE MCWebSocketTracker -------------------------
(* Pages with up to three trackers, for TLC.                               *)
EXTENDS WebSocketTracker
CONSTANTS t1, t2, t3, k1, k2, k3
=============================================================================
