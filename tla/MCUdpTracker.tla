---------------------------- MODULE MCUdpTracker ----------------------------
(* A tracker client with two requests, for TLC.                            *)
EXTENDS UdpTracker
CONSTANTS r1, r2
=============================================================================
