--------------------------- MODULE MCHttpTracker ---------------------------
(* A tracker client with three requests, for TLC.                          *)
EXTENDS HttpTracker
CONSTANTS r1, r2, r3
=============================================================================
