------------------------- MODULE MCServerLifecycle -------------------------
(* The constants of ServerLifecycle are in Lifecycle.cfg.                  *)
EXTENDS ServerLifecycle

CONSTANTS c1, c2
=============================================================================
