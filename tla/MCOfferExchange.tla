-------------------------- MODULE MCOfferExchange --------------------------
(* Constants for OfferExchange: two clients on one page, one on another.   *)
EXTENDS OfferExchange, TLC

CONSTANTS alice, bob, carol, home, cafe

MCPageOf == alice :> home @@ bob :> cafe @@ carol :> cafe
=============================================================================
