--------------------------- MODULE MCClientScrape ---------------------------
(* Constants for ClientScrape: two trackers of any kinds, at most one of   *)
(* them with a WebSocket that is shared; calls for one torrent, for two,   *)
(* and for one that is given twice.                                        *)
EXTENDS ClientScrape

CONSTANTS leaves, alice

MCKinds == <<"udp", "http", "bare", "invalid", "ws", "pooled">>
MCUrls == {<<MCKinds[i], MCKinds[j]>> : i \in 1 .. 5, j \in 1 .. 6} \ {<<"ws", "pooled">>}
MCUrl == {<<k>> : k \in Kinds}
MCAsks == {<<leaves>>, <<leaves, alice>>, <<leaves, leaves, alice>>}
=============================================================================
