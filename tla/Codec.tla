-------------------------------- MODULE Codec --------------------------------
(***************************************************************************)
(* The numbers that go over the wire: the 64-bit integers of a UDP announce*)
(* (udp-tracker.js writes them, parse-udp.js reads them), the layout of    *)
(* its packet, and numwant in the three request parsers. JavaScript's      *)
(* numbers are exact up to 2^53, far above what a byte count needs. TLC's  *)
(* integers have 32 bits, so no run uses the module: see UdpProofs.            *)
(***************************************************************************)
EXTENDS Integers

TwoTo31 == 32768 * 65536
TwoTo32 == 65536 * 65536

-----------------------------------------------------------------------------
(* 64-bit integers                                                         *)

(* What the client writes for a number: its high and its low 32 bits.      *)
toUInt64(n) == <<(n \div TwoTo32) % TwoTo32, n % TwoTo32>>

(* x | 0 takes the 32 bits of x for a signed number.                       *)
Signed(x) == IF x >= TwoTo31 THEN x - TwoTo32 ELSE x

(* (1 << 16) * 2                                                           *)
TWO_PWR_32 == 65536 * 2

(* What the server reads.                                                  *)
fromUInt64(high, low) ==
    Signed(high) * TWO_PWR_32
        + IF Signed(low) >= 0 THEN Signed(low) ELSE TWO_PWR_32 + Signed(low)

Received(n) == fromUInt64(toUInt64(n)[1], toUInt64(n)[2])

-----------------------------------------------------------------------------
(* The packet of an announce                                               *)

(* The fields in the order in which the client concatenates them: their    *)
(* names and sizes in bytes.                                               *)
AnnouncePacket ==
    <<<<"connectionId", 8>>, <<"action", 4>>, <<"transactionId", 4>>,
      <<"info_hash", 20>>, <<"peer_id", 20>>, <<"downloaded", 8>>, <<"left", 8>>,
      <<"uploaded", 8>>, <<"event", 4>>, <<"ip", 4>>, <<"key", 4>>, <<"numwant", 4>>,
      <<"port", 2>>>>

(* Where the server reads a field: from and to.                            *)
AnnounceParser ==
    [connectionId |-> <<0, 8>>, action |-> <<8, 12>>, transactionId |-> <<12, 16>>,
     info_hash |-> <<16, 36>>, peer_id |-> <<36, 56>>, downloaded |-> <<56, 64>>,
     left |-> <<64, 72>>, uploaded |-> <<72, 80>>, event |-> <<80, 84>>, ip |-> <<84, 88>>,
     key |-> <<88, 92>>, numwant |-> <<92, 96>>, port |-> <<96, 98>>]

(* Where the server reads what the client writes as its i-th field.        *)
ReadAt(i) == AnnounceParser[AnnouncePacket[i][1]]
Size(i) == AnnouncePacket[i][2]

-----------------------------------------------------------------------------
(* numwant                                                                 *)

DEFAULT_ANNOUNCE_PEERS == 50
MAX_ANNOUNCE_PEERS == 82
AtMost(n) == IF n < MAX_ANNOUNCE_PEERS THEN n ELSE MAX_ANNOUNCE_PEERS

(* How many peers the server looks for: over UDP and HTTP a default stands *)
(* in for 0, and HTTP lets negative numbers pass; over a WebSocket the     *)
(* offers are counted.                                                     *)
NumWant(type, n) ==
    IF type = "ws" THEN AtMost(n) ELSE AtMost(IF n = 0 THEN DEFAULT_ANNOUNCE_PEERS ELSE n)

(* The size of a UDP reply with that many peers: action, transaction id,   *)
(* interval, two counts, and an IPv4 address with its port for each peer.  *)
ReplySize(peers) == 4 + 4 + 4 + 4 + 4 + 6 * peers
=============================================================================
