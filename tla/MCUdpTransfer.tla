--------------------------- MODULE MCUdpTransfer ----------------------------
(* Two clients, one of them with a one-part file. *)
EXTENDS UdpTransfer, TLC

CONSTANTS c1, c2

MCClients == {c1, c2}
MCParts == c1 :> 3 @@ c2 :> 1
=============================================================================
