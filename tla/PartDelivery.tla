---------------------------- MODULE PartDelivery ----------------------------
(***************************************************************************)
(* What the chunked file transfer of Lab - 8 promises to a client: the     *)
(* server prints the parts of its file in order, and the client holds a    *)
(* part for confirmed only after the server has printed it.                *)
(***************************************************************************)
EXTENDS Naturals

CONSTANTS Clients,  \* the sending sockets
          Parts     \* Parts[c]: the number of parts the file of c splits into

VARIABLES best,       \* best[c]: parts 1..best[c] of c have been printed in order
          confirmed   \* confirmed[c]: parts 1..confirmed[c] are confirmed to c

vars == <<best, confirmed>>

Init == /\ best = [c \in Clients |-> 0]
        /\ confirmed = [c \in Clients |-> 0]

PrintPart(c) ==
  /\ best[c] < Parts[c]
  /\ best' = [best EXCEPT ![c] = @ + 1]
  /\ UNCHANGED confirmed

Confirm(c) ==
  /\ confirmed[c] < best[c]
  /\ confirmed' = [confirmed EXCEPT ![c] = @ + 1]
  /\ UNCHANGED best

Next == \E c \in Clients : PrintPart(c) \/ Confirm(c)

Spec == Init /\ [][Next]_vars
=============================================================================
