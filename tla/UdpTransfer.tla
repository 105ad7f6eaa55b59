---------------------------- MODULE UdpTransfer -----------------------------
(***************************************************************************)
(* Stop-and-wait transfer of files over UDP: Lab - 8/2_server.c, the       *)
(* receiver, and Lab - 8/2_client.c, the senders.                          *)
(*                                                                         *)
(* A client sends part after part of its file, each up to MaxTries + 1     *)
(* times, waiting half a second for the echo of the datagram.  The server  *)
(* keeps a table of MaxAddr slots that remembers, for each address, the    *)
(* last part printed; it echoes what it accepts and whatever it has        *)
(* already printed, and says nothing of a part that comes too early or of  *)
(* an address it has no slot for.                                          *)
(*                                                                         *)
(* An operator named Faulty... is the definition that follows it with a    *)
(* plausible mistake in it; no specification uses one.                     *)
(***************************************************************************)
EXTENDS Integers, Sequences

CONSTANTS Clients,       \* addresses of the sending sockets
          Parts,         \* Parts[c]: number of parts of the file of c
          MaxAddr,       \* MAXADDR, the slots of the server's table
          MaxTries,      \* the 5 of "counter <= 5"
          Reliable,      \* the network loses and duplicates nothing, and the
                         \* timeout is longer than a round trip
          EarlyAlarm,    \* SIGALRM may arrive before recv is entered
          SendOutcomes   \* what sendto may return to the server

Outcomes == {"sent", "EPIPE", "error"}

ASSUME ClientAssumption == Clients # {}
ASSUME PartsAssumption == Parts \in [Clients -> Nat \ {0}]
ASSUME SizeAssumption == MaxAddr \in Nat \ {0} /\ MaxTries \in Nat
ASSUME FlagAssumption == Reliable \in BOOLEAN /\ EarlyAlarm \in BOOLEAN
ASSUME OutcomeAssumption == SendOutcomes \subseteq Outcomes

VARIABLES pc,        \* where each client is in doClient / sendAndConfirm
          chunkNo,   \* chunkNo of each client
          counter,   \* counter of each client
          timer,     \* the one-shot ITIMER_REAL of the client is running
          con,       \* the server's table
          up,        \* the server process is running
          toServer,  \* toServer[c]: parts of c the network may deliver
          toClient,  \* toClient[c]: echoes to c the network may deliver
          printed,   \* history: the parts of c printed since it was last given a slot
          best       \* history: the highest part of c printed

clientVars == <<pc, chunkNo, counter, timer>>
serverVars == <<con, up, printed, best>>
vars == <<pc, chunkNo, counter, timer, con, up, toServer, toClient, printed, best>>

Slots == 1..MaxAddr
PartsOf(c) == 1..Parts[c]
Finished(c) == pc[c] \in {"done", "gaveUp"}

Slot(a, n, f) == [free |-> f, chunkNo |-> n, addr |-> a]

TypeOK ==
  /\ pc \in [Clients -> {"send", "armed", "recv", "done", "gaveUp"}]
  /\ chunkNo \in [Clients -> Nat] /\ \A c \in Clients : chunkNo[c] \in PartsOf(c)
  /\ counter \in [Clients -> 0..MaxTries + 1]
  /\ timer \in [Clients -> BOOLEAN]
  /\ con \in [Slots -> [free : BOOLEAN, chunkNo : Nat, addr : Clients]]
  /\ up \in BOOLEAN
  /\ toServer \in [Clients -> SUBSET Nat]
  /\ \A c \in Clients : toServer[c] \subseteq PartsOf(c)
  /\ toClient \in [Clients -> SUBSET Nat]
  /\ \A c \in Clients : toClient[c] \subseteq PartsOf(c)
  /\ printed \in [Clients -> Seq(Nat)] /\ best \in [Clients -> Nat]

\* Only "free" is set; what the rest of a free slot holds is never read.
EmptyTable == [i \in Slots |-> Slot(CHOOSE c \in Clients : TRUE, 0, TRUE)]

Init ==
  /\ pc = [c \in Clients |-> "send"]
  /\ chunkNo = [c \in Clients |-> 1]
  /\ counter = [c \in Clients |-> 0]
  /\ timer = [c \in Clients |-> FALSE]
  /\ con = EmptyTable
  /\ up = TRUE
  /\ toServer = [c \in Clients |-> {}]
  /\ toClient = [c \in Clients |-> {}]
  /\ printed = [c \in Clients |-> <<>>]
  /\ best = [c \in Clients |-> 0]

-----------------------------------------------------------------------------
(* The client *)

FaultySend(c) ==
  /\ pc[c] = "send"
  /\ counter' = [counter EXCEPT ![c] = 1]
  /\ toServer' = [toServer EXCEPT ![c] = @ \cup {chunkNo[c]}]
  /\ timer' = [timer EXCEPT ![c] = TRUE]
  /\ pc' = [pc EXCEPT ![c] = "armed"]
  /\ UNCHANGED <<chunkNo, serverVars, toClient>>

\* counter++, sendto and setitimer: the timer of the last send is replaced.
Send(c) ==
  /\ pc[c] = "send"
  /\ counter' = [counter EXCEPT ![c] = @ + 1]
  /\ toServer' = [toServer EXCEPT ![c] = @ \cup {chunkNo[c]}]
  /\ timer' = [timer EXCEPT ![c] = TRUE]
  /\ pc' = [pc EXCEPT ![c] = "armed"]
  /\ UNCHANGED <<chunkNo, serverVars, toClient>>

EnterRecv(c) ==
  /\ pc[c] = "armed"
  /\ pc' = [pc EXCEPT ![c] = "recv"]
  /\ UNCHANGED <<chunkNo, counter, timer, serverVars, toServer, toClient>>

FaultyNotConfirmed(c) ==
  /\ pc' = [pc EXCEPT ![c] = IF counter[c] <= MaxTries + 1 THEN "send" ELSE "gaveUp"]
  /\ UNCHANGED <<chunkNo, counter>>

\* The part is not confirmed: another try, or out of both loops.
NotConfirmed(c) ==
  /\ pc' = [pc EXCEPT ![c] = IF counter[c] <= MaxTries THEN "send" ELSE "gaveUp"]
  /\ UNCHANGED <<chunkNo, counter>>

\* The part is confirmed: the next one is read, and counted from zero.
Confirmed(c) ==
  IF chunkNo[c] = Parts[c]
    THEN pc' = [pc EXCEPT ![c] = "done"] /\ UNCHANGED <<chunkNo, counter>>
    ELSE /\ pc' = [pc EXCEPT ![c] = "send"]
         /\ chunkNo' = [chunkNo EXCEPT ![c] = @ + 1]
         /\ counter' = [counter EXCEPT ![c] = 0]

FaultyIsAnswer(c, k) == k <= chunkNo[c]

\* The datagram received is the echo of the part just sent.
IsAnswer(c, k) == k = chunkNo[c]

\* recv returns any datagram; only then is its number compared.
RecvEcho(c) ==
  /\ pc[c] = "recv"
  /\ \E k \in toClient[c] :
       /\ IF IsAnswer(c, k) THEN Confirmed(c) ELSE NotConfirmed(c)
       /\ toClient' = IF Reliable THEN [toClient EXCEPT ![c] = @ \ {k}] ELSE toClient
  /\ UNCHANGED <<timer, serverVars, toServer>>

RoundTripOver(c) == toServer[c] = {} /\ toClient[c] = {}

\* SIGALRM interrupts recv.
Alarm(c) ==
  /\ pc[c] = "recv" /\ timer[c]
  /\ Reliable => RoundTripOver(c)
  /\ timer' = [timer EXCEPT ![c] = FALSE]
  /\ NotConfirmed(c)
  /\ UNCHANGED <<serverVars, toServer, toClient>>

\* SIGALRM before recv: the handler runs, and nothing will interrupt recv.
LostAlarm(c) ==
  /\ EarlyAlarm
  /\ pc[c] = "armed" /\ timer[c]
  /\ timer' = [timer EXCEPT ![c] = FALSE]
  /\ UNCHANGED <<pc, chunkNo, counter, serverVars, toServer, toClient>>

-----------------------------------------------------------------------------
(* The server *)

\* findIndex finds i: the first slot that holds the address of c.
Holds(i, c) == ~con[i].free /\ con[i].addr = c
Found(i, c) == Holds(i, c) /\ \A j \in Slots : j < i => ~Holds(j, c)

FaultyAllocated(i, c) ==
  con[i].free /\ \A j \in Slots : j > i => ~con[j].free

\* findIndex gives c a slot: no slot holds it, and i is the last free one.
Allocated(i, c) ==
  /\ \A j \in Slots : ~Holds(j, c)
  /\ con[i].free /\ \A j \in Slots : j > i => ~con[j].free

FindIndex(i, c) == Found(i, c) \/ Allocated(i, c)

\* What has been printed of c for the slot it has; nothing for one it is about to get.
PrintedSoFar(c) == IF \E i \in Slots : Holds(i, c) THEN printed[c] ELSE <<>>

FaultyLastTaken(i, c) == con[i].chunkNo

\* The number of the last part the server took from c, in slot i of findIndex.
LastTaken(i, c) == IF Holds(i, c) THEN con[i].chunkNo ELSE 0

Received(c, k) ==
  /\ up /\ k \in toServer[c]
  /\ toServer' = IF Reliable THEN [toServer EXCEPT ![c] = @ \ {k}] ELSE toServer

\* The echo of datagram k to c out of slot i, whose content is then (n, f).
Echo(i, c, k, n, f) ==
  \E r \in SendOutcomes :
    /\ con' = [con EXCEPT ![i] = Slot(c, n, f \/ r = "EPIPE")]
    /\ up' = (r # "error")
    /\ toClient' = IF r = "sent" THEN [toClient EXCEPT ![c] = @ \cup {k}] ELSE toClient

\* No slot: the datagram is dropped without an answer.
TableFull(c, k) ==
  /\ Received(c, k)
  /\ \A i \in Slots : ~FindIndex(i, c)
  /\ UNCHANGED <<clientVars, serverVars, toClient>>

\* chunkNo > con[i].chunkNo + 1: no answer, but the slot found is kept.
TooEarly(c, k) ==
  /\ Received(c, k)
  /\ \E i \in Slots :
       /\ FindIndex(i, c) /\ k > LastTaken(i, c) + 1
       /\ con' = [con EXCEPT ![i] = Slot(c, LastTaken(i, c), FALSE)]
  /\ printed' = [printed EXCEPT ![c] = PrintedSoFar(c)]
  /\ UNCHANGED <<clientVars, up, best, toClient>>

FaultyExpected(i, c, k) == k \in {LastTaken(i, c), LastTaken(i, c) + 1}

\* The part that follows those already taken.
Expected(i, c, k) == k = LastTaken(i, c) + 1

FaultyFreeAfter(c, k) == FALSE

\* Whether the slot is free after part k: it is after the last one.
FreeAfter(c, k) == k = Parts[c]

\* The part expected is printed; the last one gives the slot back.
TakePart(c, k) ==
  /\ Received(c, k)
  /\ \E i \in Slots :
       /\ FindIndex(i, c) /\ Expected(i, c, k)
       /\ Echo(i, c, k, k, FreeAfter(c, k))
  /\ printed' = [printed EXCEPT ![c] = Append(PrintedSoFar(c), k)]
  /\ best' = [best EXCEPT ![c] = IF k > @ THEN k ELSE @]
  /\ UNCHANGED clientVars

\* A part already printed is echoed again.
EchoOld(c, k) ==
  /\ Received(c, k)
  /\ \E i \in Slots :
       /\ FindIndex(i, c) /\ k <= LastTaken(i, c)
       /\ Echo(i, c, k, LastTaken(i, c), FALSE)
  /\ UNCHANGED <<clientVars, printed, best>>

\* The server ended by ERR, or by its user, is started again with an empty table.
Restart ==
  /\ ~Reliable
  /\ up' = TRUE
  /\ con' = EmptyTable
  /\ UNCHANGED <<clientVars, toServer, toClient, printed, best>>

-----------------------------------------------------------------------------
ClientStep(c) == Send(c) \/ EnterRecv(c) \/ RecvEcho(c) \/ Alarm(c) \/ LostAlarm(c)

ServerStep(c) == \E k \in PartsOf(c) :
  TableFull(c, k) \/ TooEarly(c, k) \/ TakePart(c, k) \/ EchoOld(c, k)

Next == Restart \/ \E c \in Clients : ClientStep(c) \/ ServerStep(c)

Spec == Init /\ [][Next]_vars

\* A client is scheduled until it blocks in recv, and its timer expires.
ClientFairness == \A c \in Clients :
  /\ WF_vars(Send(c)) /\ WF_vars(EnterRecv(c)) /\ WF_vars(Alarm(c))

\* What a network that loses nothing adds: both ends read what has arrived.
NetworkFairness == \A c \in Clients : WF_vars(ServerStep(c)) /\ WF_vars(RecvEcho(c))

FairSpec == Spec /\ ClientFairness
ReliableSpec == Spec /\ ClientFairness /\ NetworkFairness

-----------------------------------------------------------------------------
(* Properties *)

\* findIndex (2_server.c:42-63) never lets one address hold two slots: two
\* slots would number the parts of one file twice.
OneSlotPerAddress ==
  \A c \in Clients, i, j \in Slots : Holds(i, c) /\ Holds(j, c) => i = j

ConfirmedParts(c) == IF pc[c] = "done" THEN Parts[c] ELSE chunkNo[c] - 1

\* A client goes on to the next part, or reports success, only when the server
\* has printed all the parts before: whatever the network does with datagrams
\* and echoes (2_client.c:63, 2_server.c:83-96), however often the server is
\* restarted and the slot of the address is taken away and given back.
ConfirmedIsPrinted == \A c \in Clients : ConfirmedParts(c) <= best[c]

\* From the moment an address gets its slot, its parts are printed each once, in
\* order and with none left out, though datagrams are repeated, come late or come
\* again after an echo was lost (2_server.c:42-63, 83-94).  Once the slot has been
\* given back or the server started again, the file may be printed anew.
PrintsInSequence ==
  \A c \in Clients : \A n \in 1..Len(printed[c]) : printed[c][n] = n

\* The transfer implements the delivery it promises.
Delivery == INSTANCE PartDelivery WITH confirmed <- [c \in Clients |-> ConfirmedParts(c)]
ImplementsDelivery == Delivery!Spec

\* SIGALRM came before recv: only a datagram can end the call.
Stranded(c) == pc[c] = "recv" /\ ~timer[c]

\* No client retries for ever, though echoes never come or stale ones keep
\* coming (2_client.c:59-66): every client ends, but one whose alarm came before
\* it entered recv, which no further signal can wake (2_client.c:26-28).
ClientsEnd == \A c \in Clients : <>[](Finished(c) \/ Stranded(c))

\* With a slot for every client and a network that delivers, every file is
\* transferred and the table is empty again at the end.
AllTransferred ==
  <>[](/\ \A c \in Clients : pc[c] = "done" /\ best[c] = Parts[c]
       /\ \A i \in Slots : con[i].free)
=============================================================================
