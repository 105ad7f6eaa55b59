--------------------------- MODULE NetworkProofs ----------------------------
(***************************************************************************)
(* Proofs about the two programs of Lab - 8 that are modelled.  First      *)
(* UdpTransfer, for any clients, any files and any table size: type        *)
(* correctness, the uniqueness of slots, the meaning of an echo, the order *)
(* of the parts printed, and the refinement of PartDelivery.  Then         *)
(* TcpServers, for any number of connections, messages and slots: type     *)
(* correctness, the agreement of the table with the open connections and   *)
(* with what epoll watches, and that relays reach all, once and in order.  *)
(***************************************************************************)
EXTENDS UdpTransfer, TcpServers, FiniteSetTheorems, SequenceTheorems, WellFoundedInduction, TLAPS

\* A slot held counts the parts printed since the address got it.
SlotsCountPrints ==
  \A c \in Clients, i \in Slots : Holds(i, c) =>
    /\ con[i].chunkNo <= best[c]
    /\ con[i].chunkNo = Len(printed[c])

\* Whatever the network may deliver to a client is the echo of a printed part.
EchoesArePrinted == \A c \in Clients : \A k \in toClient[c] : k <= best[c]

BestBound == \A c \in Clients : best[c] <= Parts[c]

\* A client about to send has a try left: its count never passes MaxTries + 1.
TriesLeft == \A c \in Clients : pc[c] = "send" => counter[c] <= MaxTries

IInv ==
  /\ TypeOK /\ TriesLeft /\ OneSlotPerAddress /\ PrintsInSequence
  /\ SlotsCountPrints /\ EchoesArePrinted /\ ConfirmedIsPrinted /\ BestBound

-----------------------------------------------------------------------------
\* The initial state (main and doServer before the loop, doClient before its
\* loop) satisfies the inductive invariant.
LEMMA InitInv == Init => IInv
<1> SUFFICES ASSUME Init PROVE IInv
  OBVIOUS
<1> USE ClientAssumption, PartsAssumption, SizeAssumption DEF Slots, PartsOf
<1>1. con \in [Slots -> [free : BOOLEAN, chunkNo : Nat, addr : Clients]]
      /\ \A i \in Slots : con[i].free
  <2>1. (CHOOSE c \in Clients : TRUE) \in Clients
    OBVIOUS
  <2> QED
    BY <2>1 DEF Init, EmptyTable, Slot
<1>2. TypeOK
  BY <1>1 DEF Init, TypeOK
<1>3. OneSlotPerAddress /\ SlotsCountPrints
  BY <1>1 DEF OneSlotPerAddress, SlotsCountPrints, Holds
<1>4. EchoesArePrinted /\ ConfirmedIsPrinted /\ BestBound /\ TriesLeft
  BY DEF Init, TriesLeft, EchoesArePrinted, ConfirmedIsPrinted, ConfirmedParts, BestBound
<1>5. PrintsInSequence
  <2>1. Len(<<>>) = 0
    OBVIOUS
  <2> QED
    BY <2>1 DEF Init, PrintsInSequence
<1> QED
  BY <1>2, <1>3, <1>4, <1>5 DEF IInv

\* The prints of an address that is about to get a slot are none, and in order.
LEMMA PrintedSoFarOK ==
  ASSUME TypeOK, PrintsInSequence, NEW c \in Clients
  PROVE  /\ PrintedSoFar(c) \in Seq(Nat)
         /\ \A n \in 1..Len(PrintedSoFar(c)) : PrintedSoFar(c)[n] = n
<1>1. printed[c] \in Seq(Nat) /\ \A n \in 1..Len(printed[c]) : printed[c][n] = n
  BY DEF TypeOK, PrintsInSequence
<1>2. <<>> \in Seq(Nat) /\ Len(<<>>) = 0
  OBVIOUS
<1> QED
  BY <1>1, <1>2 DEF PrintedSoFar

\* Slots are those of one address whichever way findIndex came by them.
LEMMA FoundIsOnlySlot ==
  ASSUME IInv, NEW c \in Clients, NEW i \in Slots, FindIndex(i, c)
  PROVE  /\ \A j \in Slots : Holds(j, c) => j = i
         /\ LastTaken(i, c) \in Nat
         /\ LastTaken(i, c) <= best[c]
         /\ LastTaken(i, c) = Len(PrintedSoFar(c))
         /\ \A d \in Clients : d # c => ~Holds(i, d)
<1>1. TypeOK /\ OneSlotPerAddress /\ SlotsCountPrints
  BY DEF IInv
<1>2. best[c] \in Nat /\ con[i].chunkNo \in Nat
  BY <1>1 DEF TypeOK
<1>3. CASE Found(i, c)
  <2>1. Holds(i, c) /\ PrintedSoFar(c) = printed[c] /\ LastTaken(i, c) = con[i].chunkNo
    BY <1>3 DEF Found, PrintedSoFar, LastTaken
  <2> QED
    BY <1>1, <1>2, <2>1 DEF Holds, OneSlotPerAddress, SlotsCountPrints
<1>4. CASE Allocated(i, c)
  <2>1. (\A j \in Slots : ~Holds(j, c)) /\ PrintedSoFar(c) = <<>> /\ LastTaken(i, c) = 0
    BY <1>4 DEF Allocated, PrintedSoFar, LastTaken
  <2>2. Len(<<>>) = 0
    OBVIOUS
  <2> QED
    BY <1>1, <1>2, <1>4, <2>1, <2>2 DEF Allocated, Holds
<1> QED
  BY <1>3, <1>4 DEF FindIndex

\* Writing (n, f) for address c into the slot findIndex chose keeps one slot
\* per address and a truthful count, when n counts printed parts.
LEMMA WriteSlot ==
  ASSUME IInv, TypeOK',
         NEW c \in Clients, NEW i \in Slots, FindIndex(i, c),
         NEW n \in Nat, NEW f \in BOOLEAN,
         con' = [con EXCEPT ![i] = Slot(c, n, f)],
         n <= best'[c], n = Len(printed'[c]),
         \A d \in Clients : d # c => best'[d] = best[d] /\ printed'[d] = printed[d]
  PROVE  OneSlotPerAddress' /\ SlotsCountPrints'
<1>1. TypeOK /\ OneSlotPerAddress /\ SlotsCountPrints
  BY DEF IInv
<1>2. con'[i] = Slot(c, n, f) /\ \A j \in Slots : j # i => con'[j] = con[j]
  BY <1>1 DEF TypeOK
<1>3. \A j \in Slots : j # i => ~Holds(j, c)
  BY FoundIsOnlySlot
<1>4. \A d \in Clients, j \in Slots : Holds(j, d)' =>
        \/ j = i /\ d = c
        \/ j # i /\ d # c /\ Holds(j, d)
  BY <1>2, <1>3 DEF Holds, Slot
<1>5. OneSlotPerAddress'
  BY <1>1, <1>4 DEF OneSlotPerAddress
<1>6. SlotsCountPrints'
  <2> SUFFICES ASSUME NEW d \in Clients, NEW j \in Slots, Holds(j, d)'
               PROVE  /\ con'[j].chunkNo <= best'[d]
                      /\ con'[j].chunkNo = Len(printed'[d])
    BY DEF SlotsCountPrints
  <2>1. CASE j = i /\ d = c
    BY <1>2, <2>1 DEF Slot
  <2>2. CASE j # i /\ d # c /\ Holds(j, d)
    BY <1>1, <1>2, <2>2 DEF SlotsCountPrints
  <2> QED
    BY <1>4, <2>1, <2>2
<1> QED
  BY <1>5, <1>6
-----------------------------------------------------------------------------
(* One lemma per group of actions: each preserves the inductive invariant. *)

\* What the client's own steps leave alone: the server and its prints.
LEMMA ClientFrame ==
  ASSUME IInv, TypeOK', TriesLeft', UNCHANGED serverVars,
         \A d \in Clients : toClient'[d] \subseteq toClient[d],
         ConfirmedIsPrinted'
  PROVE  IInv'
<1>1. OneSlotPerAddress' /\ PrintsInSequence' /\ SlotsCountPrints' /\ BestBound'
  BY DEF IInv, serverVars, OneSlotPerAddress, PrintsInSequence, SlotsCountPrints, BestBound, Holds
<1>2. EchoesArePrinted'
  BY DEF IInv, serverVars, EchoesArePrinted
<1> QED
  BY <1>1, <1>2 DEF IInv

\* Sending and waiting (2_client.c:19-35) confirm nothing.
LEMMA WaitingInv ==
  ASSUME IInv, NEW c \in Clients, Send(c) \/ EnterRecv(c) \/ LostAlarm(c)
  PROVE  IInv'
<1> USE PartsAssumption, SizeAssumption
<1>1. TypeOK /\ TriesLeft /\ ConfirmedIsPrinted
  BY DEF IInv
<1>2. CASE Send(c)
  <2>1. TypeOK' /\ TriesLeft'
    BY <1>1, <1>2 DEF TypeOK, TriesLeft, Send, serverVars
  <2>2. ConfirmedIsPrinted'
    BY <1>1, <1>2 DEF TypeOK, Send, serverVars, ConfirmedIsPrinted, ConfirmedParts
  <2> QED
    BY <1>2, <2>1, <2>2, ClientFrame DEF Send
<1>3. CASE EnterRecv(c)
  <2>1. TypeOK' /\ TriesLeft'
    BY <1>1, <1>3 DEF TypeOK, TriesLeft, EnterRecv, serverVars
  <2>2. ConfirmedIsPrinted'
    BY <1>1, <1>3 DEF TypeOK, EnterRecv, serverVars, ConfirmedIsPrinted, ConfirmedParts
  <2> QED
    BY <1>3, <2>1, <2>2, ClientFrame DEF EnterRecv
<1>4. CASE LostAlarm(c)
  <2>1. TypeOK' /\ TriesLeft' /\ ConfirmedIsPrinted'
    BY <1>1, <1>4 DEF TypeOK, TriesLeft, LostAlarm, serverVars, ConfirmedIsPrinted, ConfirmedParts
  <2> QED
    BY <1>4, <2>1, ClientFrame DEF LostAlarm
<1> QED
  BY <1>2, <1>3, <1>4

\* Neither does another try, or giving up.
LEMMA NotConfirmedInv ==
  ASSUME IInv, NEW c \in Clients, pc[c] = "recv", NotConfirmed(c),
         timer' \in [Clients -> BOOLEAN], UNCHANGED <<serverVars, toServer>>,
         toClient' \in [Clients -> SUBSET Nat],
         \A d \in Clients : toClient'[d] \subseteq toClient[d]
  PROVE  IInv'
<1> USE PartsAssumption, SizeAssumption
<1>1. TypeOK /\ TriesLeft /\ ConfirmedIsPrinted
  BY DEF IInv
<1>2. TypeOK' /\ TriesLeft'
  BY <1>1 DEF TypeOK, TriesLeft, NotConfirmed, serverVars
<1>3. ConfirmedIsPrinted'
  BY <1>1 DEF TypeOK, NotConfirmed, serverVars, ConfirmedIsPrinted, ConfirmedParts
<1> QED
  BY <1>2, <1>3, ClientFrame

\* A timeout in recv keeps the inductive invariant.
LEMMA AlarmInv ==
  ASSUME IInv, NEW c \in Clients, Alarm(c)
  PROVE  IInv'
<1>1. timer' \in [Clients -> BOOLEAN] /\ toClient' \in [Clients -> SUBSET Nat]
  BY DEF IInv, TypeOK, Alarm
<1> QED
  BY <1>1, NotConfirmedInv DEF Alarm

\* An echo confirms the part just sent, which the server has printed, or
\* nothing (2_client.c:28-66).
LEMMA RecvEchoInv ==
  ASSUME IInv, NEW c \in Clients, RecvEcho(c)
  PROVE  IInv'
<1> USE PartsAssumption, SizeAssumption
<1>1. TypeOK /\ TriesLeft /\ ConfirmedIsPrinted /\ EchoesArePrinted
  BY DEF IInv
<1>2. PICK k \in toClient[c] :
        /\ IF IsAnswer(c, k) THEN Confirmed(c) ELSE NotConfirmed(c)
        /\ toClient' = IF Reliable THEN [toClient EXCEPT ![c] = @ \ {k}] ELSE toClient
  BY DEF RecvEcho
<1>3. pc[c] = "recv" /\ UNCHANGED <<timer, serverVars, toServer>>
  BY DEF RecvEcho
<1>4. /\ toClient' \in [Clients -> SUBSET Nat]
      /\ \A d \in Clients : toClient'[d] \subseteq toClient[d]
  BY <1>1, <1>2 DEF TypeOK
<1>5. CASE ~IsAnswer(c, k)
  BY <1>1, <1>2, <1>3, <1>4, <1>5, NotConfirmedInv DEF TypeOK
<1>6. CASE IsAnswer(c, k)
  <2>1. Confirmed(c) /\ chunkNo[c] <= best[c]
    BY <1>1, <1>2, <1>6 DEF IsAnswer, EchoesArePrinted
  <2>2. TypeOK' /\ TriesLeft'
    <3>1. chunkNo[c] \in Nat /\ chunkNo[c] \in 1..Parts[c] /\ Parts[c] \in Nat
      BY <1>1 DEF TypeOK, PartsOf
    <3>2. \A d \in Clients : toClient'[d] \subseteq PartsOf(d)
      BY <1>1, <1>4 DEF TypeOK
    <3>3. CASE chunkNo[c] = Parts[c]
      BY <1>1, <1>3, <1>4, <2>1, <3>2, <3>3 DEF TypeOK, TriesLeft, Confirmed, serverVars
    <3>4. CASE chunkNo[c] # Parts[c]
      <4>1. /\ pc' = [pc EXCEPT ![c] = "send"]
            /\ chunkNo' = [chunkNo EXCEPT ![c] = @ + 1]
            /\ counter' = [counter EXCEPT ![c] = 0]
        BY <2>1, <3>4 DEF Confirmed
      <4>2. chunkNo' \in [Clients -> Nat] /\ \A d \in Clients : chunkNo'[d] \in PartsOf(d)
        <5>1. chunkNo[c] + 1 \in 1..Parts[c]
          BY <3>1, <3>4
        <5>2. chunkNo'[c] = chunkNo[c] + 1 /\ \A d \in Clients \ {c} : chunkNo'[d] = chunkNo[d]
          BY <1>1, <4>1 DEF TypeOK
        <5>3. chunkNo' \in [Clients -> Nat]
          BY <1>1, <3>1, <4>1 DEF TypeOK
        <5> QED
          BY <1>1, <5>1, <5>2, <5>3 DEF TypeOK, PartsOf
      <4>3. counter' \in [Clients -> 0..MaxTries + 1] /\ TriesLeft'
        BY <1>1, <4>1 DEF TypeOK, TriesLeft
      <4> QED
        BY <1>1, <1>3, <1>4, <3>2, <4>1, <4>2, <4>3 DEF TypeOK, serverVars
    <3> QED
      BY <3>3, <3>4
  <2>3. ConfirmedIsPrinted'
    <3>1. /\ pc \in [Clients -> {"send", "armed", "recv", "done", "gaveUp"}]
          /\ chunkNo \in [Clients -> Nat] /\ chunkNo[c] \in 1..Parts[c]
          /\ best \in [Clients -> Nat] /\ best' = best
      BY <1>1, <1>3 DEF TypeOK, PartsOf, serverVars
    <3> QED
      BY <1>1, <2>1, <3>1 DEF Confirmed, ConfirmedIsPrinted, ConfirmedParts
  <2> QED
    BY <1>3, <1>4, <2>2, <2>3, ClientFrame
<1> QED
  BY <1>5, <1>6

\* A datagram received leaves the network in its type.
LEMMA ReceivedType ==
  ASSUME TypeOK, NEW c \in Clients, NEW k \in PartsOf(c), Received(c, k)
  PROVE  /\ toServer' \in [Clients -> SUBSET Nat]
         /\ \A d \in Clients : toServer'[d] \subseteq PartsOf(d)
BY DEF TypeOK, Received

\* A datagram with no slot changes nothing at the server (2_server.c:79).
LEMMA TableFullInv ==
  ASSUME IInv, NEW c \in Clients, NEW k \in PartsOf(c), TableFull(c, k)
  PROVE  IInv'
<1>1. TypeOK' /\ TriesLeft'
  BY ReceivedType DEF IInv, TypeOK, TriesLeft, TableFull, clientVars, serverVars
<1>2. ConfirmedIsPrinted'
  BY DEF IInv, TableFull, clientVars, serverVars, ConfirmedIsPrinted, ConfirmedParts
<1> QED
  BY <1>1, <1>2, ClientFrame DEF IInv, TableFull

\* Prints that are in order for one address are in order for all.
LEMMA PrintsInOrder ==
  ASSUME TypeOK, PrintsInSequence, NEW c \in Clients, NEW s \in Seq(Nat),
         \A n \in 1..Len(s) : s[n] = n, printed' = [printed EXCEPT ![c] = s]
  PROVE  /\ printed' \in [Clients -> Seq(Nat)] /\ printed'[c] = s
         /\ \A d \in Clients : d # c => printed'[d] = printed[d]
         /\ PrintsInSequence'
<1>1. printed \in [Clients -> Seq(Nat)]
  BY DEF TypeOK
<1>2. /\ printed' \in [Clients -> Seq(Nat)] /\ printed'[c] = s
      /\ \A d \in Clients : d # c => printed'[d] = printed[d]
  BY <1>1
<1>3. PrintsInSequence'
  <2> SUFFICES ASSUME NEW d \in Clients, NEW n \in 1..Len(printed'[d])
               PROVE  printed'[d][n] = n
    BY DEF PrintsInSequence
  <2>1. CASE d = c
    BY <1>2, <2>1
  <2>2. CASE d # c
    BY <1>2, <2>2 DEF PrintsInSequence
  <2> QED
    BY <2>1, <2>2
<1> QED
  BY <1>2, <1>3

\* A part that comes too early may take a slot, but prints and answers nothing
\* (2_server.c:83-84).
LEMMA TooEarlyInv ==
  ASSUME IInv, NEW c \in Clients, NEW k \in PartsOf(c), TooEarly(c, k)
  PROVE  IInv'
<1>1. TypeOK
  BY DEF IInv
<1>2. PICK i \in Slots :
        FindIndex(i, c) /\ con' = [con EXCEPT ![i] = Slot(c, LastTaken(i, c), FALSE)]
  BY DEF TooEarly
<1>3. /\ UNCHANGED <<clientVars, up, best, toClient>> /\ Received(c, k)
      /\ printed' = [printed EXCEPT ![c] = PrintedSoFar(c)]
  BY DEF TooEarly
<1>4. LastTaken(i, c) \in Nat /\ LastTaken(i, c) <= best[c]
      /\ LastTaken(i, c) = Len(PrintedSoFar(c))
  BY <1>2, FoundIsOnlySlot
<1>5. con' \in [Slots -> [free : BOOLEAN, chunkNo : Nat, addr : Clients]]
  BY <1>1, <1>2, <1>4 DEF TypeOK, Slot
<1>6. /\ printed' \in [Clients -> Seq(Nat)] /\ printed'[c] = PrintedSoFar(c)
      /\ \A d \in Clients : d # c => printed'[d] = printed[d]
      /\ PrintsInSequence'
  BY <1>1, <1>3, PrintsInOrder, PrintedSoFarOK DEF IInv
<1>7. TypeOK' /\ TriesLeft'
  BY <1>1, <1>3, <1>5, <1>6, ReceivedType DEF IInv, TypeOK, TriesLeft, clientVars
<1>8. OneSlotPerAddress' /\ SlotsCountPrints'
  <2>1. LastTaken(i, c) <= best'[c] /\ LastTaken(i, c) = Len(printed'[c])
    BY <1>3, <1>4, <1>6
  <2>2. \A d \in Clients : d # c => best'[d] = best[d] /\ printed'[d] = printed[d]
    BY <1>3, <1>6
  <2> QED
    BY <1>2, <1>4, <1>7, <2>1, <2>2, WriteSlot
<1>9. EchoesArePrinted' /\ ConfirmedIsPrinted' /\ BestBound'
  BY <1>3 DEF IInv, EchoesArePrinted, ConfirmedIsPrinted, ConfirmedParts, BestBound, clientVars
<1> QED
  BY <1>6, <1>7, <1>8, <1>9 DEF IInv

\* What an echo of a printed part keeps, whatever sendto returns
\* (2_server.c:96-102).
LEMMA EchoInv ==
  ASSUME IInv, NEW c \in Clients, NEW k \in PartsOf(c), NEW i \in Slots,
         FindIndex(i, c), NEW n \in Nat, NEW f \in BOOLEAN,
         Echo(i, c, k, n, f), Received(c, k), UNCHANGED clientVars,
         best' \in [Clients -> Nat], printed' \in [Clients -> Seq(Nat)], PrintsInSequence',
         k <= best'[c], n <= best'[c], n = Len(printed'[c]), best[c] <= best'[c],
         best'[c] <= Parts[c],
         \A d \in Clients : d # c => best'[d] = best[d] /\ printed'[d] = printed[d]
  PROVE  IInv'
<1> USE PartsAssumption
<1>1. TypeOK
  BY DEF IInv
<1>2. PICK r \in SendOutcomes :
    /\ con' = [con EXCEPT ![i] = Slot(c, n, f \/ r = "EPIPE")]
    /\ up' = (r # "error")
    /\ toClient' = IF r = "sent" THEN [toClient EXCEPT ![c] = @ \cup {k}] ELSE toClient
  BY DEF Echo
<1>3. k \in Nat /\ k \in PartsOf(c)
  BY DEF PartsOf
<1>4. /\ toClient' \in [Clients -> SUBSET Nat]
      /\ \A d \in Clients : toClient'[d] \subseteq PartsOf(d)
      /\ \A d \in Clients : toClient'[d] \subseteq toClient[d] \cup (IF d = c THEN {k} ELSE {})
  BY <1>1, <1>2, <1>3 DEF TypeOK
<1>5. /\ con' \in [Slots -> [free : BOOLEAN, chunkNo : Nat, addr : Clients]]
      /\ up' \in BOOLEAN
  BY <1>1, <1>2 DEF TypeOK, Slot
<1>6. TypeOK' /\ TriesLeft'
  BY <1>1, <1>4, <1>5, ReceivedType DEF IInv, TypeOK, TriesLeft, clientVars
<1>7. OneSlotPerAddress' /\ SlotsCountPrints'
  <2>1. (f \/ r = "EPIPE") \in BOOLEAN
    OBVIOUS
  <2> QED
    BY <1>2, <1>6, <2>1, WriteSlot
<1>8. \A d \in Clients : best[d] \in Nat /\ best'[d] \in Nat /\ best[d] <= best'[d]
  <2>1. best \in [Clients -> Nat]
    BY <1>1 DEF TypeOK
  <2>2. /\ c \in Clients /\ best' \in [Clients -> Nat] /\ best[c] <= best'[c]
        /\ \A d \in Clients : d # c => best'[d] = best[d]
    OBVIOUS
  <2> QED
    BY ONLY <2>1, <2>2
<1>9. EchoesArePrinted'
  <2>1. EchoesArePrinted /\ toClient \in [Clients -> SUBSET Nat]
    BY <1>1 DEF IInv, TypeOK
  <2>2. c \in Clients /\ k <= best'[c]
    OBVIOUS
  <2> QED
    BY ONLY <1>3, <1>4, <1>8, <2>1, <2>2 DEF EchoesArePrinted
<1>10. ConfirmedIsPrinted'
  <2>1. \A d \in Clients : ConfirmedParts(d)' = ConfirmedParts(d) /\ ConfirmedParts(d) \in Int
    BY <1>1 DEF ConfirmedParts, clientVars, TypeOK
  <2>2. ConfirmedIsPrinted
    BY DEF IInv
  <2> QED
    BY ONLY <1>8, <2>1, <2>2 DEF ConfirmedIsPrinted
<1>11. BestBound'
  BY DEF IInv, BestBound
<1> QED
  BY <1>6, <1>7, <1>9, <1>10, <1>11 DEF IInv

\* A number that follows those in order is in order after them.
LEMMA AppendInOrder ==
  ASSUME NEW s \in Seq(Nat), \A n \in 1..Len(s) : s[n] = n, NEW k \in Nat, k = Len(s) + 1
  PROVE  /\ Append(s, k) \in Seq(Nat) /\ Len(Append(s, k)) = k
         /\ \A n \in 1..k : Append(s, k)[n] = n
OBVIOUS

\* The part expected is printed as the next one (2_server.c:85-95).
LEMMA TakePartInv ==
  ASSUME IInv, NEW c \in Clients, NEW k \in PartsOf(c), TakePart(c, k)
  PROVE  IInv'
<1> USE PartsAssumption
<1>1. TypeOK
  BY DEF IInv
<1>2. PICK i \in Slots :
        FindIndex(i, c) /\ Expected(i, c, k) /\ Echo(i, c, k, k, FreeAfter(c, k))
  BY DEF TakePart
<1>3. /\ printed' = [printed EXCEPT ![c] = Append(PrintedSoFar(c), k)]
      /\ best' = [best EXCEPT ![c] = IF k > @ THEN k ELSE @]
      /\ UNCHANGED clientVars /\ Received(c, k)
  BY DEF TakePart
<1>4. k \in Nat /\ k <= Parts[c] /\ FreeAfter(c, k) \in BOOLEAN /\ best[c] \in Nat /\ Parts[c] \in Nat
  BY <1>1 DEF PartsOf, FreeAfter, TypeOK
<1>5. /\ best' \in [Clients -> Nat]
      /\ k <= best'[c] /\ best[c] <= best'[c] /\ best'[c] <= Parts[c]
      /\ \A d \in Clients : d # c => best'[d] = best[d]
  BY <1>1, <1>3, <1>4 DEF IInv, BestBound, TypeOK
<1>6. PrintedSoFar(c) \in Seq(Nat) /\ \A n \in 1..Len(PrintedSoFar(c)) : PrintedSoFar(c)[n] = n
  BY <1>1, PrintedSoFarOK DEF IInv
<1>7. k = Len(PrintedSoFar(c)) + 1
  BY <1>2, FoundIsOnlySlot DEF Expected
<1>8. /\ Append(PrintedSoFar(c), k) \in Seq(Nat)
      /\ Len(Append(PrintedSoFar(c), k)) = k
      /\ \A n \in 1..k : Append(PrintedSoFar(c), k)[n] = n
  BY <1>4, <1>6, <1>7, AppendInOrder
<1>9. /\ printed' \in [Clients -> Seq(Nat)] /\ Len(printed'[c]) = k
      /\ \A d \in Clients : d # c => printed'[d] = printed[d]
      /\ PrintsInSequence'
  BY <1>1, <1>3, <1>8, PrintsInOrder DEF IInv
<1>10. k \in Nat /\ FreeAfter(c, k) \in BOOLEAN /\ Received(c, k) /\ UNCHANGED clientVars
  BY <1>3, <1>4
<1> QED
  BY <1>2, <1>5, <1>9, <1>10, EchoInv

\* A part already printed is only echoed (2_server.c:83-96).
LEMMA EchoOldInv ==
  ASSUME IInv, NEW c \in Clients, NEW k \in PartsOf(c), EchoOld(c, k)
  PROVE  IInv'
<1>1. TypeOK
  BY DEF IInv
<1>2. PICK i \in Slots :
        FindIndex(i, c) /\ k <= LastTaken(i, c) /\ Echo(i, c, k, LastTaken(i, c), FALSE)
  BY DEF EchoOld
<1>3. UNCHANGED <<clientVars, printed, best>> /\ Received(c, k)
  BY DEF EchoOld
<1>4. LastTaken(i, c) \in Nat /\ LastTaken(i, c) <= best[c] /\ k \in Nat /\ 1 <= k
  BY <1>2, FoundIsOnlySlot DEF PartsOf
<1>5. LastTaken(i, c) = Len(printed[c])
  <2>1. Holds(i, c)
    BY <1>2, <1>4 DEF LastTaken
  <2> QED
    BY <2>1 DEF LastTaken, IInv, SlotsCountPrints
<1>6. /\ best' \in [Clients -> Nat] /\ printed' \in [Clients -> Seq(Nat)] /\ PrintsInSequence'
      /\ best'[c] = best[c] /\ printed'[c] = printed[c] /\ best[c] \in Nat
      /\ best'[c] <= Parts[c]
      /\ \A d \in Clients : d # c => best'[d] = best[d] /\ printed'[d] = printed[d]
  BY <1>1, <1>3 DEF IInv, BestBound, TypeOK, PrintsInSequence
<1>7. k <= best[c]
  BY <1>2, <1>4, <1>6
<1>8. /\ k <= best'[c] /\ LastTaken(i, c) <= best'[c] /\ best[c] <= best'[c]
      /\ LastTaken(i, c) = Len(printed'[c])
  BY <1>4, <1>5, <1>6, <1>7
<1>9. Echo(i, c, k, LastTaken(i, c), FALSE) /\ Received(c, k) /\ UNCHANGED clientVars
  BY <1>2, <1>3
<1> QED
  BY <1>2, <1>4, <1>6, <1>8, <1>9, EchoInv

\* A server started again knows no address and has forgotten no print.
LEMMA RestartInv ==
  ASSUME IInv, Restart
  PROVE  IInv'
<1>1. con' \in [Slots -> [free : BOOLEAN, chunkNo : Nat, addr : Clients]]
      /\ \A i \in Slots : con'[i].free
  <2>1. (CHOOSE c \in Clients : TRUE) \in Clients
    BY ClientAssumption
  <2> QED
    BY <2>1 DEF Restart, EmptyTable, Slot
<1>2. TypeOK' /\ TriesLeft'
  BY <1>1 DEF IInv, TypeOK, TriesLeft, Restart, clientVars
<1>3. OneSlotPerAddress' /\ SlotsCountPrints'
  BY <1>1 DEF OneSlotPerAddress, SlotsCountPrints, Holds
<1>4. EchoesArePrinted' /\ ConfirmedIsPrinted' /\ BestBound' /\ PrintsInSequence'
  BY DEF IInv, Restart, clientVars, EchoesArePrinted, ConfirmedIsPrinted, ConfirmedParts, BestBound, PrintsInSequence
<1> QED
  BY <1>2, <1>3, <1>4 DEF IInv

\* Every step of the system keeps the inductive invariant.
LEMMA NextInv == IInv /\ [Next]_vars => IInv'
<1> SUFFICES ASSUME IInv, [Next]_vars PROVE IInv'
  OBVIOUS
<1>1. CASE Restart
  BY <1>1, RestartInv
<1>2. ASSUME NEW c \in Clients, ClientStep(c) PROVE IInv'
  BY <1>2, WaitingInv, AlarmInv, RecvEchoInv DEF ClientStep
<1>3. ASSUME NEW c \in Clients, ServerStep(c) PROVE IInv'
  <2>1. PICK k \in PartsOf(c) :
        TableFull(c, k) \/ TooEarly(c, k) \/ TakePart(c, k) \/ EchoOld(c, k)
    BY <1>3 DEF ServerStep
  <2>2. CASE TableFull(c, k)
    BY <2>2, TableFullInv
  <2>3. CASE TooEarly(c, k)
    BY <2>3, TooEarlyInv
  <2>4. CASE TakePart(c, k)
    BY <2>4, TakePartInv
  <2>5. CASE EchoOld(c, k)
    BY <2>5, EchoOldInv
  <2> QED
    BY <2>1, <2>2, <2>3, <2>4, <2>5
<1>4. CASE UNCHANGED vars
  BY <1>4 DEF vars, IInv, TypeOK, TriesLeft, OneSlotPerAddress, PrintsInSequence, SlotsCountPrints, Holds,
     EchoesArePrinted, ConfirmedIsPrinted, ConfirmedParts, BestBound
<1> QED
  BY <1>1, <1>2, <1>3, <1>4 DEF Next

-----------------------------------------------------------------------------
\* The inductive invariant holds in every state the transfer reaches.
THEOREM Invariance == Spec => []IInv
<1> QED
  BY InitInv, NextInv, PTL DEF Spec

\* The client and the server of Lab - 8 keep their variables in their types,
\* the count of tries below its bound among them.
THEOREM TypeCorrect == Spec => []TypeOK
<1>1. IInv => TypeOK
  BY DEF IInv
<1> QED
  BY <1>1, Invariance, PTL

\* findIndex never lets an address hold two slots.
THEOREM SlotsAreUnique == Spec => []OneSlotPerAddress
<1>1. IInv => OneSlotPerAddress
  BY DEF IInv
<1> QED
  BY <1>1, Invariance, PTL

\* A client holds no part for confirmed that the server has not printed.
THEOREM ConfirmationIsSound == Spec => []ConfirmedIsPrinted
<1>1. IInv => ConfirmedIsPrinted
  BY DEF IInv
<1> QED
  BY <1>1, Invariance, PTL

\* From the moment an address gets its slot its parts are printed each once and in
\* order (2_server.c:83-94).
THEOREM PrintsAreInSequence == Spec => []PrintsInSequence
<1>1. IInv => PrintsInSequence
  BY DEF IInv
<1> QED
  BY <1>1, Invariance, PTL

-----------------------------------------------------------------------------
(* What a step may do to the parts printed and confirmed. *)

\* The prints and confirmations of one step: at most the next part of one client.
LEMMA StepEffect ==
  ASSUME IInv, IInv', Next
  PROVE  \/ UNCHANGED <<best, [c \in Clients |-> ConfirmedParts(c)]>>
         \/ \E c \in Clients :
              /\ best' = best \/ (best[c] < Parts[c] /\ best' = [best EXCEPT ![c] = @ + 1])
              /\ \A d \in Clients : ConfirmedParts(d)' = ConfirmedParts(d)
         \/ \E c \in Clients :
              /\ ConfirmedParts(c) < best[c]
              /\ ConfirmedParts(c)' = ConfirmedParts(c) + 1
              /\ \A d \in Clients : d # c => ConfirmedParts(d)' = ConfirmedParts(d)
              /\ UNCHANGED best
<1> USE PartsAssumption, SizeAssumption
<1> DEFINE Quiet == UNCHANGED <<best, [c \in Clients |-> ConfirmedParts(c)]>>
           Printing(c) ==
              /\ best' = best \/ (best[c] < Parts[c] /\ best' = [best EXCEPT ![c] = @ + 1])
              /\ \A d \in Clients : ConfirmedParts(d)' = ConfirmedParts(d)
           Confirming(c) ==
              /\ ConfirmedParts(c) < best[c]
              /\ ConfirmedParts(c)' = ConfirmedParts(c) + 1
              /\ \A d \in Clients : d # c => ConfirmedParts(d)' = ConfirmedParts(d)
              /\ UNCHANGED best
<1>1. TypeOK /\ EchoesArePrinted
  BY DEF IInv
<1>2. ASSUME UNCHANGED <<pc, chunkNo, best>> PROVE Quiet
  BY <1>2 DEF ConfirmedParts
<1>3. CASE Restart
  BY <1>2, <1>3 DEF Restart, clientVars
<1>4. ASSUME NEW c \in Clients, ClientStep(c) PROVE Quiet \/ Confirming(c)
  <2>1. ASSUME pc[c] \notin {"done"}, chunkNo' = chunkNo, UNCHANGED best,
               NEW x \in {"send", "armed", "recv", "gaveUp"}, pc' = [pc EXCEPT ![c] = x]
        PROVE  Quiet
    BY <1>1, <2>1 DEF ConfirmedParts, TypeOK
  <2>2. ASSUME pc[c] = "recv", NotConfirmed(c), UNCHANGED serverVars PROVE Quiet
    BY <2>1, <2>2 DEF NotConfirmed, serverVars
  <2>3. CASE Send(c)
    BY <2>1, <2>3 DEF Send, serverVars
  <2>4. CASE EnterRecv(c)
    BY <2>1, <2>4 DEF EnterRecv, serverVars
  <2>5. CASE Alarm(c)
    BY <2>2, <2>5 DEF Alarm
  <2>6. CASE LostAlarm(c)
    BY <1>2, <2>6 DEF LostAlarm, serverVars
  <2>7. CASE RecvEcho(c)
    <3>1. PICK k \in toClient[c] : IF IsAnswer(c, k) THEN Confirmed(c) ELSE NotConfirmed(c)
      BY <2>7 DEF RecvEcho
    <3>2. pc[c] = "recv" /\ UNCHANGED serverVars
      BY <2>7 DEF RecvEcho
    <3>3. CASE ~IsAnswer(c, k)
      BY <2>2, <3>1, <3>2, <3>3
    <3>4. CASE IsAnswer(c, k)
      <4>1. /\ Confirmed(c) /\ chunkNo[c] <= best[c]
            /\ chunkNo[c] \in 1..Parts[c] /\ best[c] \in Nat /\ Parts[c] \in Nat
        BY <1>1, <3>1, <3>4 DEF IsAnswer, EchoesArePrinted, TypeOK, PartsOf
      <4>2. ConfirmedParts(c) = chunkNo[c] - 1
        BY <3>2 DEF ConfirmedParts
      <4>3. ConfirmedParts(c)' = chunkNo[c]
        BY <1>1, <4>1 DEF Confirmed, ConfirmedParts, TypeOK
      <4>4. \A d \in Clients : d # c => ConfirmedParts(d)' = ConfirmedParts(d)
        BY <1>1, <4>1 DEF Confirmed, ConfirmedParts, TypeOK
      <4> QED
        BY <3>2, <4>1, <4>2, <4>3, <4>4 DEF serverVars
    <3> QED
      BY <3>3, <3>4
  <2> QED
    BY <1>4, <2>3, <2>4, <2>5, <2>6, <2>7 DEF ClientStep
<1>5. ASSUME NEW c \in Clients, ServerStep(c) PROVE Quiet \/ Printing(c)
  <2>1. PICK k \in PartsOf(c) :
          TableFull(c, k) \/ TooEarly(c, k) \/ TakePart(c, k) \/ EchoOld(c, k)
    BY <1>5 DEF ServerStep
  <2>2. CASE TableFull(c, k)
    BY <1>2, <2>2 DEF TableFull, clientVars, serverVars
  <2>3. CASE TooEarly(c, k)
    BY <1>2, <2>3 DEF TooEarly, clientVars
  <2>4. CASE EchoOld(c, k)
    BY <1>2, <2>4 DEF EchoOld, clientVars
  <2>5. CASE TakePart(c, k)
    <3>1. PICK i \in Slots : FindIndex(i, c) /\ Expected(i, c, k)
      BY <2>5 DEF TakePart
    <3>2. /\ best' = [best EXCEPT ![c] = IF k > @ THEN k ELSE @]
          /\ UNCHANGED clientVars
      BY <2>5 DEF TakePart
    <3>3. k = LastTaken(i, c) + 1 /\ LastTaken(i, c) \in Nat /\ LastTaken(i, c) <= best[c]
      BY <3>1, FoundIsOnlySlot DEF Expected
    <3>4. /\ k \in Nat /\ k <= Parts[c] /\ Parts[c] \in Nat /\ best[c] \in Nat
      BY <1>1 DEF PartsOf, TypeOK
    <3>5. best' = best \/ (best[c] < Parts[c] /\ best' = [best EXCEPT ![c] = @ + 1])
      <4>1. CASE k > best[c]
        <5>1. k = best[c] + 1 /\ best[c] < Parts[c]
          BY <3>3, <3>4, <4>1
        <5> QED
          BY <3>2, <4>1, <5>1
      <4>2. CASE ~(k > best[c])
        BY <1>1, <3>2, <4>2 DEF TypeOK
      <4> QED
        BY <4>1, <4>2
    <3>6. \A d \in Clients : ConfirmedParts(d)' = ConfirmedParts(d)
      BY <3>2 DEF ConfirmedParts, clientVars
    <3> QED
      BY <3>5, <3>6
  <2> QED
    BY <2>1, <2>2, <2>3, <2>4, <2>5
<1> QED
  BY <1>3, <1>4, <1>5 DEF Next

\* The transfer implements PartDelivery: a step prints the next part, confirms a
\* printed one, or is invisible to the reader of the two counts.
THEOREM TransferImplementsDelivery == Spec => ImplementsDelivery
<1> DEFINE conf == [c \in Clients |-> ConfirmedParts(c)]
<1>1. Init => Delivery!Init
  BY PartsAssumption DEF Init, Delivery!Init, ConfirmedParts
<1>2. ASSUME IInv, IInv', [Next]_vars PROVE [Delivery!Next]_Delivery!vars
  <2>1. CASE UNCHANGED vars
    BY <2>1 DEF vars, Delivery!vars, ConfirmedParts
  <2>2. CASE UNCHANGED <<best, conf>>
    BY <2>2 DEF Delivery!vars
  <2>3. ASSUME NEW c \in Clients,
               best' = best \/ (best[c] < Parts[c] /\ best' = [best EXCEPT ![c] = @ + 1]),
               \A d \in Clients : ConfirmedParts(d)' = ConfirmedParts(d)
        PROVE  [Delivery!Next]_Delivery!vars
    <3>1. conf' = conf
      BY <2>3
    <3> QED
      BY <2>3, <3>1 DEF Delivery!Next, Delivery!PrintPart, Delivery!vars
  <2>4. ASSUME NEW c \in Clients,
               ConfirmedParts(c) < best[c], ConfirmedParts(c)' = ConfirmedParts(c) + 1,
               \A d \in Clients : d # c => ConfirmedParts(d)' = ConfirmedParts(d),
               UNCHANGED best
        PROVE  Delivery!Next
    <3>1. conf' = [conf EXCEPT ![c] = @ + 1]
      BY <2>4
    <3>2. conf[c] < best[c]
      BY <2>4
    <3> QED
      BY <2>4, <3>1, <3>2 DEF Delivery!Next, Delivery!Confirm
  <2> QED
    BY <1>2, <2>1, <2>2, <2>3, <2>4, StepEffect
<1> QED
  BY <1>1, <1>2, Invariance, PTL DEF Spec, ImplementsDelivery, Delivery!Spec

-----------------------------------------------------------------------------
(* TcpServers: the inductive invariant *)

\* The connections that wait to be accepted, each once.
QueueOK ==
  /\ \A k \in DOMAIN queue : conn[queue[k]] = "queued"
  /\ \A j, k \in DOMAIN queue : queue[j] = queue[k] => j = k

\* A connection is open when it is watched and has a slot, one only; or the server has just
\* accepted it and reads its first message.
TableOK ==
  /\ watched = {slot[i] : i \in Table} \ {None}
  /\ \A i, j \in Table : slot[i] = slot[j] /\ slot[i] # None => i = j
  /\ at = "hello" => cur \in Conns \ watched
  /\ {c \in Conns : conn[c] = "open"} = watched \cup (IF at = "hello" THEN {cur} ELSE {})

\* The events that are left are of watched connections, and not of one that is handled.
LoopOK ==
  /\ events \ {Listen} \subseteq watched
  /\ Listen \in events => queue # <<>>
  /\ at \in {"hello", "read"} => cur \notin events
  /\ at \in {"read", "relay"} => cur \in watched
  /\ at = "hello" /\ prog = "city" => Free # {}
  /\ at = "relay" => prog \in {"chat", "city"} /\ ind \in Table

\* Nothing is relayed to a connection that has no slot yet.
NewOK ==
  /\ \A c \in Conns : conn[c] \in {"away", "queued"} => heard[c] = <<>>
  /\ at = "hello" => heard[cur] = <<>>

\* The clients that the loop of relays has yet to come to.
Ahead == {i \in Table : at = "relay" /\ i >= ind /\ slot[i] # cur}

\* They lack the last message, and nobody else lacks one.
ChatOK ==
  prog = "chat" =>
    /\ at = "relay" =>
         /\ relayed # <<>> /\ relayed[Len(relayed)] = cur
         /\ \A c \in watched : since[c] < Len(relayed)
    /\ \A i \in Table \ Ahead : slot[i] # None => GotFirst(slot[i], Len(relayed))
    /\ \A i \in Ahead : slot[i] # None => GotFirst(slot[i], Len(relayed) - 1)

\* They may know a former owner.
CityOK ==
  prog = "city" =>
    /\ at = "relay" => owner \in Owners
    /\ \A i \in Table \ Ahead : slot[i] # None => heard[slot[i]] \in {<<>>, <<owner>>}

ServersInv == ServersTypeOK /\ QueueOK /\ TableOK /\ LoopOK /\ NewOK /\ ChatOK /\ CityOK

\* A slot is free: the first one is.
LEMMA FirstFreeIsFree ==
  ASSUME Free # {}
  PROVE  FirstFree \in Free
<1>1. Free \subseteq Nat
  BY ServerAssumption DEF Free, Table
<1>2. PICK i \in Free : \A j \in Free : ~(<<j, i>> \in OpToRel(<, Nat))
  BY <1>1, WFMin, NatLessThanWellFounded
<1>3. ASSUME NEW j \in Free PROVE i <= j
  <2>1. i \in Nat /\ j \in Nat
    BY <1>1
  <2>2. ~(<<j, i>> \in {p \in Nat \X Nat : p[1] < p[2]})
    BY <1>2 DEF OpToRel
  <2> QED
    BY <2>1, <2>2
<1> QED
  BY <1>2, <1>3 DEF FirstFree

\* The kinds of steps but Exit.
LEMMA StepKinds ==
  ASSUME ServersNext, ~Exit
  PROVE  \/ \E c \in Conns : Client(c)
         \/ Wait \/ Return \/ Accept \/ ClientEvent
         \/ AddressHello \/ AddressRead
         \/ ChatHello \/ ChatRead \/ ChatGone \/ ChatRelay
         \/ CityHello \/ CityRead \/ CityRelay
         \/ CalcServe
BY DEF ServersNext, Server, Interrupt, CityLocal, CityFails

\* The process ends with its sockets and its table empty.
LEMMA ExitInv ==
  ASSUME ServersInv, Exit
  PROVE  ServersInv'
<1> USE ServerAssumption DEF Conns, Table, None, Listen, Owners
<1>1. /\ ServersTypeOK /\ at' = "ended" /\ slot' = [i \in Table |-> None] /\ watched' = {} /\ events' = {}
      /\ conn' = [c \in Conns |-> "shut"] /\ queue' = <<>> /\ heard' = [c \in Conns |-> <<>>]
  BY DEF ServersInv, Exit
<1>2. ServersTypeOK'
  <2>1. NetTypeOK'
    BY DEF ServersInv, ServersTypeOK, NetTypeOK, InboxTypeOK, Exit, fixed
  <2>2. heard' \in [Conns -> IF prog' = "city" THEN Seq(Owners) ELSE Seq(Conns)]
    BY <1>1
  <2>3. since' \in [Conns -> 0..Len(relayed')]
    BY DEF Exit
  <2> QED
    BY <2>1, <2>2, <2>3 DEF ServersInv, ServersTypeOK, Exit, fixed
<1>3. QueueOK' /\ LoopOK' /\ NewOK'
  BY <1>1 DEF QueueOK, LoopOK, NewOK
<1>4. TableOK'
  BY <1>1 DEF TableOK
<1>5. ChatOK' /\ CityOK'
  BY <1>1 DEF ChatOK, CityOK, Ahead
<1> QED
  BY <1>2, <1>3, <1>4, <1>5 DEF ServersInv

\* doServer before its loop, with no client.
LEMMA ServersInitInv == ServersInit => ServersInv
<1> SUFFICES ASSUME ServersInit PROVE ServersInv
  OBVIOUS
<1> USE ServerAssumption DEF Conns, Table, None, Listen, Owners
<1>1. ServersTypeOK
  <2>1. NetTypeOK
    BY DEF ServersInit, NetInit, NetTypeOK, InboxTypeOK
  <2>2. /\ heard \in [Conns -> IF prog = "city" THEN Seq(Owners) ELSE Seq(Conns)]
        /\ since \in [Conns -> 0..Len(relayed)]
    BY DEF ServersInit
  <2>3. owner \in Owners \cup {"?"} /\ junk \in BOOLEAN
    BY DEF ServersInit
  <2>4. slot \in [Table -> Conns \cup {None}] /\ relayed \in Seq(Conns)
    BY DEF ServersInit
  <2> QED
    BY <2>1, <2>2, <2>3, <2>4 DEF ServersInit, ServersTypeOK
<1>2. QueueOK /\ LoopOK
  <2>1. queue = <<>> /\ events = {} /\ at = "wait"
    BY DEF ServersInit, NetInit
  <2>2. LoopOK
    BY <2>1 DEF LoopOK
  <2>3. QueueOK
    BY <2>1 DEF QueueOK
  <2> QED
    BY <2>2, <2>3
<1>6. NewOK
  BY DEF ServersInit, NetInit, NewOK
<1>3. TableOK
  BY DEF ServersInit, NetInit, TableOK
<1>4. ChatOK /\ CityOK
  BY DEF ServersInit, ChatOK, CityOK, Ahead
<1> QED
  BY <1>1, <1>2, <1>3, <1>4, <1>6 DEF ServersInv

\* What clients do: the types of the network.
LEMMA ClientTypes ==
  ASSUME ServersTypeOK, NEW c \in Conns, Client(c)
  PROVE  ServersTypeOK'
<1> USE ServerAssumption DEF Conns, Listen, None, Owners
<1>1. NetTypeOK /\ prog \in {"address", "chat", "city", "calc"} /\ UNCHANGED <<prog, srvVars>>
  BY DEF ServersTypeOK, Client
<1>2. \A e \in Conns \cup {Listen} : Happened(e) => edge' \subseteq Conns \cup {Listen}
  BY <1>1 DEF Happened, NetTypeOK
<1>3. ASSUME Connect(c) PROVE NetTypeOK'
  <2>1. queue' \in Seq(Conns) /\ conn' \in [Conns -> {"away", "queued", "open", "shut"}]
    BY <1>1, <1>3 DEF Connect, NetTypeOK
  <2>2. InboxTypeOK'
    BY <1>1, <1>3 DEF Connect, NetTypeOK, InboxTypeOK
  <2>3. edge' \subseteq Conns \cup {Listen} /\ UNCHANGED <<gone, inbox, sends, link>>
    BY <1>2, <1>3 DEF Connect
  <2> QED
    BY <1>1, <2>1, <2>2, <2>3 DEF NetTypeOK
<1>4. ASSUME Leave(c) PROVE NetTypeOK'
  <2>1. gone' \in [Conns -> {"no", "fin", "rst"}]
    BY <1>1, <1>4 DEF Leave, NetTypeOK
  <2>2. InboxTypeOK'
    BY <1>1, <1>4 DEF Leave, NetTypeOK, InboxTypeOK
  <2>3. edge' \subseteq Conns \cup {Listen} /\ UNCHANGED <<queue, conn, inbox, sends, link>>
    BY <1>2, <1>4 DEF Leave
  <2> QED
    BY <1>1, <2>1, <2>2, <2>3 DEF NetTypeOK
<1>5. ASSUME NEW m \in Messages(link[c] = "fresh" /\ inbox[c] = <<>>), Says(c, m)
      PROVE  NetTypeOK'
  <2>1. m \in Texts
    <3>1. Messages(TRUE) \subseteq Texts /\ Messages(FALSE) \subseteq Texts
      BY <1>1 DEF Messages, Texts
    <3>2. m \in Messages(TRUE) \/ m \in Messages(FALSE)
      <4>1. CASE link[c] = "fresh" /\ inbox[c] = <<>>
        BY <4>1
      <4>2. CASE ~(link[c] = "fresh" /\ inbox[c] = <<>>)
        BY <4>2
      <4> QED
        BY <4>1, <4>2
    <3> QED
      BY <3>1, <3>2
  <2>2. inbox[c] \in Seq(Texts) /\ Len(inbox[c]) \in Nat
    <3>1. inbox[c] \in Seq(Texts)
      BY <1>1 DEF NetTypeOK, InboxTypeOK
    <3> QED
      BY <3>1
  <2>3. sends' = sends + 1 /\ sends < MaxSends /\ sends \in 0..MaxSends
    BY <1>1, <1>5 DEF Says, NetTypeOK
  <2>4. Append(inbox[c], m) \in Seq(Texts) /\ Len(Append(inbox[c], m)) = Len(inbox[c]) + 1
    BY <2>1, <2>2
  <2>5. inbox' = [inbox EXCEPT ![c] = Append(inbox[c], m)]
    BY <1>5 DEF Says
  <2>6. InboxTypeOK'
    <3>1. inbox' \in [Conns -> Seq(Texts)]
      BY <1>1, <2>4, <2>5 DEF NetTypeOK, InboxTypeOK
    <3>2. ASSUME NEW d \in Conns PROVE Len(inbox'[d]) <= sends'
      <4>1. Len(inbox[d]) \in Nat /\ Len(inbox[d]) <= sends
        BY <1>1 DEF NetTypeOK, InboxTypeOK
      <4>2. inbox'[d] = IF d = c THEN Append(inbox[c], m) ELSE inbox[d]
        BY <1>1, <2>5 DEF NetTypeOK, InboxTypeOK
      <4> QED
        BY <2>3, <2>4, <4>1, <4>2
    <3> QED
      BY <3>1, <3>2 DEF InboxTypeOK
  <2>7. sends' \in 0..MaxSends
    BY <2>3
  <2>8. edge' \subseteq Conns \cup {Listen} /\ UNCHANGED <<queue, conn, gone, link>>
    BY <1>2, <1>5 DEF Says
  <2> QED
    BY <1>1, <2>6, <2>7, <2>8 DEF NetTypeOK
<1>6. NetTypeOK'
  BY <1>3, <1>4, <1>5 DEF Client
<1> QED
  BY <1>1, <1>6 DEF ServersTypeOK, srvVars

\* A read takes one message, if there is one.
LEMMA ConsumeType ==
  ASSUME ServersTypeOK, NEW c \in Conns, Consume(c)
  PROVE  sends' = sends => InboxTypeOK'
<1>1. NetTypeOK
  BY DEF ServersTypeOK
<1>2. inbox[c] \in Seq(Texts)
  BY <1>1 DEF NetTypeOK, InboxTypeOK
<1> DEFINE rest == IF inbox[c] = <<>> THEN inbox[c] ELSE Tail(inbox[c])
<1>3. rest \in Seq(Texts) /\ Len(rest) <= Len(inbox[c]) /\ Len(rest) \in Nat /\ Len(inbox[c]) \in Nat
  BY <1>2
<1>4. inbox' = [inbox EXCEPT ![c] = rest]
  BY DEF Consume
<1> HIDE DEF rest
<1>5. inbox' \in [Conns -> Seq(Texts)]
  BY <1>1, <1>3, <1>4 DEF NetTypeOK, InboxTypeOK
<1>6. ASSUME NEW d \in Conns PROVE Len(inbox'[d]) <= sends
  <2>1. inbox'[d] = IF d = c THEN rest ELSE inbox[d]
    BY <1>1, <1>4 DEF NetTypeOK, InboxTypeOK
  <2>2. Len(inbox[d]) <= sends /\ Len(inbox[d]) \in Nat /\ Len(inbox[c]) <= sends /\ sends \in Nat
    BY <1>1 DEF NetTypeOK, InboxTypeOK
  <2> QED
    BY <1>3, <2>1, <2>2
<1> QED
  BY <1>5, <1>6 DEF InboxTypeOK

\* What a write does to a link.
LEMMA WrittenType ==
  ASSUME ServersTypeOK, NEW c \in Conns, Written(c)
  PROVE  link' \in [Conns -> {"fresh", "written", "reset"}]
BY DEF ServersTypeOK, NetTypeOK, Written

\* A free slot is taken by the connection that the server handles.
LEMMA TakeSlotType ==
  ASSUME ServersTypeOK, NEW i \in Table, cur \in Conns, TakeSlot(i)
  PROVE  /\ slot' \in [Table -> Conns \cup {None}] /\ watched' \subseteq Conns
         /\ edge' \subseteq Conns \cup {Listen}
<1>1. slot' \in [Table -> Conns \cup {None}] /\ watched' \subseteq Conns
  BY DEF ServersTypeOK, TakeSlot
<1>2. edge \subseteq Conns \cup {Listen}
  BY DEF ServersTypeOK, NetTypeOK
<1> QED
  BY <1>1, <1>2 DEF TakeSlot

\* What the server handles is a connection.
LEMMA CurIsConn ==
  ASSUME ServersInv, at \in {"hello", "read", "relay"}
  PROVE  cur \in Conns
BY DEF ServersInv, TableOK, LoopOK, ServersTypeOK

\* The loop over the events, and accept: what is left alone keeps its type.
LEMMA LoopTypes ==
  ASSUME ServersInv, Wait \/ Return \/ Accept \/ ClientEvent
  PROVE  ServersTypeOK'
<1> USE ServerAssumption DEF Conns, Listen, None
<1>1. ServersTypeOK /\ NetTypeOK /\ InboxTypeOK
  BY DEF ServersInv, ServersTypeOK, NetTypeOK
<1>2. UNCHANGED <<prog, gone, sends, junk, inbox, link, slot, watched, relayed, since, heard, owner>>
  BY DEF Wait, Return, Accept, ClientEvent, Goes, fixed, tables
<1>3. InboxTypeOK'
  BY <1>1, <1>2 DEF InboxTypeOK
<1>4. /\ queue' \in Seq(Conns) /\ conn' \in [Conns -> {"away", "queued", "open", "shut"}]
      /\ cur' \in Conns \cup {None}
  <2>1. CASE Accept
    <3>1. queue # <<>> /\ queue \in Seq(Conns)
      BY <1>1, <2>1 DEF ServersInv, LoopOK, NetTypeOK, Accept
    <3>2. Head(queue) \in Conns /\ Tail(queue) \in Seq(Conns)
      BY <3>1
    <3> QED
      BY <1>1, <2>1, <3>2 DEF NetTypeOK, Accept
  <2>2. CASE Wait \/ Return \/ ClientEvent
    BY <1>1, <2>2 DEF ServersTypeOK, NetTypeOK, Wait, Return, ClientEvent
  <2> QED
    BY <2>1, <2>2
<1>5. events' \subseteq Conns \cup {Listen} /\ edge' \subseteq Conns \cup {Listen}
  BY <1>1 DEF ServersTypeOK, NetTypeOK, Wait, Return, Accept, ClientEvent, Ready
<1>6. at' \in {"wait", "handle", "hello", "read"} /\ ind' \in 0..MaxClients
  BY <1>1 DEF ServersTypeOK, Wait, Return, Accept, ClientEvent, Goes
<1>7. NetTypeOK'
  BY <1>1, <1>2, <1>3, <1>4, <1>5 DEF NetTypeOK
<1> QED
  BY <1>1, <1>2, <1>4, <1>5, <1>6, <1>7 DEF ServersTypeOK

\* A loop of relays starts at the first slot and stays in the table.
LEMMA NextSlotType ==
  ASSUME ServersInv, NextSlot
  PROVE  ind' \in 0..MaxClients /\ at' \in {"relay", "handle"}
BY ServerAssumption DEF ServersInv, ServersTypeOK, LoopOK, NextSlot, Goes, Table

\* l4a.c: addresses are taken, texts go back.
LEMMA AddressTypes ==
  ASSUME ServersInv, AddressHello \/ AddressRead, ~Exit
  PROVE  ServersTypeOK'
<1>1. ServersTypeOK /\ NetTypeOK /\ InboxTypeOK /\ cur \in Conns
  BY CurIsConn DEF ServersInv, ServersTypeOK, NetTypeOK, AddressHello, AddressRead
<1>2. UNCHANGED <<prog, gone, sends, junk, queue, conn, events, cur, ind, relayed, since, heard, owner>>
  BY DEF AddressHello, AddressRead, Goes, fixed, tables
<1>3. /\ slot' \in [Table -> Conns \cup {None}] /\ watched' \subseteq Conns
      /\ edge' \subseteq Conns \cup {Listen}
  BY <1>1, TakeSlotType DEF AddressHello, AddressRead, Free, tables, ServersTypeOK, NetTypeOK
<1>4. InboxTypeOK'
  <2>1. CASE AddressHello
    BY <1>1, <1>2, <2>1, ConsumeType DEF AddressHello
  <2>2. CASE AddressRead /\ UNCHANGED inbox
    BY <1>1, <1>2, <2>2 DEF InboxTypeOK
  <2>3. ASSUME AddressRead, inbox[cur] # <<>>, NEW left \in {<<>>, <<"rest">>},
               inbox' = [inbox EXCEPT ![cur] = left]
        PROVE  InboxTypeOK'
    <3>1. inbox[cur] \in Seq(Texts) /\ inbox[cur] # <<>> /\ Len(inbox[cur]) <= sends /\ sends \in Nat
      BY <1>1, <2>3, ServerAssumption DEF NetTypeOK, InboxTypeOK
    <3>2. 1 <= sends
      <4>1. Len(inbox[cur]) \in Nat /\ Len(inbox[cur]) # 0
        BY ONLY <3>1, EmptySeq
      <4> QED
        BY <3>1, <4>1
    <3>3. left \in Seq(Texts) /\ Len(left) <= sends
      <4>1. CASE left = <<>>
        BY ONLY <3>1, <4>1, EmptySeq
      <4>2. CASE left = <<"rest">>
        <5>1. "rest" \in Texts
          BY DEF Texts
        <5> QED
          BY ONLY <3>1, <3>2, <4>2, <5>1
      <4> QED
        BY <4>1, <4>2
    <3> QED
      BY <1>1, <1>2, <2>3, <3>3 DEF InboxTypeOK
  <2>4. CASE AddressRead
    <3>1. UNCHANGED inbox \/ \E left \in {<<>>, <<"rest">>} : inbox[cur] # <<>> /\ inbox' = [inbox EXCEPT ![cur] = left]
      BY <2>4 DEF AddressRead
    <3> QED
      BY <2>2, <2>3, <2>4, <3>1
  <2> QED
    BY <2>1, <2>4
<1>5. link' \in [Conns -> {"fresh", "written", "reset"}]
  BY <1>1, WrittenType DEF AddressHello, AddressRead, NetTypeOK
<1>6. at' = "handle"
  BY DEF AddressHello, AddressRead, Goes
<1>7. NetTypeOK'
  BY <1>1, <1>2, <1>3, <1>4, <1>5 DEF NetTypeOK
<1> QED
  BY <1>1, <1>2, <1>3, <1>6, <1>7 DEF ServersTypeOK

\* sop-chat (1).c: keys are read and messages relayed.
LEMMA ChatTypes ==
  ASSUME ServersInv, ChatHello \/ ChatRead \/ ChatGone \/ ChatRelay, ~Exit
  PROVE  ServersTypeOK'
<1>1. /\ ServersTypeOK /\ NetTypeOK /\ InboxTypeOK /\ cur \in Conns /\ prog = "chat"
      /\ relayed \in Seq(Conns) /\ Len(relayed) \in Nat
  BY CurIsConn DEF ServersInv, ServersTypeOK, NetTypeOK, ChatHello, ChatRead, ChatGone, ChatRelay
<1>2. UNCHANGED <<prog, gone, sends, junk, queue, events, cur, owner>>
  BY DEF ChatHello, ChatRead, ChatGone, ChatRelay, NextSlot, Goes, fixed, tables
<1>3. /\ slot' \in [Table -> Conns \cup {None}] /\ watched' \subseteq Conns
      /\ edge' \subseteq Conns \cup {Listen}
  <2>1. CASE ChatHello
    BY <1>1, <2>1, TakeSlotType, FirstFreeIsFree DEF ChatHello, Free, ServersTypeOK, NetTypeOK
  <2>2. CASE ChatGone
    BY <1>1, <2>2 DEF ChatGone, ServersTypeOK, NetTypeOK
  <2>3. CASE ChatRead \/ ChatRelay
    BY <1>1, <2>3 DEF ChatRead, ChatRelay, tables, ServersTypeOK, NetTypeOK
  <2> QED
    BY <2>1, <2>2, <2>3
<1>4. InboxTypeOK'
  <2>1. CASE Consume(cur)
    BY <1>1, <1>2, <2>1, ConsumeType
  <2>2. CASE UNCHANGED inbox
    BY <1>1, <1>2, <2>2 DEF InboxTypeOK
  <2> QED
    BY <2>1, <2>2 DEF ChatHello, ChatRead, ChatGone, ChatRelay
<1>5. link' \in [Conns -> {"fresh", "written", "reset"}]
  <2>1. slot[ind] \in Conns \/ ~ChatRelay \/ slot[ind] = None
    BY <1>1 DEF ServersInv, LoopOK, ServersTypeOK, ChatRelay
  <2> QED
    BY <1>1, <2>1, WrittenType DEF ChatHello, ChatRead, ChatGone, ChatRelay, NetTypeOK
<1>6. conn' \in [Conns -> {"away", "queued", "open", "shut"}]
  BY <1>1 DEF ChatHello, ChatRead, ChatGone, ChatRelay, CloseIt, NetTypeOK
<1>7. /\ relayed' \in Seq(Conns) /\ since' \in [Conns -> 0..Len(relayed')]
      /\ ind' \in 0..MaxClients /\ at' \in {"handle", "relay"}
  <2>1. CASE ChatRead
    <3>1. relayed' = Append(relayed, cur) /\ UNCHANGED since /\ ind' = 1 /\ at' = "relay"
      BY <2>1 DEF ChatRead, Goes
    <3>2. Append(relayed, cur) \in Seq(Conns) /\ Len(Append(relayed, cur)) = Len(relayed) + 1
      BY <1>1
    <3>3. 1 \in 0..MaxClients
      BY ServerAssumption
    <3>4. since \in [Conns -> 0..Len(relayed)]
      BY <1>1 DEF ServersTypeOK
    <3> QED
      BY <1>1, <3>1, <3>2, <3>3, <3>4
  <2>2. CASE ChatHello
    BY <1>1, <2>2 DEF ChatHello, ServersTypeOK, Goes
  <2>3. CASE ChatGone
    BY <1>1, <2>3 DEF ChatGone, ServersTypeOK, Goes
  <2>4. CASE ChatRelay
    BY <1>1, <2>4, NextSlotType DEF ChatRelay, ServersTypeOK, tables
  <2> QED
    BY <2>1, <2>2, <2>3, <2>4
<1>8. heard' \in [Conns -> Seq(Conns)]
  <2>1. heard \in [Conns -> Seq(Conns)]
    BY <1>1 DEF ServersTypeOK
  <2>2. ASSUME NEW c \in Conns PROVE [heard EXCEPT ![c] = Append(@, cur)] \in [Conns -> Seq(Conns)]
    <3>1. Append(heard[c], cur) \in Seq(Conns)
      BY <1>1, <2>1
    <3> QED
      BY <2>1, <3>1
  <2>3. ChatRelay => slot[ind] \in Conns \cup {None}
    BY <1>1 DEF ServersInv, LoopOK, ServersTypeOK, ChatRelay
  <2> QED
    BY <2>1, <2>2, <2>3 DEF ChatHello, ChatRead, ChatGone, ChatRelay, tables
<1>9. NetTypeOK'
  BY <1>1, <1>2, <1>3, <1>4, <1>5, <1>6 DEF NetTypeOK
<1> QED
  BY <1>1, <1>2, <1>3, <1>7, <1>8, <1>9 DEF ServersTypeOK

\* The owners that clients are told are owners.
LEMMA ToldType ==
  ASSUME heard \in [Conns -> Seq(Owners)], NEW c \in Conns, NEW m, Told(c, m)
  PROVE  heard' \in [Conns -> Seq(Owners)]
<1>1. heard[c] \in Seq(Owners) /\ (m \in Owners => <<m>> \in Seq(Owners))
  OBVIOUS
<1>2. CASE m \in Owners
  BY <1>1, <1>2 DEF Told
<1>3. CASE m \notin Owners
  BY <1>1, <1>3 DEF Told
<1> QED
  BY <1>2, <1>3

\* A report starts the loop of relays, or is no news.
LEMMA ReportType ==
  ASSUME ServersTypeOK, NEW from, NEW m, Report(from, m)
  PROVE  /\ owner' \in Owners \cup {"?"} /\ ind' \in 0..MaxClients /\ at' \in {"handle", "relay"}
         /\ UNCHANGED fixed
BY ServerAssumption DEF ServersTypeOK, Report, Goes

\* A connection that is to get a slot of the cities finds one.
LEMMA CityHelloSlot ==
  ASSUME ServersInv, CityHello
  PROVE  FirstFree \in Table /\ FirstFree \in Free /\ TakeSlot(FirstFree)
BY FirstFreeIsFree DEF CityHello, ServersInv, LoopOK, Free

\* anotherone.c: reports are read and told.
LEMMA CityTypes ==
  ASSUME ServersInv, CityHello \/ CityRead \/ CityRelay, ~Exit
  PROVE  ServersTypeOK'
<1>1. ServersTypeOK /\ NetTypeOK /\ InboxTypeOK /\ cur \in Conns /\ prog = "city"
  BY CurIsConn DEF ServersInv, ServersTypeOK, NetTypeOK, CityHello, CityRead, CityRelay
<1>2. UNCHANGED <<queue, conn, events, cur, relayed, since>>
  BY DEF CityHello, CityRead, CityRelay, tables
<1>3. /\ slot' \in [Table -> Conns \cup {None}] /\ watched' \subseteq Conns
      /\ edge' \subseteq Conns \cup {Listen}
  <2>1. CASE CityHello
    BY <1>1, <2>1, CityHelloSlot, TakeSlotType
  <2>2. CASE CityRead \/ CityRelay
    BY <1>1, <2>2 DEF CityRead, CityRelay, tables, ServersTypeOK, NetTypeOK
  <2> QED
    BY <2>1, <2>2
<1>4. /\ owner' \in Owners \cup {"?"} /\ ind' \in 0..MaxClients /\ at' \in {"handle", "relay"}
      /\ UNCHANGED fixed
  <2>1. CASE CityHello
    BY <1>1, <2>1, ReportType DEF CityHello
  <2>2. CASE CityRead
    BY <1>1, <2>2, ReportType DEF CityRead, Goes, ServersTypeOK
  <2>3. CASE CityRelay
    BY <1>1, <2>3, NextSlotType DEF CityRelay, NextSlot, Goes, tables, ServersTypeOK
  <2> QED
    BY <2>1, <2>2, <2>3
<1>5. InboxTypeOK'
  <2>1. CASE Consume(cur)
    BY <1>1, <1>4, <2>1, ConsumeType DEF fixed
  <2>2. CASE UNCHANGED inbox
    BY <1>1, <1>4, <2>2 DEF InboxTypeOK, fixed
  <2> QED
    BY <2>1, <2>2 DEF CityHello, CityRead, CityRelay
<1>6. CityRelay => slot[ind] \in Conns \cup {None}
  BY <1>1 DEF ServersInv, LoopOK, ServersTypeOK, CityRelay
<1>7. link' \in [Conns -> {"fresh", "written", "reset"}]
  <2>1. CASE UNCHANGED link
    BY <1>1, <2>1 DEF NetTypeOK
  <2>2. CASE ~UNCHANGED link
    BY <1>1, <1>6, <2>2, WrittenType DEF CityHello, CityRead, CityRelay
  <2> QED
    BY <2>1, <2>2
<1>8. heard' \in [Conns -> Seq(Owners)]
  <2>1. heard \in [Conns -> Seq(Owners)]
    BY <1>1 DEF ServersTypeOK
  <2>2. UNCHANGED heard \/ \E c \in Conns : \E m : Told(c, m)
    BY <1>1, <1>6 DEF CityHello, CityRead, CityRelay, tables
  <2> QED
    BY <2>1, <2>2, ToldType
<1>9. NetTypeOK'
  BY <1>1, <1>2, <1>3, <1>4, <1>5, <1>7 DEF NetTypeOK, fixed
<1> QED
  BY <1>1, <1>2, <1>3, <1>4, <1>8, <1>9 DEF ServersTypeOK, fixed

\* 1_server.c: a request is answered, and its connection closed.
LEMMA CalcTypes ==
  ASSUME ServersInv, CalcServe
  PROVE  ServersTypeOK'
<1>1. ServersTypeOK /\ NetTypeOK /\ InboxTypeOK /\ cur \in Conns
  BY CurIsConn DEF ServersInv, ServersTypeOK, NetTypeOK, CalcServe
<1>2. /\ UNCHANGED <<prog, gone, sends, junk, queue, edge, events, cur, ind, slot, watched, relayed, since, heard, owner>>
      /\ at' = "handle"
  BY DEF CalcServe, Goes, fixed, tables
<1>3. InboxTypeOK'
  BY <1>1, <1>2, ConsumeType DEF CalcServe
<1>4. link' \in [Conns -> {"fresh", "written", "reset"}]
  BY <1>1, WrittenType DEF CalcServe, NetTypeOK
<1>5. conn' \in [Conns -> {"away", "queued", "open", "shut"}]
  BY <1>1 DEF CalcServe, CloseIt, NetTypeOK
<1>6. NetTypeOK'
  BY <1>1, <1>2, <1>3, <1>4, <1>5 DEF NetTypeOK
<1> QED
  BY <1>1, <1>2, <1>6 DEF ServersTypeOK

\* Every step keeps the types.
LEMMA ServersTypes ==
  ASSUME ServersInv, ServersNext
  PROVE  ServersTypeOK'
<1>1. CASE Exit
  BY <1>1, ExitInv DEF ServersInv
<1>2. CASE ~Exit
  BY <1>2, StepKinds, ClientTypes, LoopTypes, AddressTypes, ChatTypes, CityTypes, CalcTypes DEF ServersInv
<1> QED
  BY <1>1, <1>2

-----------------------------------------------------------------------------
(* The queue and the table *)

\* The connection that is handled is open.
LEMMA CurIsOpen ==
  ASSUME ServersInv, at \in {"hello", "read", "relay"}
  PROVE  cur \in Conns /\ conn[cur] = "open"
BY CurIsConn DEF ServersInv, TableOK, LoopOK

\* What a server does but for accept: it leaves the queue alone and closes what it handles.
LEMMA ConnChanges ==
  ASSUME ServersInv, ServersNext, ~Exit, ~Accept, ~(\E c \in Conns : Client(c))
  PROVE  /\ queue' = queue
         /\ \/ UNCHANGED conn
            \/ ChatHello /\ CloseIt /\ UNCHANGED <<slot, watched>>
            \/ ChatGone /\ CloseIt
            \/ CalcServe
<1> USE DEF tables
<1>1. CASE Wait \/ Return \/ ClientEvent
  BY <1>1 DEF Wait, Return, ClientEvent
<1>2. CASE AddressHello \/ AddressRead
  BY <1>2 DEF AddressHello, AddressRead
<1>3. CASE ChatHello \/ ChatRead \/ ChatGone \/ ChatRelay
  BY <1>3 DEF ChatHello, ChatRead, ChatGone, ChatRelay
<1>4. CASE CityHello \/ CityRead \/ CityRelay
  BY <1>4 DEF CityHello, CityRead, CityRelay
<1>5. CASE CalcServe
  BY <1>5 DEF CalcServe
<1> QED
  BY <1>1, <1>2, <1>3, <1>4, <1>5, StepKinds

\* Who connects enters the queue once, and accept takes the first.
LEMMA QueueStep ==
  ASSUME ServersInv, ServersNext
  PROVE  QueueOK'
<1>1. /\ QueueOK /\ queue \in Seq(Conns)
      /\ conn \in [Conns -> {"away", "queued", "open", "shut"}]
  BY DEF ServersInv, ServersTypeOK, NetTypeOK
<1>2. CASE Exit
  BY <1>2, ExitInv DEF ServersInv
<1>3. ASSUME NEW c \in Conns, Connect(c) PROVE QueueOK'
  <2>1. /\ queue' = Append(queue, c) /\ conn[c] = "away" /\ conn' = [conn EXCEPT ![c] = "queued"]
    BY <1>3 DEF Connect
  <2>2. /\ DOMAIN queue' = 1..Len(queue) + 1 /\ DOMAIN queue = 1..Len(queue) /\ Len(queue) \in Nat
        /\ \A k \in 1..Len(queue) : queue'[k] = queue[k] /\ queue[k] \in Conns
        /\ queue'[Len(queue) + 1] = c
    BY <1>1, <2>1
  <2>3. \A k \in 1..Len(queue) : queue'[k] # c /\ conn[queue[k]] = "queued"
    BY <1>1, <2>1, <2>2 DEF QueueOK
  <2>4. \A k \in DOMAIN queue' : k \in 1..Len(queue) \/ k = Len(queue) + 1
    BY <2>2
  <2>5. \A k \in DOMAIN queue' : conn'[queue'[k]] = "queued"
    BY <1>1, <2>1, <2>2, <2>3, <2>4
  <2>6. \A j, k \in DOMAIN queue' : queue'[j] = queue'[k] => j = k
    BY <1>1, <2>2, <2>3, <2>4 DEF QueueOK
  <2> QED
    BY <2>5, <2>6 DEF QueueOK
<1>4. CASE Accept
  <2>1. queue # <<>> /\ queue' = Tail(queue) /\ cur' = Head(queue)
    BY <1>4 DEF ServersInv, LoopOK, Accept
  <2>2. \E s \in {"shut", "open"} : conn' = [conn EXCEPT ![cur'] = s]
    BY <1>4 DEF Accept
  <2>3. /\ Len(queue) \in Nat \ {0} /\ DOMAIN queue = 1..Len(queue) /\ DOMAIN queue' = 1..Len(queue) - 1
        /\ \A k \in 1..Len(queue) - 1 : queue'[k] = queue[k + 1] /\ k + 1 \in 1..Len(queue)
        /\ cur' = queue[1] /\ 1 \in DOMAIN queue
    BY <1>1, <2>1
  <2>4. \A k \in 1..Len(queue) - 1 : queue[k + 1] # cur' /\ queue[k + 1] \in Conns
    BY <1>1, <2>3 DEF QueueOK
  <2>5. \A k \in DOMAIN queue' : conn'[queue'[k]] = "queued"
    BY <1>1, <2>2, <2>3, <2>4 DEF QueueOK
  <2>6. \A j, k \in DOMAIN queue' : queue'[j] = queue'[k] => j = k
    BY <1>1, <2>3 DEF QueueOK
  <2> QED
    BY <2>5, <2>6 DEF QueueOK
<1>5. ASSUME NEW c \in Conns, Client(c), ~Connect(c) PROVE QueueOK'
  BY <1>1, <1>5 DEF Client, Leave, Says, QueueOK
<1>6. CASE ~Exit /\ ~Accept /\ ~(\E c \in Conns : Client(c))
  <2>1. queue' = queue
    BY <1>6, ConnChanges
  <2>2. UNCHANGED conn \/ (conn[cur] = "open" /\ conn' = [conn EXCEPT ![cur] = "shut"])
    BY <1>6, ConnChanges, CurIsOpen DEF ChatHello, ChatGone, CalcServe, CloseIt, Goes
  <2>3. \A k \in DOMAIN queue : queue[k] \in Conns
    BY <1>1
  <2> QED
    BY <1>1, <2>1, <2>2, <2>3 DEF QueueOK
<1> QED
  BY <1>2, <1>3, <1>4, <1>5, <1>6

\* A slot that was free is taken by the connection that has just been accepted.
LEMMA TakeSlotTable ==
  ASSUME ServersInv, at = "hello", NEW i \in Free, TakeSlot(i), UNCHANGED conn, at' \in {"handle", "relay"}
  PROVE  TableOK'
<1>1. /\ TableOK /\ slot \in [Table -> Conns \cup {None}] /\ i \in Table /\ slot[i] = None
      /\ cur \in Conns \ watched /\ cur # None
  BY ServerAssumption DEF ServersInv, ServersTypeOK, TableOK, Free, Conns, None
<1>2. /\ \A j \in Table : slot'[j] = IF j = i THEN cur ELSE slot[j]
      /\ watched' = watched \cup {cur}
  BY <1>1 DEF TakeSlot
<1>3. \A j \in Table : slot[j] # cur
  BY <1>1 DEF TableOK
<1>4. watched' = {slot'[j] : j \in Table} \ {None}
  BY <1>1, <1>2 DEF TableOK
<1>5. \A j, k \in Table : slot'[j] = slot'[k] /\ slot'[j] # None => j = k
  BY <1>1, <1>2, <1>3 DEF TableOK
<1>6. {c \in Conns : conn'[c] = "open"} = watched'
  BY <1>1, <1>2 DEF TableOK
<1> QED
  BY <1>4, <1>5, <1>6 DEF TableOK

\* Connections are opened, given a slot, and closed with their slot freed.
LEMMA TableStep ==
  ASSUME ServersInv, ServersNext
  PROVE  TableOK'
<1> USE ServerAssumption DEF None
<1>1. /\ TableOK /\ QueueOK /\ queue \in Seq(Conns) /\ slot \in [Table -> Conns \cup {None}] /\ watched \subseteq Conns
      /\ conn \in [Conns -> {"away", "queued", "open", "shut"}] /\ None \notin Conns
  BY DEF ServersInv, ServersTypeOK, NetTypeOK, Conns
<1>2. CASE Exit
  BY <1>2, ExitInv DEF ServersInv
<1>3. ASSUME NEW c \in Conns, Client(c) PROVE TableOK'
  <2>1. UNCHANGED <<at, cur, slot, watched>>
    BY <1>3 DEF Client, srvVars
  <2>2. {d \in Conns : conn'[d] = "open"} = {d \in Conns : conn[d] = "open"}
    BY <1>1, <1>3 DEF Client, Connect, Leave, Says
  <2> QED
    BY <1>1, <2>1, <2>2 DEF TableOK
<1>4. CASE Accept
  <2>1. queue # <<>> /\ cur' = Head(queue) /\ UNCHANGED <<slot, watched>> /\ at = "handle"
    BY <1>4 DEF ServersInv, LoopOK, Accept, tables, Goes
  <2>2. cur' \in Conns /\ conn[cur'] = "queued"
    <3>1. 1 \in DOMAIN queue /\ cur' = queue[1] /\ queue[1] \in Conns
      BY <1>1, <2>1
    <3> QED
      BY <1>1, <3>1 DEF QueueOK
  <2>3. \/ at' = "hello" /\ conn' = [conn EXCEPT ![cur'] = "open"]
        \/ at' = "handle" /\ conn' = [conn EXCEPT ![cur'] = "shut"]
    BY <1>4 DEF Accept, Goes
  <2> QED
    BY <1>1, <2>1, <2>2, <2>3 DEF TableOK
<1>5. CASE UNCHANGED <<conn, slot, watched>> /\ at # "hello" /\ at' # "hello"
  BY <1>1, <1>5 DEF TableOK
<1>6. CASE Wait \/ Return \/ ClientEvent \/ AddressRead \/ ChatRead \/ ChatRelay \/ CityRead \/ CityRelay
  <2>1. CASE Exit
    BY <1>2, <2>1
  <2>2. CASE ~Exit
    BY <1>5, <1>6, <2>2 DEF Wait, Return, ClientEvent, AddressRead, ChatRead, ChatRelay, CityRead, CityRelay, tables, Goes, NextSlot, Report
  <2> QED
    BY <2>1, <2>2
<1>7. CASE AddressHello
  BY <1>2, <1>7, TakeSlotTable DEF AddressHello, Goes
<1>8. CASE ChatHello
  <2>1. at = "hello" /\ at' = "handle"
    BY <1>8 DEF ChatHello, Goes
  <2>2. CASE Free # {} /\ TakeSlot(FirstFree) /\ UNCHANGED conn
    BY <2>1, <2>2, FirstFreeIsFree, TakeSlotTable
  <2>3. CASE CloseIt /\ UNCHANGED <<slot, watched>>
    BY <1>1, <2>1, <2>3 DEF CloseIt, TableOK
  <2> QED
    BY <1>8, <2>2, <2>3 DEF ChatHello
<1>9. CASE ChatGone
  <2>1. CASE Exit
    BY <1>2, <2>1
  <2>2. CASE ~Exit
    <3>1. /\ at = "read" /\ at' = "handle" /\ CloseIt /\ watched' = watched \ {cur}
          /\ slot' = [i \in Table |-> IF slot[i] = cur THEN None ELSE slot[i]] /\ cur \in watched
      BY <1>9, <2>2 DEF ChatGone, Goes, ServersInv, LoopOK
    <3>2. watched' = {slot'[i] : i \in Table} \ {None}
      BY <1>1, <3>1 DEF TableOK
    <3>3. \A i, j \in Table : slot'[i] = slot'[j] /\ slot'[i] # None => i = j
      BY <1>1, <3>1 DEF TableOK
    <3>4. {c \in Conns : conn'[c] = "open"} = watched'
      BY <1>1, <3>1 DEF TableOK, CloseIt
    <3> QED
      BY <3>1, <3>2, <3>3, <3>4 DEF TableOK
  <2> QED
    BY <2>1, <2>2
<1>10. CASE CityHello
  <2>1. at = "hello" /\ at' \in {"handle", "relay"} /\ UNCHANGED conn
    BY <1>10 DEF CityHello, Report, Goes
  <2> QED
    BY <1>10, <2>1, CityHelloSlot, TakeSlotTable
<1>11. CASE CalcServe
  BY <1>1, <1>11 DEF CalcServe, CloseIt, TableOK, Goes, tables
<1> QED
  BY <1>2, <1>3, <1>4, <1>6, <1>7, <1>8, <1>9, <1>10, <1>11, StepKinds

-----------------------------------------------------------------------------
(* The loop *)

\* What wait and the choice of the next event leave in the list of events.
LEMMA EventsStep ==
  ASSUME ServersInv, Wait \/ Return \/ Accept \/ ClientEvent
  PROVE  LoopOK'
<1> USE ServerAssumption DEF None, Listen
<1>1. /\ LoopOK /\ TableOK /\ QueueOK /\ queue \in Seq(Conns) /\ Listen \notin Conns /\ watched \subseteq Conns
  BY DEF ServersInv, ServersTypeOK, NetTypeOK, Conns
<1>2. UNCHANGED <<prog, slot, watched>>
  BY DEF Wait, Return, Accept, ClientEvent, Goes, fixed, tables
<1>3. CASE Wait
  <2>1. events' \subseteq watched \cup {Listen} /\ (Listen \in events' => queue # <<>>)
    BY <1>1, <1>3 DEF Wait, Ready
  <2>2. queue' = queue /\ at' = "handle"
    BY <1>3 DEF Wait, Goes
  <2> QED
    BY <1>2, <2>1, <2>2 DEF LoopOK
<1>4. CASE Return
  BY <1>1, <1>2, <1>4 DEF Return, Goes, LoopOK
<1>5. CASE Accept
  <2>1. events' = events \ {Listen} /\ at' \in {"handle", "hello"} /\ cur' = Head(queue) /\ queue # <<>>
    BY <1>1, <1>5 DEF Accept, Goes, LoopOK
  <2>2. cur' \notin watched
    <3>1. 1 \in DOMAIN queue /\ cur' = queue[1] /\ queue[1] \in Conns
      BY <1>1, <2>1
    <3>2. conn[cur'] # "open"
      BY <1>1, <3>1 DEF QueueOK
    <3> QED
      BY <1>1, <3>1, <3>2 DEF TableOK
  <2>3. at' = "hello" /\ prog = "city" => Free # {}
    BY <1>5 DEF Accept, Goes, Free
  <2>4. Free' = Free
    BY <1>2 DEF Free
  <2> QED
    BY <1>1, <1>2, <2>1, <2>2, <2>3, <2>4 DEF LoopOK
<1>6. CASE ClientEvent
  <2>1. /\ cur' \in events \ {Listen} /\ events' = events \ {cur'} /\ at' = "read" /\ queue' = queue
    BY <1>6 DEF ClientEvent, Goes
  <2> QED
    BY <1>1, <1>2, <2>1 DEF LoopOK
<1> QED
  BY <1>3, <1>4, <1>5, <1>6

\* The events that are left are not touched by the handler of one.
LEMMA LoopStep ==
  ASSUME ServersInv, ServersNext
  PROVE  LoopOK'
<1> USE ServerAssumption DEF None, Listen, tables, fixed
<1>1. /\ LoopOK /\ TableOK /\ queue \in Seq(Conns) /\ Listen \notin Conns /\ watched \subseteq Conns
      /\ ind \in 0..MaxClients
  BY DEF ServersInv, ServersTypeOK, NetTypeOK, Conns
<1>2. CASE Exit
  BY <1>2, ExitInv DEF ServersInv
<1>3. ASSUME NEW c \in Conns, Client(c) PROVE LoopOK'
  <2>1. UNCHANGED <<prog, at, events, cur, slot, watched, ind>>
    BY <1>3 DEF Client, srvVars
  <2>2. queue # <<>> => queue' # <<>>
    <3>1. Append(queue, c) # <<>>
      BY <1>1
    <3> QED
      BY <1>3, <3>1 DEF Client, Connect, Leave, Says
  <2> QED
    BY <1>1, <2>1, <2>2 DEF LoopOK, Free
<1>4. CASE Wait \/ Return \/ Accept \/ ClientEvent
  BY <1>4, EventsStep
<1>5. ASSUME UNCHANGED <<events, queue, cur>>, at' = "handle", watched \subseteq watched'
      PROVE  LoopOK'
  BY <1>1, <1>5 DEF LoopOK
<1>6. ASSUME UNCHANGED <<prog, events, queue, cur>>, at' = "relay", watched \subseteq watched', cur \in watched',
             prog \in {"chat", "city"}, ind' \in Table
      PROVE  LoopOK'
  BY <1>1, <1>6 DEF LoopOK
<1>7. NextSlot /\ at = "relay" => at' = "handle" \/ (at' = "relay" /\ ind' \in Table)
  BY <1>1 DEF NextSlot, Goes, LoopOK, Table
<1>8. 1 \in Table
  BY DEF Table
<1>9. CASE (AddressHello \/ AddressRead) /\ ~Exit
  BY <1>5, <1>9 DEF AddressHello, AddressRead, Goes, TakeSlot
<1>10. CASE ChatHello
  BY <1>5, <1>10 DEF ChatHello, Goes, TakeSlot
<1>11. CASE ChatRead /\ ~Exit
  BY <1>1, <1>6, <1>8, <1>11 DEF ChatRead, Goes, LoopOK
<1>12. CASE ChatGone /\ ~Exit
  <2>1. /\ UNCHANGED <<events, queue>> /\ at = "read" /\ at' = "handle" /\ watched' = watched \ {cur}
    BY <1>12 DEF ChatGone, Goes
  <2> QED
    BY <1>1, <2>1 DEF LoopOK
<1>13. CASE (ChatRelay \/ CityRelay) /\ ~Exit
  <2>1. NextSlot /\ at = "relay" /\ UNCHANGED <<events, queue, cur, watched>> /\ prog \in {"chat", "city"}
    BY <1>13 DEF ChatRelay, CityRelay
  <2>2. prog' = prog /\ cur \in watched
    BY <1>1, <2>1 DEF NextSlot, Goes, LoopOK
  <2> QED
    BY <1>5, <1>6, <1>7, <2>1, <2>2
<1>14. CASE CityHello \/ CityRead
  <2>1. /\ UNCHANGED <<events, queue, cur>> /\ watched \subseteq watched' /\ cur \in watched' /\ prog = "city"
    BY <1>1, <1>14 DEF CityHello, CityRead, TakeSlot, LoopOK
  <2>2. at' = "handle" \/ (at' = "relay" /\ ind' = 1 /\ prog' = prog)
    BY <1>14 DEF CityHello, CityRead, Report, Goes
  <2> QED
    BY <1>5, <1>6, <1>8, <2>1, <2>2
<1>15. CASE CalcServe
  BY <1>5, <1>15 DEF CalcServe, Goes
<1> QED
  BY <1>2, <1>3, <1>4, <1>9, <1>10, <1>11, <1>12, <1>13, <1>14, <1>15, StepKinds

\* A relay goes to connections that have a slot, which were not handed out before.
LEMMA NewStep ==
  ASSUME ServersInv, ServersNext
  PROVE  NewOK'
<1> USE ServerAssumption DEF None, tables
<1>1. /\ NewOK /\ TableOK /\ QueueOK /\ queue \in Seq(Conns) /\ slot \in [Table -> Conns \cup {None}]
      /\ conn \in [Conns -> {"away", "queued", "open", "shut"}] /\ DOMAIN heard = Conns
  BY DEF ServersInv, ServersTypeOK, NetTypeOK
<1>2. CASE Exit
  BY <1>2, ExitInv DEF ServersInv
<1>3. ASSUME NEW c \in Conns, Client(c) PROVE NewOK'
  <2>1. UNCHANGED <<at, cur, heard>>
    BY <1>3 DEF Client, srvVars
  <2>2. \A d \in Conns : conn'[d] \in {"away", "queued"} => conn[d] \in {"away", "queued"}
    BY <1>1, <1>3 DEF Client, Connect, Leave, Says
  <2> QED
    BY <1>1, <2>1, <2>2 DEF NewOK
<1>4. CASE Accept
  <2>1. queue # <<>> /\ cur' = Head(queue) /\ UNCHANGED heard
    BY <1>4 DEF ServersInv, LoopOK, Accept
  <2>2. cur' \in Conns /\ conn[cur'] = "queued"
    <3>1. 1 \in DOMAIN queue /\ cur' = queue[1] /\ queue[1] \in Conns
      BY <1>1, <2>1
    <3> QED
      BY <1>1, <3>1 DEF QueueOK
  <2>3. \A d \in Conns : conn'[d] \in {"away", "queued"} => conn[d] \in {"away", "queued"}
    BY <1>1, <1>4, <2>2 DEF Accept
  <2> QED
    BY <1>1, <2>1, <2>2, <2>3 DEF NewOK
<1>5. CASE ~Exit /\ ~Accept /\ ~(\E c \in Conns : Client(c))
  <2>1. \A d \in Conns : conn'[d] \in {"away", "queued"} => conn[d] \in {"away", "queued"}
    <3>1. UNCHANGED conn \/ conn' = [conn EXCEPT ![cur] = "shut"]
      BY <1>5, ConnChanges DEF CloseIt, CalcServe
    <3> QED
      BY <1>1, <3>1
  <2>2. at' # "hello"
    BY <1>5, StepKinds DEF Wait, Return, ClientEvent, AddressHello, AddressRead, ChatHello, ChatRead, ChatGone, ChatRelay,
         CityHello, CityRead, CityRelay, CalcServe, Goes, Report, NextSlot
  <2>3. ASSUME NEW d \in Conns, heard'[d] # heard[d] PROVE conn[d] = "open"
    <3>1. \/ UNCHANGED heard
          \/ ChatRelay /\ slot[ind] # None /\ heard' = [heard EXCEPT ![slot[ind]] = Append(@, cur)]
          \/ CityRelay /\ slot[ind] # None /\ Told(slot[ind], owner)
          \/ (CityHello \/ CityRead) /\ \E m : Told(cur, m)
      BY <1>5, StepKinds DEF Wait, Return, ClientEvent, AddressHello, AddressRead, ChatHello, ChatRead, ChatGone, ChatRelay,
         CityHello, CityRead, CityRelay, CalcServe
    <3>2. CASE ChatRelay \/ CityRelay
      <4>1. ind \in Table
        BY <3>2 DEF ServersInv, LoopOK, ChatRelay, CityRelay
      <4>2. slot[ind] = None \/ conn[slot[ind]] = "open"
        BY <1>1, <4>1 DEF TableOK
      <4> QED
        BY <1>1, <2>3, <3>1, <3>2, <4>2 DEF Told, CityHello, CityRead, ChatRelay, CityRelay
    <3>3. CASE CityHello \/ CityRead
      BY <1>1, <2>3, <3>1, <3>3, CurIsOpen DEF Told, CityHello, CityRead, ChatRelay, CityRelay
    <3> QED
      BY <2>3, <3>1, <3>2, <3>3
  <2>4. ASSUME NEW d \in Conns, conn'[d] \in {"away", "queued"} PROVE heard'[d] = <<>>
    BY <1>1, <2>1, <2>3, <2>4 DEF NewOK
  <2> QED
    BY <2>2, <2>4 DEF NewOK
<1> QED
  BY <1>2, <1>3, <1>4, <1>5

-----------------------------------------------------------------------------
(* What the clients of the chat have got *)

\* How many of the messages to a client there are, up to the nth.
LEMMA OthersFinite ==
  ASSUME ServersTypeOK, NEW c \in Conns, NEW n \in Nat
  PROVE  IsFiniteSet(Others(c, n)) /\ Cardinality(Others(c, n)) \in Nat
<1>1. since[c] \in Nat
  BY DEF ServersTypeOK
<1>2. IsFiniteSet(since[c] + 1..n)
  BY <1>1, FS_Interval
<1>3. IsFiniteSet(Others(c, n))
  BY <1>2, FS_Subset DEF Others
<1> QED
  BY <1>3, FS_CardinalityType

\* One more message is one more for all but its sender.
LEMMA OthersNext ==
  ASSUME ServersTypeOK, NEW c \in Conns, NEW n \in Nat, since[c] <= n
  PROVE  Others(c, n + 1) = IF relayed[n + 1] = c THEN Others(c, n) ELSE Others(c, n) \cup {n + 1}
<1>1. since[c] \in Nat
  BY DEF ServersTypeOK
<1>2. \A k : k \in since[c] + 1..n + 1 <=> k \in since[c] + 1..n \/ k = n + 1
  BY <1>1
<1> QED
  BY <1>2 DEF Others

\* Who has the first n of its messages and gets the next, has the first n + 1.
LEMMA GotNext ==
  ASSUME ServersTypeOK, NEW c \in Conns, NEW n \in Nat, since[c] <= n, GotFirst(c, n),
         relayed' = relayed, since' = since, heard[c] \in Seq(Conns), relayed[n + 1] \in Conns,
         \/ relayed[n + 1] = c /\ heard'[c] = heard[c]
         \/ relayed[n + 1] # c /\ heard'[c] = Append(heard[c], relayed[n + 1])
  PROVE  GotFirst(c, n + 1)'
<1> DEFINE all(k) == Others(c, k)
<1>1. \A k : all(k)' = all(k)
  BY DEF Others
<1>2. since[c] \in Nat
  BY DEF ServersTypeOK
<1>3. /\ Len(heard[c]) = Cardinality(all(n)) /\ Cardinality(all(n)) \in Nat
      /\ \A k \in all(n) : heard[c][Cardinality(all(k))] = relayed[k]
  BY OthersFinite DEF GotFirst
<1>4. CASE relayed[n + 1] = c
  <2>1. all(n + 1) = all(n) /\ heard'[c] = heard[c]
    BY <1>4, OthersNext
  <2>2. /\ Len(heard'[c]) = Cardinality(all(n + 1))
        /\ \A k \in all(n + 1) : heard'[c][Cardinality(all(k))] = relayed'[k]
    BY <1>3, <2>1
  <2> QED
    BY <1>1, <2>2 DEF GotFirst
<1>5. CASE relayed[n + 1] # c
  <2>1. all(n + 1) = all(n) \cup {n + 1} /\ n + 1 \notin all(n)
    BY <1>2, <1>5, OthersNext DEF Others
  <2>2. Cardinality(all(n + 1)) = Cardinality(all(n)) + 1
    BY <2>1, OthersFinite, FS_AddElement
  <2>3. ASSUME NEW k \in all(n) PROVE Cardinality(all(k)) \in 1..Cardinality(all(n))
    <3>1. k \in Nat /\ all(k) \subseteq all(n) /\ k \in all(k)
      BY <1>2 DEF Others
    <3>2. Cardinality(all(k)) <= Cardinality(all(n)) /\ Cardinality(all(k)) \in Nat
      BY <3>1, OthersFinite, FS_Subset
    <3>3. Cardinality(all(k)) # 0
      BY <3>1, OthersFinite, FS_EmptySet
    <3> QED
      BY <1>3, <3>2, <3>3
  <2>4. /\ Len(heard'[c]) = Len(heard[c]) + 1 /\ heard'[c][Len(heard[c]) + 1] = relayed[n + 1]
        /\ \A k \in 1..Len(heard[c]) : heard'[c][k] = heard[c][k]
    BY <1>5
  <2>5. Len(heard'[c]) = Cardinality(all(n + 1))
    BY <1>3, <2>2, <2>4
  <2>6. ASSUME NEW k \in all(n + 1) PROVE heard'[c][Cardinality(all(k))] = relayed[k]
    <3>1. CASE k = n + 1
      BY <1>3, <2>2, <2>4, <3>1
    <3>2. CASE k \in all(n)
      BY <1>3, <2>3, <2>4, <3>2
    <3> QED
      BY <2>1, <3>1, <3>2
  <2> QED
    BY <1>1, <2>5, <2>6 DEF GotFirst
<1> QED
  BY <1>4, <1>5

\* A message that is appended changes nothing of the ones before it.
LEMMA GotBefore ==
  ASSUME ServersTypeOK, NEW c \in Conns, NEW s \in Conns, NEW n \in Nat, n = Len(relayed), GotFirst(c, n),
         relayed' = Append(relayed, s), since' = since, heard' = heard
  PROVE  GotFirst(c, n)'
<1>1. relayed \in Seq(Conns) /\ since[c] \in Nat
  BY DEF ServersTypeOK
<1>2. \A k \in 1..n : relayed'[k] = relayed[k]
  BY <1>1
<1>3. ASSUME NEW k \in Nat, k <= n PROVE Others(c, k)' = Others(c, k)
  BY <1>1, <1>2, <1>3 DEF Others
<1>4. \A k \in Others(c, n) : k \in 1..n
  BY <1>1 DEF Others
<1>5. /\ Len(heard'[c]) = Cardinality(Others(c, n)')
      /\ \A k \in Others(c, n)' : heard'[c][Cardinality(Others(c, k)')] = relayed'[k]
  BY <1>2, <1>3, <1>4 DEF GotFirst
<1> QED
  BY <1>5 DEF GotFirst

\* It is none for its sender, who lacks nothing then.
LEMMA GotOwn ==
  ASSUME ServersTypeOK, NEW c \in Conns, NEW n \in Nat, n = Len(relayed), GotFirst(c, n),
         relayed' = Append(relayed, c), since' = since, heard' = heard
  PROVE  GotFirst(c, n + 1)'
<1>1. relayed \in Seq(Conns) /\ since[c] \in Nat
  BY DEF ServersTypeOK
<1>2. relayed'[n + 1] = c /\ \A k \in 1..n : relayed'[k] = relayed[k]
  BY <1>1
<1>3. ASSUME NEW k \in Nat, k <= n PROVE Others(c, k)' = Others(c, k)
  BY <1>1, <1>2, <1>3 DEF Others
<1>4. \A k \in Others(c, n) : k \in 1..n
  BY <1>1 DEF Others
<1>5. Others(c, n + 1)' = Others(c, n)
  BY <1>1, <1>2 DEF Others
<1>6. /\ Len(heard'[c]) = Cardinality(Others(c, n + 1)')
      /\ \A k \in Others(c, n + 1)' : heard'[c][Cardinality(Others(c, k)')] = relayed'[k]
  BY <1>2, <1>3, <1>4, <1>5 DEF GotFirst
<1> QED
  BY <1>6 DEF GotFirst

\* What a client has got depends on nothing but its own history.
LEMMA GotSame ==
  ASSUME NEW c, NEW n, relayed' = relayed, since'[c] = since[c], heard'[c] = heard[c]
  PROVE  GotFirst(c, n)' <=> GotFirst(c, n)
BY DEF GotFirst, Others

\* A client that joins has nothing to get yet.
LEMMA GotNone ==
  ASSUME NEW c \in Conns, NEW n \in Nat, since'[c] = n, heard'[c] = <<>>
  PROVE  GotFirst(c, n)'
<1>1. Others(c, n)' = {}
  BY DEF Others
<1> QED
  BY <1>1, FS_EmptySet DEF GotFirst

\* A turn of the loop of relays takes one slot off what is ahead.
LEMMA AheadStep ==
  ASSUME ServersInv, at = "relay", NextSlot, UNCHANGED <<slot, cur>>
  PROVE  Ahead' = Ahead \ {ind} /\ ind \in Table
<1>1. ind \in Table /\ MaxClients \in Nat
  BY ServerAssumption DEF ServersInv, LoopOK
<1>2. CASE ind = MaxClients
  BY <1>1, <1>2 DEF Ahead, NextSlot, Goes, Table
<1>3. CASE ind # MaxClients
  BY <1>1, <1>3 DEF Ahead, NextSlot, Goes, Table
<1> QED
  BY <1>1, <1>2, <1>3

\* The relay of the last message to the slot ind, if another client has it.
LEMMA ChatRelayStep ==
  ASSUME ServersInv, ChatRelay, ~Exit
  PROVE  ChatOK'
<1> USE ServerAssumption DEF None, tables
<1>1. /\ ServersTypeOK /\ TableOK /\ ChatOK /\ prog = "chat" /\ at = "relay" /\ NextSlot
      /\ UNCHANGED <<prog, cur, slot, watched, relayed, since>>
  BY DEF ServersInv, ChatRelay, NextSlot, Goes, fixed
<1>2. /\ slot \in [Table -> Conns \cup {None}] /\ None \notin Conns /\ relayed \in Seq(Conns)
      /\ heard \in [Conns -> Seq(Conns)] /\ since \in [Conns -> 0..Len(relayed)]
  BY <1>1 DEF ServersTypeOK, Conns
<1>3. /\ relayed # <<>> /\ relayed[Len(relayed)] = cur
      /\ \A c \in watched : since[c] < Len(relayed)
  BY <1>1 DEF ChatOK
<1>4. Ahead' = Ahead \ {ind} /\ ind \in Table
  BY <1>1, AheadStep
<1>5. PICK n \in Nat : Len(relayed) = n + 1
  <2>1. Len(relayed) \in Nat \ {0}
    BY <1>2, <1>3
  <2> QED
    BY <2>1
<1>6. cur \in Conns
  BY <1>1, CurIsConn
<1>7. ASSUME NEW i \in Table, NEW c \in Conns, c = slot[i], i # ind \/ c = cur
      PROVE  /\ i \in Ahead <=> i \in Ahead'
             /\ \A k : GotFirst(c, k) => GotFirst(c, k)'
  <2>1. i \in Ahead <=> i \in Ahead'
    BY <1>4, <1>7 DEF Ahead
  <2>2. heard'[c] = heard[c]
    <3>1. CASE slot[ind] \in {None, cur}
      BY <1>1, <3>1 DEF ChatRelay
    <3>2. CASE slot[ind] \notin {None, cur}
      <4>1. c # slot[ind]
        BY <1>1, <1>2, <1>4, <1>7, <3>2 DEF TableOK
      <4>2. heard' = [heard EXCEPT ![slot[ind]] = Append(@, cur)]
        BY <3>2 DEF ChatRelay
      <4> QED
        BY <1>2, <1>7, <4>1, <4>2
    <3> QED
      BY <3>1, <3>2
  <2> QED
    BY <1>1, <2>1, <2>2, GotSame
<1>8. ASSUME NEW c \in Conns, c = slot[ind], c # cur
      PROVE  GotFirst(c, n + 1)'
  <2>1. ind \in Ahead /\ c \in watched
    BY <1>1, <1>2, <1>4, <1>8 DEF Ahead, TableOK, Table
  <2>2. GotFirst(c, n)
    <3>1. GotFirst(c, Len(relayed) - 1)
      BY <1>1, <1>2, <1>8, <2>1 DEF ChatOK
    <3> QED
      BY <1>5, <3>1
  <2>3. heard'[c] = Append(heard[c], cur) /\ heard[c] \in Seq(Conns)
    BY <1>1, <1>2, <1>8 DEF ChatRelay
  <2>4. since[c] <= n
    BY <1>2, <1>3, <1>5, <2>1
  <2>5. relayed[n + 1] \in Conns /\ relayed[n + 1] # c /\ heard'[c] = Append(heard[c], relayed[n + 1])
    BY <1>3, <1>5, <1>6, <1>8, <2>3
  <2>6. ServersTypeOK /\ relayed' = relayed /\ since' = since
    BY <1>1
  <2> QED
    BY ONLY <1>8, <2>2, <2>3, <2>4, <2>5, <2>6, n \in Nat, GotNext
<1>9. ASSUME NEW i \in Table \ Ahead', NEW c \in Conns, c = slot[i] PROVE GotFirst(c, n + 1)'
  <2>1. CASE i # ind \/ c = cur
    <3>1. i \notin Ahead
      BY <1>7, <1>9, <2>1
    <3>2. GotFirst(c, n + 1)
      BY <1>1, <1>2, <1>5, <1>9, <3>1 DEF ChatOK
    <3> QED
      BY <1>7, <1>9, <2>1, <3>2
  <2>2. CASE i = ind /\ c # cur
    BY <1>8, <1>9, <2>2
  <2> QED
    BY <2>1, <2>2
<1>10. ASSUME NEW i \in Ahead', NEW c \in Conns, c = slot[i] PROVE GotFirst(c, n)'
  <2>1. i \in Ahead /\ i # ind /\ i \in Table
    BY <1>4, <1>10 DEF Ahead
  <2>2. GotFirst(c, Len(relayed) - 1)
    BY <1>1, <1>2, <1>10, <2>1 DEF ChatOK
  <2>3. Len(relayed) - 1 = n
    BY <1>5
  <2> QED
    BY <1>7, <1>10, <2>1, <2>2, <2>3
<1>11. Len(relayed') = n + 1 /\ Len(relayed') - 1 = n
  BY <1>1, <1>5
<1>12. \A i \in Ahead' : i \in Table
  BY <1>4 DEF Ahead
<1> QED
  BY <1>1, <1>2, <1>3, <1>9, <1>10, <1>11, <1>12 DEF ChatOK

\* Between two messages nobody lacks one; a relay begins with all lacking the new one.
LEMMA ChatStep ==
  ASSUME ServersInv, ServersNext
  PROVE  ChatOK'
<1> USE ServerAssumption DEF None, tables, fixed
<1>1. /\ ServersTypeOK /\ TableOK /\ LoopOK /\ NewOK /\ ChatOK
      /\ slot \in [Table -> Conns \cup {None}] /\ None \notin Conns
      /\ relayed \in Seq(Conns) /\ since \in [Conns -> 0..Len(relayed)] /\ Len(relayed) \in Nat
  BY DEF ServersInv, ServersTypeOK, Conns
<1>2. CASE Exit
  BY <1>2, ExitInv DEF ServersInv
<1>3. \A i \in Ahead : at = "relay" /\ i \in Table
  BY DEF Ahead
<1>4. at' # "relay" => Ahead' = {}
  BY DEF Ahead
<1>5. at # "relay" /\ prog = "chat" => \A i \in Table : slot[i] # None => GotFirst(slot[i], Len(relayed))
  BY <1>1, <1>3 DEF ChatOK
<1>6. ASSUME UNCHANGED <<at, cur, ind, slot, watched, prog, relayed, since, heard>>
      PROVE  ChatOK'
  <2>1. Ahead' = Ahead
    BY <1>6 DEF Ahead
  <2>2. \A c, n : GotFirst(c, n)' <=> GotFirst(c, n)
    BY <1>6, GotSame
  <2> QED
    BY <1>1, <1>6, <2>1, <2>2 DEF ChatOK
<1>7. ASSUME at # "relay", at' # "relay", prog' = prog, prog = "chat", relayed' = relayed,
             \A i \in Table : slot'[i] # None =>
               slot'[i] = slot[i] /\ since'[slot[i]] = since[slot[i]] /\ heard'[slot[i]] = heard[slot[i]]
      PROVE  ChatOK'
  <2>1. ASSUME NEW i \in Table, NEW c, c = slot'[i], c # None PROVE GotFirst(c, Len(relayed))'
    <3>1. GotFirst(c, Len(relayed)) /\ c = slot[i]
      BY <1>5, <1>7, <2>1
    <3>2. \A n : GotFirst(c, n)' <=> GotFirst(c, n)
      BY <1>7, <2>1, <3>1, GotSame
    <3> QED
      BY <1>7, <3>1, <3>2
  <2> QED
    BY <1>4, <1>7, <2>1 DEF ChatOK
<1>8. CASE prog = "chat" /\ (Wait \/ Return \/ Accept \/ ClientEvent)
  BY <1>7, <1>8 DEF Wait, Return, Accept, ClientEvent, Goes
<1>9. CASE \E c \in Conns : Client(c)
  BY <1>6, <1>9 DEF Client, srvVars
<1>10. CASE ChatHello
  <2>1. /\ at = "hello" /\ at' = "handle" /\ prog = "chat" /\ UNCHANGED <<prog, relayed, heard>>
    BY <1>10 DEF ChatHello, Goes
  <2>2. CASE UNCHANGED <<slot, since>>
    BY <1>7, <2>1, <2>2
  <2>3. CASE Free # {} /\ TakeSlot(FirstFree) /\ since' = [since EXCEPT ![cur] = Len(relayed)]
    <3>1. /\ FirstFree \in Table /\ slot' = [slot EXCEPT ![FirstFree] = cur] /\ cur \in Conns \ watched
      BY <1>1, <2>1, <2>3, FirstFreeIsFree DEF TakeSlot, Free, TableOK
    <3>2. ASSUME NEW i \in Table, NEW c, c = slot'[i], c # None PROVE GotFirst(c, Len(relayed))'
      <4>1. CASE c = cur
        <5>1. since'[c] = Len(relayed) /\ heard'[c] = <<>>
          BY <1>1, <2>1, <2>3, <3>1, <4>1 DEF NewOK
        <5>2. \A n \in Nat : n = Len(relayed) => GotFirst(c, n)'
          BY <3>1, <4>1, <5>1, GotNone
        <5> QED
          BY <1>1, <2>1, <5>2
      <4>2. CASE c # cur
        <5>1. c = slot[i] /\ since'[c] = since[c]
          BY <1>1, <2>3, <3>1, <3>2, <4>2
        <5>2. \A n : GotFirst(c, n)' <=> GotFirst(c, n)
          BY <2>1, <5>1, GotSame
        <5> QED
          BY <1>5, <2>1, <3>2, <5>1, <5>2
      <4> QED
        BY <4>1, <4>2
    <3> QED
      BY <1>4, <2>1, <3>2 DEF ChatOK
  <2> QED
    BY <1>10, <2>2, <2>3 DEF ChatHello
<1>11. CASE ChatRead /\ ~Exit
  <2>1. /\ at = "read" /\ at' = "relay" /\ prog = "chat" /\ relayed' = Append(relayed, cur) /\ ind' = 1
        /\ UNCHANGED <<prog, cur, slot, watched, since, heard>> /\ cur \in watched
    BY <1>1, <1>11 DEF ChatRead, Goes, LoopOK
  <2>2. cur \in Conns
    BY <1>1, <2>1, CurIsConn
  <2>3. /\ relayed' # <<>> /\ Len(relayed') = Len(relayed) + 1 /\ relayed'[Len(relayed')] = cur
    <3>1. relayed \in Seq(Conns) /\ relayed' = Append(relayed, cur)
      BY <1>1, <2>1
    <3> QED
      BY ONLY <2>2, <3>1
  <2>4. ASSUME NEW c \in watched PROVE since[c] < Len(relayed')
    <3>1. since[c] \in 0..Len(relayed)
      BY <1>1 DEF ServersTypeOK
    <3> QED
      BY <1>1, <2>3, <3>1
  <2>5. \A i \in Table : i \in Ahead' <=> slot[i] # cur
    BY <2>1 DEF Ahead, Table
  <2>6. ASSUME NEW i \in Table, NEW c \in Conns, c = slot[i], NEW n \in Nat, n = Len(relayed)
        PROVE  GotFirst(c, n)' /\ (c = cur => GotFirst(c, n + 1)')
    <3>1. GotFirst(c, n)
      BY <1>1, <1>5, <2>1, <2>6
    <3> QED
      BY <1>1, <2>1, <2>2, <2>6, <3>1, GotBefore, GotOwn
  <2>7. PICK n \in Nat : n = Len(relayed)
    BY <1>1
  <2>8. ASSUME NEW i \in Table \ Ahead', NEW c \in Conns, c = slot'[i] PROVE GotFirst(c, Len(relayed))'
    <3>1. GotFirst(c, n + 1)'
      BY <2>1, <2>5, <2>6, <2>7, <2>8
    <3> QED
      BY <2>3, <2>7, <3>1
  <2>9. ASSUME NEW i \in Ahead', NEW c \in Conns, c = slot'[i] PROVE GotFirst(c, Len(relayed) - 1)'
    <3>1. i \in Table
      BY DEF Ahead
    <3>2. GotFirst(c, n)'
      BY <2>1, <2>6, <2>7, <2>9, <3>1
    <3>3. Len(relayed') - 1 = n
      BY <2>3, <2>7
    <3> QED
      BY <3>2, <3>3
  <2>10. \A i \in Ahead' : i \in Table
    BY DEF Ahead
  <2>11. \A i \in Table : slot'[i] = None \/ slot'[i] \in Conns
    BY <1>1, <2>1
  <2> QED
    BY <2>1, <2>3, <2>4, <2>8, <2>9, <2>10, <2>11 DEF ChatOK
<1>12. CASE ChatGone /\ ~Exit
  BY <1>1, <1>7, <1>12 DEF ChatGone, Goes
<1>13. CASE ChatRelay
  BY <1>2, <1>13, ChatRelayStep
<1>14. CASE prog' = prog /\ prog # "chat"
  BY <1>14 DEF ChatOK
<1>15. (AddressHello \/ AddressRead \/ CityHello \/ CityRead \/ CityRelay \/ CalcServe) /\ ~Exit => prog # "chat" /\ prog' = prog
  BY DEF AddressHello, AddressRead, CityHello, CityRead, CityRelay, CalcServe, Report, Goes, NextSlot
<1>16. Wait \/ Return \/ Accept \/ ClientEvent => prog' = prog
  BY DEF Wait, Return, Accept, ClientEvent, Goes
<1> QED
  BY <1>2, <1>8, <1>9, <1>10, <1>11, <1>12, <1>13, <1>14, <1>15, <1>16, StepKinds

-----------------------------------------------------------------------------
(* What the clients of the cities know *)

\* A report is told to its sender at once, and starts the relays if it is news.
LEMMA CityReported ==
  ASSUME ServersInv, prog = "city", at \in {"hello", "read"}, cur' = cur,
         NEW m, Told(cur, m), NEW from, Report(from, m),
         \A i \in Table : slot'[i] = slot[i] \/ slot'[i] = cur
  PROVE  CityOK'
<1>1. heard \in [Conns -> Seq(Owners)] /\ slot \in [Table -> Conns \cup {None}] /\ cur \in Conns
  BY CurIsConn DEF ServersInv, ServersTypeOK
<1>2. \A i \in Table : slot[i] # None => heard[slot[i]] \in {<<>>, <<owner>>}
  BY DEF ServersInv, CityOK, Ahead
<1>3. heard[cur] \in {<<>>, <<owner>>}
  BY <1>2 DEF ServersInv, NewOK, LoopOK, TableOK
<1>4. \A c \in Conns : heard'[c] = IF c = cur /\ m \in Owners THEN <<m>> ELSE heard[c]
  BY <1>1 DEF Told
<1>5. CASE m \in Owners \ {owner}
  <2>1. owner' = m /\ ind' = 1 /\ at' = "relay"
    BY <1>5 DEF Report, Goes
  <2>2. \A i \in Table \ Ahead' : slot'[i] = cur
    BY <2>1 DEF Ahead, Table
  <2> QED
    BY <1>1, <1>4, <1>5, <2>1, <2>2 DEF CityOK
<1>6. CASE m \notin Owners \ {owner}
  <2>1. owner' = owner /\ (m \in Owners => m = owner) /\ at' = "handle"
    BY <1>6 DEF Report, Goes
  <2>2. ASSUME NEW i \in Table, slot'[i] # None PROVE heard'[slot'[i]] \in {<<>>, <<owner>>}
    BY <1>1, <1>2, <1>3, <1>4, <2>1, <2>2
  <2> QED
    BY <2>1, <2>2 DEF CityOK
<1> QED
  BY <1>5, <1>6

\* The relay of the new owner to the slot ind.
LEMMA CityRelayStep ==
  ASSUME ServersInv, CityRelay, ~Exit
  PROVE  CityOK'
<1> USE DEF tables
<1>1. /\ TableOK /\ CityOK /\ prog = "city" /\ at = "relay" /\ NextSlot
      /\ UNCHANGED <<cur, slot, owner>>
  BY DEF ServersInv, CityRelay
<1>2. heard \in [Conns -> Seq(Owners)] /\ slot \in [Table -> Conns \cup {None}]
  BY <1>1 DEF ServersInv, ServersTypeOK
<1>3. Ahead' = Ahead \ {ind} /\ ind \in Table
  BY <1>1, AheadStep
<1>4. CASE slot[ind] \in {None, cur}
  <2>1. heard' = heard
    BY <1>4 DEF CityRelay
  <2>2. ind \notin Ahead \/ slot[ind] = None
    BY <1>4 DEF Ahead
  <2>3. at' = "relay" => owner' \in Owners
    BY <1>1 DEF CityOK
  <2> QED
    BY <1>1, <1>3, <2>1, <2>2, <2>3 DEF CityOK
<1>5. CASE slot[ind] \notin {None, cur}
  <2>1. Told(slot[ind], owner) /\ slot[ind] \in Conns
    BY <1>2, <1>3, <1>5 DEF CityRelay
  <2>2. \A c \in Conns : heard'[c] = heard[c] \/ (c = slot[ind] /\ heard'[c] = <<owner>>)
    BY <1>2, <2>1 DEF Told
  <2>3. heard'[slot[ind]] = <<owner>> \/ owner \notin Owners
    BY <1>2, <2>1 DEF Told
  <2>4. owner \in Owners
    BY <1>1 DEF CityOK
  <2> QED
    BY <1>1, <1>2, <1>3, <2>2, <2>3, <2>4 DEF CityOK
<1> QED
  BY <1>4, <1>5

\* What the clients know of the owner changes with what the server knows.
LEMMA CityStep ==
  ASSUME ServersInv, ServersNext
  PROVE  CityOK'
<1> USE ServerAssumption DEF tables, fixed
<1>1. /\ CityOK /\ slot \in [Table -> Conns \cup {None}]
  BY DEF ServersInv, ServersTypeOK
<1>2. CASE Exit
  BY <1>2, ExitInv DEF ServersInv
<1>3. CASE \E c \in Conns : Client(c)
  <2>1. UNCHANGED <<prog, at, cur, ind, slot, heard, owner>>
    BY <1>3 DEF Client, srvVars
  <2>2. Ahead' = Ahead
    BY <2>1 DEF Ahead
  <2> QED
    BY <1>1, <2>1, <2>2 DEF CityOK
<1>4. ASSUME at # "relay", at' # "relay", UNCHANGED <<prog, slot, heard, owner>> PROVE CityOK'
  BY <1>1, <1>4 DEF CityOK, Ahead
<1>5. CASE Wait \/ Return \/ Accept \/ ClientEvent
  BY <1>4, <1>5 DEF Wait, Return, Accept, ClientEvent, Goes
<1>6. CASE CityHello
  <2>1. /\ prog = "city" /\ at = "hello" /\ cur' = cur /\ \E m : Told(cur, m) /\ Report("hello", m)
    BY <1>6 DEF CityHello
  <2>2. \A i \in Table : slot'[i] = slot[i] \/ slot'[i] = cur
    BY <1>1, <1>6 DEF CityHello, TakeSlot
  <2> QED
    BY <2>1, <2>2, CityReported
<1>7. CASE CityRead
  <2>1. prog = "city" /\ at = "read" /\ UNCHANGED <<cur, slot>>
    BY <1>7 DEF CityRead
  <2>2. \/ \E m : Told(cur, m) /\ Report("read", m)
        \/ at' = "handle" /\ UNCHANGED <<prog, heard, owner>>
    BY <1>7 DEF CityRead, Goes
  <2> QED
    BY <1>4, <2>1, <2>2, CityReported
<1>8. CASE CityRelay
  BY <1>2, <1>8, CityRelayStep
<1>9. CASE prog' = prog /\ prog # "city"
  BY <1>9 DEF CityOK
<1>10. /\ AddressHello \/ AddressRead \/ ChatHello \/ ChatRead \/ ChatGone \/ ChatRelay \/ CalcServe
       /\ ~Exit
       => prog # "city" /\ prog' = prog
  BY DEF AddressHello, AddressRead, ChatHello, ChatRead, ChatGone, ChatRelay, CalcServe, Goes, NextSlot
<1> QED
  BY <1>2, <1>3, <1>5, <1>6, <1>7, <1>8, <1>9, <1>10, StepKinds

-----------------------------------------------------------------------------
(* The theorems *)

\* The inductive invariant holds in every state of the servers.
LEMMA ServersInvariance == ServersSpec => []ServersInv
<1>1. ServersInv /\ [ServersNext]_serversVars => ServersInv'
  <2> SUFFICES ASSUME ServersInv, [ServersNext]_serversVars PROVE ServersInv'
    OBVIOUS
  <2>1. CASE ServersNext
    BY <2>1, ServersTypes, QueueStep, TableStep, LoopStep, NewStep, ChatStep, CityStep DEF ServersInv
  <2>2. CASE UNCHANGED serversVars
    <3>1. /\ UNCHANGED <<prog, queue, conn, gone, inbox, sends, link, edge>>
          /\ UNCHANGED <<at, events, cur, slot, watched, ind, relayed, since, heard, owner, junk>>
      BY <2>2 DEF serversVars, netVars, srvVars
    <3>2. ServersTypeOK'
      BY <3>1 DEF ServersInv, ServersTypeOK, NetTypeOK, InboxTypeOK
    <3>3. QueueOK' /\ TableOK' /\ LoopOK' /\ NewOK'
      BY <3>1 DEF ServersInv, QueueOK, TableOK, LoopOK, NewOK, Free
    <3>4. Ahead' = Ahead /\ \A c, n : GotFirst(c, n)' <=> GotFirst(c, n)
      BY <3>1, GotSame DEF Ahead
    <3>5. ChatOK' /\ CityOK'
      BY <3>1, <3>4 DEF ServersInv, ChatOK, CityOK
    <3> QED
      BY <3>2, <3>3, <3>5 DEF ServersInv
  <2> QED
    BY <2>1, <2>2
<1> QED
  BY <1>1, ServersInitInv, PTL DEF ServersSpec

\* Every variable of the four servers, of their clients and of epoll keeps its type.
THEOREM ServersTypeCorrect == ServersSpec => []ServersTypeOK
<1>1. ServersInv => ServersTypeOK
  BY DEF ServersInv
<1> QED
  BY <1>1, ServersInvariance, PTL

\* For any number of clients and slots: between two events a connection is open just when it
\* is watched and has a slot, one only (sop-chat (1).c:91, 111-124, 154-174;
\* anotherone.c:71-94; 1_server.c:86; l4a.c:189-200).
THEOREM TablesAgree == ServersSpec => []SlotsAgree
<1>1. ServersInv => SlotsAgree
  BY DEF ServersInv, TableOK, SlotsAgree
<1> QED
  BY <1>1, ServersInvariance, PTL

\* For any number of clients, slots and messages: between two events a client of the chat has
\* got each message since it joined, but its own, once and in order (sop-chat (1).c:102-109),
\* and a client of the cities knows the owner that the server knows, or none
\* (anotherone.c:131-144).
THEOREM RelaysAreComplete == ServersSpec => []Relayed
<1>1. ASSUME ServersInv PROVE Relayed
  <2> SUFFICES ASSUME at \in {"wait", "handle"}
               PROVE  /\ prog = "chat" => \A c \in watched : GotFirst(c, Len(relayed))
                      /\ prog = "city" => \A c \in watched : heard[c] \in {<<>>, <<owner>>}
    BY DEF Relayed
  <2>1. Ahead = {}
    BY DEF Ahead
  <2>2. \A c \in watched : \E i \in Table : c = slot[i] /\ slot[i] # None
    BY <1>1 DEF ServersInv, TableOK
  <2> QED
    BY <1>1, <2>1, <2>2 DEF ServersInv, ChatOK, CityOK
<1> QED
  BY <1>1, ServersInvariance, PTL
=============================================================================
