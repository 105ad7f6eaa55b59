-------------------------- MODULE ProcessLabsProofs --------------------------
(***************************************************************************)
(* Proofs about the programs of processes that talk by pipes and signals,  *)
(* for any number of students, stages, seats, children, blocks and draws.  *)
(* Each program has an inductive invariant of its own; a behaviour of      *)
(* ProcessLabs keeps all of them.                                          *)
(***************************************************************************)
EXTENDS ProcessLabs, FiniteSetTheorems, TLAPS

\* Cardinality is the same operator in the modules of the programs.
LEMMA SameCardinality ==
  ASSUME NEW X
  PROVE  G!Cardinality(X) = Cardinality(X) /\ E!Cardinality(X) = Cardinality(X)
  BY DEF G!Cardinality, E!Cardinality, Cardinality

-----------------------------------------------------------------------------
(* The signals that are counted *)

\* A child has ended only when the count was full or its parent is gone, and the count is
\* full only when the parent has left its loop.
CountInv ==
  /\ counting \in {"fork", "block", "wait", "reap", "ended", "killed"}
  /\ sigCount \in 0..Limit /\ forked \in 0..Senders
  /\ sender \in [S!Family -> {"block", "send", "none", "ended", "killed"}] /\ usr2 \subseteq S!Family
  /\ counting = "fork" => forked < Senders
  /\ counting \in {"fork", "block", "wait"} => sigCount < Limit
  /\ counting \in {"reap", "ended"} => sigCount = Limit
  /\ usr2 # {} => sigCount = Limit
  /\ S!EndsInOrder

\* Nothing has been counted at the start.
LEMMA CountInit == S!Init => CountInv
  BY ProcessAssumption DEF ProcessAssumption, S!Init, CountInv, S!EndsInOrder, S!Family, S!KidEnds

\* Every step keeps it.
LEMMA CountStep ==
  ASSUME CountInv, S!Next
  PROVE  CountInv'
<1> USE ProcessAssumption DEF ProcessAssumption, CountInv, S!EndsInOrder, S!Family, S!KidEnds
<1>1. CASE S!Fork
  BY <1>1 DEF S!Fork
<1>2. CASE S!BlockSignals \/ S!Reap
  BY <1>2 DEF S!BlockSignals, S!Reap
<1>3. CASE S!Sigwait
  BY <1>3 DEF S!Sigwait
<1>4. CASE \E c \in S!Family : S!Block(c)
  BY <1>4 DEF S!Block
<1>5. CASE \E c \in S!Family : S!Send(c)
  BY <1>5 DEF S!Send
<1> QED
  BY <1>1, <1>2, <1>3, <1>4, <1>5, Zenon DEF S!Next, S!ParentStep, S!KidStep

\* The other programs do not touch it.
LEMMA CountFrame == CountInv /\ UNCHANGED countVars => CountInv'
  BY DEF countVars, CountInv, S!EndsInOrder, S!Family, S!KidEnds

-----------------------------------------------------------------------------
(* The copied blocks *)

\* A block is written when it is read to its end, and read when none is left to write.
CopyInv ==
  /\ block \in 0..Blocks /\ got \in 0..Size /\ put \in 0..Size /\ file \in Nat
  /\ copying = "read" => put = 0 /\ got < Size
  /\ copying = "write" => got = Size /\ put < Size
  /\ copying \in {"kill", "wait", "ended"} => put = 0
  /\ copying \in {"read", "write"} <=> block < Blocks
  /\ copying \in {"read", "write", "kill", "wait", "ended"}
  /\ B!CopyIsWhole

\* Nothing has been copied at the start.
LEMMA CopyInit == B!Init => CopyInv
  BY ProcessAssumption DEF ProcessAssumption, B!Init, CopyInv, B!CopyIsWhole

\* Every step keeps it: a block that is written is one of Size pieces.
LEMMA CopyStep ==
  ASSUME CopyInv, B!Next
  PROVE  CopyInv'
<1> USE ProcessAssumption DEF ProcessAssumption, CopyInv, B!CopyIsWhole
<1>1. CASE B!BulkRead
  BY <1>1 DEF B!BulkRead
<1>2. CASE B!BulkWrite
  <2>1. PICK c \in 1..got - put :
          /\ file' = file + c
          /\ IF put + c < got THEN put' = put + c /\ UNCHANGED <<copying, block, got>>
             ELSE /\ put' = 0 /\ got' = 0 /\ block' = block + 1
                  /\ copying' = IF block' = Blocks THEN "kill" ELSE "read"
    BY <1>2 DEF B!BulkWrite
  <2>2. copying = "write" /\ got = Size /\ put < Size /\ block \in Nat /\ block < Blocks /\ Size \in Nat \ {0}
    BY <1>2 DEF B!BulkWrite
  <2>3. (block + 1) * Size = block * Size + Size /\ block * Size \in Nat
    BY <2>2
  <2>4. CASE put + c < got
    BY <2>1, <2>2, <2>3, <2>4
  <2>5. CASE put + c >= got
    <3>1. put + c = Size /\ file' = block * Size + Size /\ put' = 0 /\ got' = 0 /\ block' = block + 1
      BY <2>1, <2>2, <2>3, <2>5
    <3> QED
      BY <2>1, <2>2, <2>3, <2>5, <3>1
  <2> QED
    BY <2>1, <2>2, <2>4, <2>5
<1>3. CASE B!KillGroup \/ B!Wait \/ B!SetDefault \/ B!Signal
  BY <1>3 DEF B!KillGroup, B!Wait, B!SetDefault, B!Signal
<1> QED
  BY <1>1, <1>2, <1>3, Zenon DEF B!Next, B!Copier, B!Signaller

\* The other programs do not touch it.
LEMMA CopyFrame == CopyInv /\ UNCHANGED copyVars => CopyInv'
  BY DEF copyVars, CopyInv, B!CopyIsWhole

-----------------------------------------------------------------------------
(* The exit codes *)

\* The signals a child has of those sent: counted, or pending.
Had(c) == sig_count[c] + (IF c \in hit THEN 1 ELSE 0)

\* The signal of a child to itself is pending until it is counted, and it exits with
\* all its signals sent; nobody has more signals than there were.
CodeInv ==
  /\ member \in [Group -> {"start", "kill", "own", "zombie", "reaped"}] /\ k \in [Group -> Draws]
  /\ kills \in [Group -> Nat] /\ sig_count \in [Group -> Nat] /\ hit \subseteq Group
  /\ code \in [Group -> 0..256]
  /\ \A c \in Group :
       /\ kills[c] <= k[c]
       /\ member[c] = "start" => kills[c] = 0
       /\ IF member[c] = "own" /\ c \in hit THEN sig_count[c] + 1 >= kills[c] ELSE sig_count[c] >= kills[c]
       /\ Had(c) <= Cardinality(E!Sent)
       /\ member[c] \in {"zombie", "reaped"} => kills[c] = k[c]
       /\ IF member[c] = "reaped" THEN code[c] = (sig_count[c] * 10 + k[c]) % 256 ELSE code[c] = 256

\* The signals sent are finitely many.
LEMMA SentIsFinite == IsFiniteSet(E!Sent)
<1>1. IsFiniteSet(Group) /\ IsFiniteSet(1..10)
  <2>1. IsFiniteSet(Group)
    BY ProcessAssumption, Zenon DEF ProcessAssumption
  <2>2. ASSUME NEW n \in Int PROVE IsFiniteSet(1..n)
    BY ONLY FS_Interval
  <2>3. IsFiniteSet(1..10)
    <3>1. 10 \in Int
      OBVIOUS
    <3> QED
      BY <2>2, <3>1, Zenon
  <2> QED
    BY <2>1, <2>3
<1>2. IsFiniteSet(Group \X (1..10))
  BY <1>1, FS_Product, Zenon
<1>3. E!Sent \subseteq Group \X (1..10)
  BY DEF E!Sent
<1> QED
  BY <1>2, <1>3, FS_Subset

\* What is drawn has two digits at most.
LEMMA Drawn ==
  ASSUME k \in [Group -> Draws], NEW c \in Group
  PROVE  k[c] \in 0..10
<1>1. k[c] \in Draws
  OBVIOUS
<1>2. Draws \subseteq 0..10
  BY ProcessAssumption, Zenon DEF ProcessAssumption
<1> QED
  BY <1>1, <1>2

\* Nobody has sent a signal at the start.
LEMMA CodeInit == E!Init => CodeInv
<1> SUFFICES ASSUME E!Init PROVE CodeInv
  OBVIOUS
<1>1. Cardinality(E!Sent) \in Nat
  BY SentIsFinite, FS_CardinalityType
<1>2. k \in [Group -> Draws] /\ \A c \in Group : k[c] \in 0..10
  BY Drawn DEF E!Init
<1> QED
  BY <1>1, <1>2 DEF E!Init, CodeInv, Had

\* A signal that is sent is one more.
LEMMA SentGrows ==
  ASSUME CodeInv, NEW c \in Group, kills[c] < k[c], kills' = [kills EXCEPT ![c] = @ + 1]
  PROVE  Cardinality(E!Sent)' = Cardinality(E!Sent) + 1
<1>1. k[c] \in 0..10 /\ kills[c] \in Nat /\ kills \in [Group -> Nat]
  BY Drawn DEF CodeInv
<1>2. E!Sent' = E!Sent \cup {<<c, kills[c] + 1>>} /\ <<c, kills[c] + 1>> \notin E!Sent
  BY <1>1 DEF E!Sent
<1> QED
  BY <1>2, SentIsFinite, FS_AddElement

\* Every step keeps it.
LEMMA CodeStep ==
  ASSUME CodeInv, E!Next
  PROVE  CodeInv'
<1>1. Cardinality(E!Sent) \in Nat
  BY SentIsFinite, FS_CardinalityType
<1>2. ASSUME NEW c \in Group, E!Kill(c)
      PROVE  CodeInv'
  <2>1. Cardinality(E!Sent)' = Cardinality(E!Sent) + 1
    BY <1>2, SentGrows DEF E!Kill
  <2>2. \A d \in Group : k[d] \in Nat
    BY Drawn DEF CodeInv
  <2>3. /\ member' = [member EXCEPT ![c] = "own"] /\ member[c] = "kill" /\ kills[c] < k[c]
        /\ kills' = [kills EXCEPT ![c] = @ + 1] /\ hit' \subseteq Group /\ hit \subseteq hit' /\ c \in hit'
        /\ UNCHANGED <<k, sig_count, code>>
    BY <1>2 DEF E!Kill, E!KidGoes, CodeInv
  <2> QED
    BY <1>1, <2>1, <2>2, <2>3 DEF CodeInv, Had
<1>3. ASSUME NEW c \in Group, E!SetHandler(c) \/ E!Handler(c) \/ E!Return(c) \/ E!Exit(c) \/ E!Reap(c)
      PROVE  CodeInv'
  <2>1. E!Sent' = E!Sent
    BY <1>3 DEF E!Sent, E!SetHandler, E!Handler, E!Return, E!Exit, E!Reap
  <2>2. CASE E!SetHandler(c) \/ E!Exit(c) \/ E!Return(c)
    BY <2>1, <2>2 DEF CodeInv, Had, E!SetHandler, E!Return, E!Exit, E!KidGoes
  <2>3. CASE E!Handler(c)
    BY <1>1, <2>1, <2>3 DEF CodeInv, Had, E!Handler
  <2>4. CASE E!Reap(c)
    <3>1. (sig_count[c] * 10 + k[c]) % 256 \in 0..256
      <4>1. sig_count[c] \in Nat /\ k[c] \in Nat
        BY Drawn DEF CodeInv
      <4>2. sig_count[c] * 10 + k[c] \in Nat
        BY <4>1
      <4>3. ASSUME NEW n \in Nat PROVE n % 256 \in 0..256
        OBVIOUS
      <4> QED
        BY <4>2, <4>3
    <3> QED
      BY <2>1, <2>4, <3>1 DEF CodeInv, Had, E!Reap, E!KidGoes
  <2> QED
    BY <1>3, <2>2, <2>3, <2>4
<1> QED
  BY <1>2, <1>3, Zenon DEF E!Next, E!KidStep

\* The other programs do not touch it.
LEMMA CodeFrame == CodeInv /\ UNCHANGED codeVars => CodeInv'
  BY DEF codeVars, CodeInv, Had, E!Sent

\* Two numbers that fit in 8 bits are found again, but for a 10.
LEMMA TwoDigits ==
  ASSUME NEW s \in Nat, s < 25, NEW d \in 0..10
  PROVE  /\ (s * 10 + d) % 256 = s * 10 + d
         /\ (s * 10 + d) % 10 = (IF d = 10 THEN 0 ELSE d)
         /\ (s * 10 + d) \div 10 = (IF d = 10 THEN s + 1 ELSE s)
  OBVIOUS

\* So the parent gets both numbers from the status of a child, and of a 10 one signal more.
LEMMA CodeFacts == CodeInv => E!CodesDecode
<1> SUFFICES ASSUME CodeInv, NEW c \in Group, code[c] # 256, sig_count[c] < 25
             PROVE  /\ code[c] % 10 = (IF k[c] = 10 THEN 0 ELSE k[c])
                    /\ code[c] \div 10 = (IF k[c] = 10 THEN sig_count[c] + 1 ELSE sig_count[c])
                    /\ sig_count[c] >= k[c] /\ sig_count[c] <= E!Cardinality(E!Sent)
  BY DEF E!CodesDecode
<1>1. k[c] \in 0..10 /\ sig_count[c] \in Nat /\ Cardinality(E!Sent) \in Nat
  BY Drawn, SentIsFinite, FS_CardinalityType DEF CodeInv
<1>2. member[c] = "reaped" /\ code[c] = (sig_count[c] * 10 + k[c]) % 256
  BY DEF CodeInv
<1>3. sig_count[c] >= k[c] /\ sig_count[c] <= Cardinality(E!Sent)
  BY <1>1, <1>2 DEF CodeInv, Had
<1>4. /\ code[c] % 10 = (IF k[c] = 10 THEN 0 ELSE k[c])
      /\ code[c] \div 10 = (IF k[c] = 10 THEN sig_count[c] + 1 ELSE sig_count[c])
  <2>1. /\ (sig_count[c] * 10 + k[c]) % 256 = sig_count[c] * 10 + k[c]
        /\ (sig_count[c] * 10 + k[c]) % 10 = (IF k[c] = 10 THEN 0 ELSE k[c])
        /\ (sig_count[c] * 10 + k[c]) \div 10 = (IF k[c] = 10 THEN sig_count[c] + 1 ELSE sig_count[c])
    BY <1>1, TwoDigits
  <2> QED
    BY <1>2, <2>1, Zenon
<1> QED
  BY <1>3, <1>4, SameCardinality

-----------------------------------------------------------------------------
(* The roulette *)

\* The pipes of a player that has not been read in this game, of one whose amount has
\* been read, and of one that has bet.
Unread(p) ==
  \/ player[p] \in {"close", "decide", "amount", "gone"} /\ bets[p] = 0 /\ numbers[p] = 0
  \/ player[p] = "number" /\ bets[p] = 1 /\ numbers[p] = 0
  \/ player[p] = "await" /\ bets[p] = 2 /\ numbers[p] = 0
  \/ player[p] = "await" /\ bets[p] = 0 /\ numbers[p] = 1
Half(p) ==
  \/ player[p] = "number" /\ bets[p] = 0 /\ numbers[p] = 0
  \/ player[p] = "await" /\ bets[p] = 1 /\ numbers[p] = 0
HasBet(p) == player[p] = "await" /\ bets[p] = 0 /\ numbers[p] = 0

\* The croupier reads the seats in turn, and then sends to them in turn.
InGame ==
  /\ croupier = "fork" => open = seat + 1..Seats /\ \A p \in open : Unread(p)
  /\ croupier \in {"amount", "number"} =>
       \A p \in open : IF p < seat THEN HasBet(p)
                       ELSE IF p = seat /\ croupier = "number" THEN Half(p) ELSE Unread(p)
  /\ croupier = "number" => seat \in open
  /\ croupier = "draw" => seat = 1 /\ \A p \in open : HasBet(p)
  /\ croupier = "lucky" => \A p \in open : IF p < seat THEN Unread(p) ELSE HasBet(p)
  /\ croupier \in {"wait", "ended"} => open = {}

RouletteInv ==
  /\ croupier \in {"fork", "amount", "number", "draw", "lucky", "wait", "ended", "killed"}
  /\ seat \in C!Table /\ open \subseteq C!Table
  /\ player \in [C!Table -> {"none", "close", "decide", "amount", "number", "await", "gone", "killed"}]
  /\ bets \in [C!Table -> Nat] /\ numbers \in [C!Table -> Nat]
  /\ croupier = "fork" => \A p \in 1..seat : player[p] = "none" /\ bets[p] = 0 /\ numbers[p] = 0
  /\ InGame

\* Nobody plays at the start.
LEMMA RouletteInit == C!Init => RouletteInv
  BY ProcessAssumption DEF ProcessAssumption, C!Init, RouletteInv, InGame, C!Table

\* The croupier keeps it ...
LEMMA CroupierKeeps ==
  ASSUME RouletteInv, C!Croupier
  PROVE  RouletteInv'
<1>1. /\ Seats \in Nat \ {0} /\ seat \in 1..Seats /\ open \subseteq 1..Seats
      /\ player \in [1..Seats -> {"none", "close", "decide", "amount", "number", "await", "gone", "killed"}]
      /\ bets \in [1..Seats -> Nat] /\ numbers \in [1..Seats -> Nat]
  BY ProcessAssumption DEF ProcessAssumption, RouletteInv, C!Table
<1>2. ASSUME NEW p \in 1..Seats, player'[p] = player[p], bets'[p] = bets[p], numbers'[p] = numbers[p]
      PROVE  Unread(p)' = Unread(p) /\ Half(p)' = Half(p) /\ HasBet(p)' = HasBet(p)
  BY <1>2 DEF Unread, Half, HasBet
<1>3. CASE C!Fork
  <2>1. /\ croupier = "fork" /\ player' = [player EXCEPT ![seat] = "close"] /\ bets' = bets /\ numbers' = numbers
        /\ open' = open \cup {seat} /\ open = seat + 1..Seats
        /\ IF seat > 1 THEN seat' = seat - 1 /\ croupier' = "fork" ELSE seat' = 1 /\ croupier' = "amount"
    BY <1>3 DEF C!Fork, C!pipes, RouletteInv, InGame
  <2>2. open' = seat..Seats
    BY <1>1, <2>1
  <2>3. ASSUME NEW p \in open' PROVE Unread(p)'
    <3>1. CASE p = seat
      <4>1. bets[seat] = 0 /\ numbers[seat] = 0
        BY <1>1, <2>1 DEF RouletteInv
      <4> QED
        BY <1>1, <2>1, <3>1, <4>1 DEF Unread
    <3>2. CASE p # seat
      <4>1. p \in open /\ p \in 1..Seats
        BY <1>1, <2>1, <3>2
      <4>2. Unread(p)
        BY <2>1, <4>1 DEF RouletteInv, InGame
      <4> QED
        BY <1>1, <1>2, <2>1, <3>2, <4>1, <4>2
    <3> QED
      BY <3>1, <3>2
  <2>4. \A p \in 1..seat - 1 : player'[p] = "none" /\ bets'[p] = 0 /\ numbers'[p] = 0
    BY <1>1, <2>1 DEF RouletteInv
  <2>5. player' \in [1..Seats -> {"none", "close", "decide", "amount", "number", "await", "gone", "killed"}]
    BY <1>1, <2>1
  <2>6. CASE seat > 1
    BY <1>1, <2>1, <2>2, <2>3, <2>4, <2>5, <2>6 DEF RouletteInv, InGame, C!Table
  <2>7. CASE ~(seat > 1)
    <3>1. ASSUME NEW p \in open' PROVE ~(p < seat') /\ croupier' = "amount"
      BY <1>1, <2>1, <2>2, <2>7
    <3> QED
      BY <1>1, <2>1, <2>2, <2>3, <2>5, <2>7, <3>1 DEF RouletteInv, InGame, C!Table
  <2> QED
    BY <2>6, <2>7
<1>4. CASE C!ReadAmount
  <2>1. /\ croupier = "amount" /\ player' = player /\ numbers' = numbers
        /\ \A p \in open : IF p < seat THEN HasBet(p) ELSE Unread(p)
    BY <1>4 DEF C!ReadAmount, RouletteInv, InGame
  <2>2. CASE /\ bets' = bets /\ open' = open \ {seat}
             /\ IF seat < Seats THEN seat' = seat + 1 /\ croupier' = "amount" ELSE seat' = 1 /\ croupier' = "draw"
    <3>1. ASSUME NEW p \in open'
          PROVE  /\ p \in open /\ p \in 1..Seats /\ Unread(p)' = Unread(p) /\ HasBet(p)' = HasBet(p)
                 /\ p < seat \/ p > seat
      BY <1>1, <1>2, <2>1, <2>2
    <3>2. CASE seat < Seats
      <4>1. ASSUME NEW p \in open' PROVE IF p < seat' THEN HasBet(p)' ELSE Unread(p)'
        <5>1. IF p < seat THEN HasBet(p) ELSE Unread(p)
          BY <2>1, <3>1
        <5>2. p < seat <=> p < seat'
          BY <1>1, <2>2, <3>1, <3>2
        <5> QED
          BY <3>1, <5>1, <5>2
      <4> QED
        BY <1>1, <2>1, <2>2, <3>2, <4>1 DEF RouletteInv, InGame, C!Table
    <3>3. CASE ~(seat < Seats)
      <4>1. ASSUME NEW p \in open' PROVE HasBet(p)'
        <5>1. IF p < seat THEN HasBet(p) ELSE Unread(p)
          BY <2>1, <3>1
        <5>2. p < seat
          BY <1>1, <3>1, <3>3
        <5> QED
          BY <3>1, <5>1, <5>2
      <4> QED
        BY <1>1, <2>1, <2>2, <3>3, <4>1 DEF RouletteInv, InGame, C!Table
    <3> QED
      BY <3>2, <3>3
  <2>3. CASE /\ seat \in open /\ bets[seat] > 0 /\ bets' = [bets EXCEPT ![seat] = @ - 1]
             /\ croupier' = "number" /\ UNCHANGED <<seat, open>>
    <3>1. ASSUME NEW p \in open'
          PROVE  IF p < seat' THEN HasBet(p)' ELSE IF p = seat' THEN Half(p)' ELSE Unread(p)'
      <4>1. CASE p = seat
        <5>1. Unread(p) /\ p \in 1..Seats
          BY <1>1, <2>1, <2>3, <4>1
        <5>2. Half(p)'
          BY <1>1, <2>1, <2>3, <4>1, <5>1 DEF Unread, Half
        <5> QED
          BY <1>1, <2>3, <4>1, <5>2
      <4>2. CASE p # seat
        <5>1. p \in open /\ Unread(p)' = Unread(p) /\ HasBet(p)' = HasBet(p)
          BY <1>1, <1>2, <2>1, <2>3, <4>2
        <5> QED
          BY <2>1, <2>3, <4>2, <5>1
      <4> QED
        BY <4>1, <4>2
    <3>2. bets' \in [1..Seats -> Nat]
      BY <1>1, <2>3
    <3> QED
      BY <1>1, <2>1, <2>3, <3>1, <3>2 DEF RouletteInv, InGame, C!Table
  <2> QED
    BY <1>4, <2>2, <2>3 DEF C!ReadAmount, C!NextSeat
<1>5. CASE C!ReadNumber
  <2>1. /\ croupier = "number" /\ player' = player /\ numbers' = numbers /\ open' = open /\ seat \in open
        /\ \A p \in open : IF p < seat THEN HasBet(p) ELSE IF p = seat THEN Half(p) ELSE Unread(p)
        /\ bets[seat] > 0 /\ bets' = [bets EXCEPT ![seat] = @ - 1]
        /\ IF seat < Seats THEN seat' = seat + 1 /\ croupier' = "amount" ELSE seat' = 1 /\ croupier' = "draw"
    BY <1>5 DEF C!ReadNumber, C!NextSeat, RouletteInv, InGame
  <2>2. ASSUME NEW p \in open PROVE IF p <= seat THEN HasBet(p)' ELSE Unread(p)'
    <3>1. CASE p = seat
      <4>1. Half(p)
        BY <1>1, <2>1, <3>1
      <4>2. HasBet(p)'
        BY <1>1, <2>1, <3>1, <4>1 DEF HasBet, Half
      <4> QED
        BY <1>1, <3>1, <4>2
    <3>2. CASE p # seat
      <4>1. Unread(p)' = Unread(p) /\ HasBet(p)' = HasBet(p)
        BY <1>1, <1>2, <2>1, <3>2
      <4>2. p <= seat <=> p < seat
        BY <1>1, <3>2
      <4> QED
        BY <2>1, <3>2, <4>1, <4>2
    <3> QED
      BY <3>1, <3>2
  <2>3. bets' \in [1..Seats -> Nat]
    BY <1>1, <2>1
  <2>4. CASE seat < Seats
    <3>1. ASSUME NEW p \in open' PROVE IF p < seat' THEN HasBet(p)' ELSE Unread(p)'
      <4>1. p < seat' <=> p <= seat
        BY <1>1, <2>1, <2>4
      <4> QED
        BY <2>1, <2>2, <4>1
    <3> QED
      BY <1>1, <2>1, <2>3, <2>4, <3>1 DEF RouletteInv, InGame, C!Table
  <2>5. CASE ~(seat < Seats)
    <3>1. ASSUME NEW p \in open' PROVE HasBet(p)'
      <4>1. p <= seat
        BY <1>1, <2>1, <2>5
      <4> QED
        BY <2>1, <2>2, <4>1
    <3> QED
      BY <1>1, <2>1, <2>3, <2>5, <3>1 DEF RouletteInv, InGame, C!Table
  <2> QED
    BY <2>4, <2>5
<1>6. CASE C!Draw
  <2>1. /\ croupier = "draw" /\ croupier' = IF open = {} THEN "wait" ELSE "lucky"
        /\ UNCHANGED <<seat, open, player, bets, numbers>> /\ seat = 1 /\ \A p \in open : HasBet(p)
    BY <1>6 DEF C!Draw, C!pipes, RouletteInv, InGame
  <2>2. ASSUME NEW p \in open' PROVE HasBet(p)' /\ ~(p < seat')
    BY <1>1, <1>2, <2>1
  <2> QED
    BY <1>1, <2>1, <2>2 DEF RouletteInv, InGame, C!Table
<1>7. CASE C!SendLucky
  <2>1. /\ croupier = "lucky" /\ player' = player /\ bets' = bets /\ open' = open
        /\ \A p \in open : IF p < seat THEN Unread(p) ELSE HasBet(p)
        /\ numbers' = IF seat \in open THEN [numbers EXCEPT ![seat] = @ + 1] ELSE numbers
        /\ IF seat < Seats THEN seat' = seat + 1 /\ croupier' = "lucky" ELSE seat' = 1 /\ croupier' = "amount"
    BY <1>7 DEF C!SendLucky, C!NextSeat, RouletteInv, InGame
  <2>2. ASSUME NEW p \in open PROVE IF p <= seat THEN Unread(p)' ELSE HasBet(p)'
    <3>1. CASE p = seat
      <4>1. HasBet(p)
        BY <1>1, <2>1, <3>1
      <4>2. Unread(p)'
        BY <1>1, <2>1, <3>1, <4>1 DEF HasBet, Unread
      <4> QED
        BY <1>1, <3>1, <4>2
    <3>2. CASE p # seat
      <4>1. Unread(p)' = Unread(p) /\ HasBet(p)' = HasBet(p)
        BY <1>1, <1>2, <2>1, <3>2
      <4>2. p <= seat <=> p < seat
        BY <1>1, <3>2
      <4> QED
        BY <2>1, <3>2, <4>1, <4>2
    <3> QED
      BY <3>1, <3>2
  <2>3. numbers' \in [1..Seats -> Nat]
    BY <1>1, <2>1
  <2>4. CASE seat < Seats
    <3>1. ASSUME NEW p \in open' PROVE IF p < seat' THEN Unread(p)' ELSE HasBet(p)'
      <4>1. p < seat' <=> p <= seat
        BY <1>1, <2>1, <2>4
      <4> QED
        BY <2>1, <2>2, <4>1
    <3> QED
      BY <1>1, <2>1, <2>3, <2>4, <3>1 DEF RouletteInv, InGame, C!Table
  <2>5. CASE ~(seat < Seats)
    <3>1. ASSUME NEW p \in open' PROVE Unread(p)' /\ ~(p < seat')
      <4>1. p <= seat /\ ~(p < 1)
        BY <1>1, <2>1, <2>5
      <4> QED
        BY <2>1, <2>2, <2>5, <4>1
    <3> QED
      BY <1>1, <2>1, <2>3, <2>5, <3>1 DEF RouletteInv, InGame, C!Table
  <2> QED
    BY <2>4, <2>5
<1>8. CASE C!WaitPlayers
  <2>1. croupier = "wait" /\ croupier' = "ended" /\ UNCHANGED <<seat, open, player, bets, numbers>>
    BY <1>8 DEF C!WaitPlayers, C!pipes
  <2> QED
    BY <2>1 DEF RouletteInv, InGame, C!Table
<1> QED
  BY <1>3, <1>4, <1>5, <1>6, <1>7, <1>8, Zenon DEF C!Croupier

\* ... and so do the players, each of which has only its own pipes.
LEMMA PlayerKeeps ==
  ASSUME RouletteInv, NEW p \in C!Table, C!Player(p)
  PROVE  RouletteInv'
<1>1. /\ Seats \in Nat \ {0} /\ seat \in 1..Seats /\ open \subseteq 1..Seats /\ p \in 1..Seats
      /\ player \in [1..Seats -> {"none", "close", "decide", "amount", "number", "await", "gone", "killed"}]
      /\ bets \in [1..Seats -> Nat] /\ numbers \in [1..Seats -> Nat]
  BY ProcessAssumption DEF ProcessAssumption, RouletteInv, C!Table
<1>2. CASE C!AllKilled /\ UNCHANGED <<seat, open, bets, numbers>>
  <2>1. croupier' = "killed" /\ player' \in [1..Seats -> {"none", "close", "decide", "amount", "number", "await", "gone", "killed"}]
    BY <1>1, <1>2 DEF C!AllKilled, C!Table
  <2> QED
    BY <1>1, <1>2, <2>1 DEF RouletteInv, InGame, C!Table
<1>3. CASE /\ UNCHANGED <<croupier, seat, open>> /\ player[p] # "none"
           /\ player' \in [1..Seats -> {"none", "close", "decide", "amount", "number", "await", "gone", "killed"}]
           /\ bets' \in [1..Seats -> Nat] /\ numbers' \in [1..Seats -> Nat]
           /\ \A q \in 1..Seats : q # p => player'[q] = player[q] /\ bets'[q] = bets[q] /\ numbers'[q] = numbers[q]
           /\ (Unread(p) => Unread(p)') /\ (Half(p) => Half(p)') /\ (HasBet(p) => HasBet(p)')
  <2>1. \A q \in 1..Seats : (Unread(q) => Unread(q)') /\ (Half(q) => Half(q)') /\ (HasBet(q) => HasBet(q)')
    <3>1. ASSUME NEW q \in 1..Seats, q # p
          PROVE  (Unread(q) => Unread(q)') /\ (Half(q) => Half(q)') /\ (HasBet(q) => HasBet(q)')
      BY <1>3, <3>1 DEF Unread, Half, HasBet
    <3> QED
      BY <1>3, <3>1
  <2>2. croupier = "fork" => \A q \in 1..seat : player'[q] = "none" /\ bets'[q] = 0 /\ numbers'[q] = 0
    <3>1. ASSUME croupier = "fork", NEW q \in 1..seat
          PROVE  player[q] = "none" /\ bets[q] = 0 /\ numbers[q] = 0 /\ q # p
      BY <1>3, <3>1 DEF RouletteInv
    <3> QED
      BY <1>1, <1>3, <3>1
  <2> QED
    BY <1>1, <1>3, <2>1, <2>2 DEF RouletteInv, InGame, C!Table
<1> USE <1>1 DEF C!PlayerGoes, C!pipes
<1>4. CASE C!ClosePipes(p)
  BY <1>2, <1>3, <1>4 DEF C!ClosePipes, Unread, Half, HasBet
<1>5. CASE C!Decide(p)
  <2>1. /\ player[p] = "decide" /\ player'[p] \in {"gone", "amount"}
        /\ bets'[p] = bets[p] /\ numbers'[p] = numbers[p]
    BY <1>5 DEF C!Decide
  <2>2. (Unread(p) => Unread(p)') /\ (Half(p) => Half(p)') /\ (HasBet(p) => HasBet(p)')
    BY <2>1 DEF Unread, Half, HasBet
  <2> QED
    BY <1>3, <1>5, <2>1, <2>2 DEF C!Decide
<1>6. CASE C!Bet(p)
  <2>1. /\ \/ player[p] = "amount" /\ player'[p] = "number"
           \/ player[p] = "number" /\ player'[p] = "await"
        /\ bets'[p] = bets[p] + 1 /\ numbers'[p] = numbers[p] /\ bets[p] \in Nat
    BY <1>6 DEF C!Bet
  <2>2. (Unread(p) => Unread(p)') /\ (Half(p) => Half(p)') /\ (HasBet(p) => HasBet(p)')
    BY <2>1 DEF Unread, Half, HasBet
  <2>3. bets' \in [1..Seats -> Nat] /\ \A q \in 1..Seats : q # p => bets'[q] = bets[q]
    BY <1>6 DEF C!Bet
  <2> QED
    BY <1>3, <1>6, <2>1, <2>2, <2>3 DEF C!Bet
<1>7. CASE C!ReadLucky(p)
  <2>1. /\ numbers[p] > 0 /\ numbers[p] \in Nat /\ numbers'[p] = numbers[p] - 1 /\ bets'[p] = bets[p]
        /\ player[p] = "await" /\ player'[p] \in {"decide", "gone"}
    BY <1>7 DEF C!ReadLucky
  <2>2. (Unread(p) => Unread(p)') /\ (Half(p) => Half(p)') /\ (HasBet(p) => HasBet(p)')
    BY <2>1 DEF Unread, Half, HasBet
  <2>3. numbers' \in [1..Seats -> Nat] /\ \A q \in 1..Seats : q # p => numbers'[q] = numbers[q]
    BY <1>7, <2>1 DEF C!ReadLucky
  <2> QED
    BY <1>3, <1>7, <2>1, <2>2, <2>3 DEF C!ReadLucky
<1> QED
  BY <1>4, <1>5, <1>6, <1>7, Zenon DEF C!Player

\* The other programs do not touch it.
LEMMA RouletteFrame == RouletteInv /\ UNCHANGED rouletteVars => RouletteInv'
  BY DEF rouletteVars, RouletteInv, InGame, Unread, Half, HasBet, C!Table

\* The number is sent to those that have bet.
LEMMA RouletteFacts == RouletteInv => C!LuckyForBets
<1> SUFFICES ASSUME RouletteInv, croupier = "lucky", NEW p \in open, p >= seat
             PROVE  HasBet(p)
  BY DEF C!LuckyForBets, HasBet
<1>1. ~(p < seat)
  <2>1. p \in C!Table /\ seat \in C!Table /\ Seats \in Nat
    BY ProcessAssumption DEF ProcessAssumption, RouletteInv
  <2> QED
    BY <2>1 DEF C!Table
<1> QED
  BY <1>1 DEF RouletteInv, InGame

-----------------------------------------------------------------------------
(* The frames *)

\* The pipe holds the frames of q, of each its header and its data; o bytes come before.
Holds(q, o) ==
  /\ Len(R) = 2 * Len(q) + o
  /\ \A i \in 1..Len(q) : R[2 * i - 1 + o] = <<"header", q[i]>> /\ R[2 * i + o] = <<"data", q[i]>>

\* The data of the frame whose header has been read, and whole frames after it.
FramesInv ==
  /\ par \in {"test", "write", "clear", "read", "blocked", "data", "ended"}
  /\ kid \in [Kids -> {"read", "answer", "gone"}] /\ fds \subseteq Kids
  /\ \A c \in Kids \ fds : kid[c] = "gone"
  /\ R \in Seq({"header", "data"} \X Kids)
  /\ \E q \in Seq(Kids) : Holds(q, IF par = "data" THEN 1 ELSE 0)
  /\ par = "data" => R[1] = <<"data", header>>

\* No frame has been written at the start.
LEMMA FramesInit == F!Init => FramesInv
<1> SUFFICES ASSUME F!Init PROVE FramesInv
  OBVIOUS
<1>1. chosen \in Kids
  BY ProcessAssumption DEF ProcessAssumption, F!Init
<1>2. <<>> \in Seq(Kids) /\ Holds(<<>>, 0)
  BY DEF F!Init, Holds
<1>3. R \in Seq({"header", "data"} \X Kids)
  BY DEF F!Init
<1> QED
  BY <1>1, <1>2, <1>3 DEF F!Init, FramesInv

\* A frame is written at the end ...
LEMMA FrameWritten ==
  ASSUME R \in Seq({"header", "data"} \X Kids), NEW o \in 0..1, NEW q \in Seq(Kids), Holds(q, o),
         NEW c \in Kids, R' = R \o <<<<"header", c>>, <<"data", c>>>>
  PROVE  /\ R' \in Seq({"header", "data"} \X Kids)
         /\ Append(q, c) \in Seq(Kids) /\ Holds(Append(q, c), o)'
         /\ R # <<>> => R'[1] = R[1]
<1> DEFINE f == <<<<"header", c>>, <<"data", c>>>>
<1>1. f \in Seq({"header", "data"} \X Kids) /\ Len(f) = 2 /\ f[1] = <<"header", c>> /\ f[2] = <<"data", c>>
  OBVIOUS
<1> HIDE DEF f
<1>2. /\ R' \in Seq({"header", "data"} \X Kids) /\ Len(R') = Len(R) + 2
      /\ \A i \in 1..Len(R) : R'[i] = R[i]
      /\ R'[Len(R) + 1] = <<"header", c>> /\ R'[Len(R) + 2] = <<"data", c>>
  BY <1>1 DEF f
<1>3. /\ Append(q, c) \in Seq(Kids) /\ Len(Append(q, c)) = Len(q) + 1 /\ Append(q, c)[Len(q) + 1] = c
      /\ \A i \in 1..Len(q) : Append(q, c)[i] = q[i]
  OBVIOUS
<1>4. Len(R) = 2 * Len(q) + o /\ Len(q) \in Nat /\ Len(R) \in Nat
  BY DEF Holds
<1>5. ASSUME NEW i \in 1..Len(q)
      PROVE  R'[2 * i - 1 + o] = <<"header", q[i]>> /\ R'[2 * i + o] = <<"data", q[i]>>
  <2>1. 2 * i - 1 + o \in 1..Len(R) /\ 2 * i + o \in 1..Len(R)
    BY <1>4
  <2> QED
    BY <1>2, <2>1 DEF Holds
<1>6. /\ 2 * (Len(q) + 1) - 1 + o = Len(R) + 1 /\ 2 * (Len(q) + 1) + o = Len(R) + 2
  BY <1>4
<1>7. Holds(Append(q, c), o)'
  <2>1. Len(R') = 2 * (Len(q) + 1) + o
    BY <1>2, <1>4
  <2>2. ASSUME NEW i \in 1..Len(q) + 1
        PROVE  /\ R'[2 * i - 1 + o] = <<"header", Append(q, c)[i]>>
               /\ R'[2 * i + o] = <<"data", Append(q, c)[i]>>
    <3>1. CASE i \in 1..Len(q)
      BY <1>3, <1>5, <3>1
    <3>2. CASE i = Len(q) + 1
      BY <1>2, <1>3, <1>6, <3>2
    <3> QED
      BY <1>4, <3>1, <3>2
  <2> QED
    BY <1>3, <2>1, <2>2 DEF Holds
<1>8. R # <<>> => R'[1] = R[1]
  BY <1>2
<1> QED
  BY <1>2, <1>3, <1>7, <1>8

\* ... read at its header ...
LEMMA HeaderRead ==
  ASSUME R \in Seq({"header", "data"} \X Kids), NEW q \in Seq(Kids), Holds(q, 0),
         R # <<>>, R' = Tail(R)
  PROVE  /\ R' \in Seq({"header", "data"} \X Kids) /\ q # <<>> /\ Head(R) = <<"header", Head(q)>>
         /\ Holds(Tail(q), 1)' /\ R'[1] = <<"data", Head(q)>>
<1>1. Len(R) = 2 * Len(q) /\ Len(R) \in Nat \ {0} /\ Len(q) \in Nat
  BY DEF Holds
<1>2. Len(q) >= 1 /\ q # <<>>
  BY <1>1
<1>3. /\ R' \in Seq({"header", "data"} \X Kids) /\ Len(R') = Len(R) - 1
      /\ \A i \in 1..Len(R) - 1 : R'[i] = R[i + 1]
  BY <1>1
<1>4. /\ Tail(q) \in Seq(Kids) /\ Len(Tail(q)) = Len(q) - 1 /\ \A i \in 1..Len(q) - 1 : Tail(q)[i] = q[i + 1]
      /\ Head(q) = q[1] /\ Head(R) = R[1]
  BY <1>1, <1>2
<1>5. R[1] = <<"header", q[1]>> /\ R[2] = <<"data", q[1]>>
  <2>1. 1 \in 1..Len(q) /\ 2 * 1 - 1 + 0 = 1 /\ 2 * 1 + 0 = 2
    BY <1>2
  <2> QED
    BY <2>1 DEF Holds
<1>6. R'[1] = R[2]
  <2>1. 1 \in 1..Len(R) - 1 /\ 1 + 1 = 2
    BY <1>1, <1>2
  <2> QED
    BY <1>3, <2>1
<1>7. ASSUME NEW i \in 1..Len(q) - 1
      PROVE  R'[2 * i - 1 + 1] = <<"header", Tail(q)[i]>> /\ R'[2 * i + 1] = <<"data", Tail(q)[i]>>
  <2>1. /\ i + 1 \in 1..Len(q) /\ 2 * i - 1 + 1 \in 1..Len(R) - 1 /\ 2 * i + 1 \in 1..Len(R) - 1
        /\ (2 * i - 1 + 1) + 1 = 2 * (i + 1) - 1 + 0 /\ (2 * i + 1) + 1 = 2 * (i + 1) + 0
    BY <1>1
  <2>2. R[2 * (i + 1) - 1 + 0] = <<"header", q[i + 1]>> /\ R[2 * (i + 1) + 0] = <<"data", q[i + 1]>>
    BY <2>1 DEF Holds
  <2>3. R'[2 * i - 1 + 1] = R[(2 * i - 1 + 1) + 1] /\ R'[2 * i + 1] = R[(2 * i + 1) + 1]
    BY <1>3, <2>1
  <2>4. Tail(q)[i] = q[i + 1]
    BY <1>4
  <2> QED
    BY <2>1, <2>2, <2>3, <2>4
<1>8. Holds(Tail(q), 1)'
  <2>1. Len(R') = 2 * (Len(q) - 1) + 1
    BY <1>1, <1>3
  <2> QED
    BY <1>4, <1>7, <2>1 DEF Holds
<1> QED
  BY <1>2, <1>3, <1>4, <1>5, <1>6, <1>8

\* ... and at its data.
LEMMA DataRead ==
  ASSUME R \in Seq({"header", "data"} \X Kids), NEW q \in Seq(Kids), Holds(q, 1),
         R # <<>>, R' = Tail(R)
  PROVE  R' \in Seq({"header", "data"} \X Kids) /\ Holds(q, 0)'
<1>1. Len(R) = 2 * Len(q) + 1 /\ Len(R) \in Nat \ {0} /\ Len(q) \in Nat
  BY DEF Holds
<1>2. /\ R' \in Seq({"header", "data"} \X Kids) /\ Len(R') = Len(R) - 1
      /\ \A i \in 1..Len(R) - 1 : R'[i] = R[i + 1]
  BY <1>1
<1>3. ASSUME NEW i \in 1..Len(q)
      PROVE  R'[2 * i - 1 + 0] = <<"header", q[i]>> /\ R'[2 * i + 0] = <<"data", q[i]>>
  <2>1. /\ 2 * i - 1 + 0 \in 1..Len(R) - 1 /\ 2 * i + 0 \in 1..Len(R) - 1
        /\ (2 * i - 1 + 0) + 1 = 2 * i - 1 + 1 /\ (2 * i + 0) + 1 = 2 * i + 1
    BY <1>1
  <2>2. R[2 * i - 1 + 1] = <<"header", q[i]>> /\ R[2 * i + 1] = <<"data", q[i]>>
    BY DEF Holds
  <2>3. R'[2 * i - 1 + 0] = R[(2 * i - 1 + 0) + 1] /\ R'[2 * i + 0] = R[(2 * i + 0) + 1]
    BY <1>2, <2>1
  <2> QED
    BY <2>1, <2>2, <2>3
<1>4. Len(R') = 2 * Len(q) + 0
  BY <1>1, <1>2
<1> QED
  BY <1>2, <1>3, <1>4 DEF Holds

\* Every step keeps it.
LEMMA FramesStep ==
  ASSUME FramesInv, F!Next
  PROVE  FramesInv'
<1>1. /\ par \in {"test", "write", "clear", "read", "blocked", "data", "ended"}
      /\ kid \in [Kids -> {"read", "answer", "gone"}] /\ fds \subseteq Kids
      /\ R \in Seq({"header", "data"} \X Kids)
  BY DEF FramesInv
<1>2. PICK q \in Seq(Kids) : Holds(q, IF par = "data" THEN 1 ELSE 0)
  BY DEF FramesInv
<1>3. ASSUME R' = R, par = "data" <=> par' = "data"
      PROVE  Holds(q, IF par = "data" THEN 1 ELSE 0)'
  BY <1>2, <1>3 DEF Holds
<1>4. CASE F!Interrupt
  <2>1. /\ par' = IF par = "blocked" THEN "test" ELSE par
        /\ UNCHANGED <<fds, header, kid, R>>
    BY <1>4 DEF F!Interrupt, F!Woken
  <2> QED
    BY <1>1, <1>3, <2>1 DEF FramesInv
<1>5. CASE F!Test \/ F!Write \/ F!Clear
  <2>1. /\ par \in {"test", "write", "clear"} /\ par' \in {"write", "clear", "read"}
        /\ UNCHANGED <<header, kid, R>>
    BY <1>5 DEF F!Test, F!Write, F!Clear, F!ParGoes, F!kids
  <2>2. fds' \subseteq Kids /\ \A c \in Kids \ fds' : kid'[c] = "gone"
    BY <1>1, <1>5 DEF FramesInv, F!Test, F!Write, F!Clear, F!ParGoes, F!kids
  <2> QED
    BY <1>1, <1>3, <2>1, <2>2 DEF FramesInv
<1>6. CASE F!ReadHeader
  <2>1. UNCHANGED <<fds, kid>>
    BY <1>6 DEF F!ReadHeader, F!kids
  <2>2. CASE R = <<>>
    <3>1. par \in {"read", "blocked"} /\ par' \in {"blocked", "ended"} /\ UNCHANGED <<header, R>>
      BY <1>6, <2>2 DEF F!ReadHeader, F!ParGoes
    <3> QED
      BY <1>1, <1>3, <2>1, <3>1 DEF FramesInv
  <2>3. CASE R # <<>>
    <3>1. /\ par \in {"read", "blocked"} /\ par' = "data"
          /\ header' = Head(R)[2] /\ R' = Tail(R)
      BY <1>6, <2>3 DEF F!ReadHeader, F!ParGoes
    <3>2. Holds(q, 0)
      BY <1>2, <3>1
    <3>3. /\ R' \in Seq({"header", "data"} \X Kids) /\ q # <<>> /\ Head(R) = <<"header", Head(q)>>
          /\ Holds(Tail(q), 1)' /\ R'[1] = <<"data", Head(q)>>
      BY <1>1, <2>3, <3>1, <3>2, HeaderRead, Zenon
    <3>4. header' = Head(q) /\ Tail(q) \in Seq(Kids)
      BY <3>1, <3>3
    <3>5. Holds(Tail(q), IF par = "data" THEN 1 ELSE 0)'
      BY <3>1, <3>3 DEF Holds
    <3> QED
      BY <1>1, <2>1, <3>1, <3>3, <3>4, <3>5 DEF FramesInv
  <2> QED
    BY <2>2, <2>3
<1>7. CASE F!ReadData
  <2>1. R # <<>> /\ par = "data" /\ par' = "test" /\ R' = Tail(R) /\ UNCHANGED <<fds, header, kid>>
    BY <1>7 DEF F!ReadData, F!ParGoes, F!kids
  <2>2. Holds(q, 1)
    BY <1>2, <2>1
  <2>3. R' \in Seq({"header", "data"} \X Kids) /\ Holds(q, 0)'
    BY <1>1, <2>1, <2>2, DataRead, Zenon
  <2>4. Holds(q, IF par = "data" THEN 1 ELSE 0)'
    BY <2>1, <2>3 DEF Holds
  <2> QED
    BY <1>1, <2>1, <2>3, <2>4 DEF FramesInv
<1>8. ASSUME NEW c \in Kids, F!Handle(c) \/ F!ReadLetter(c)
      PROVE  FramesInv'
  <2>1. /\ par' \in {par, IF par = "blocked" THEN "test" ELSE par} /\ UNCHANGED <<fds, header, R>>
    BY <1>8 DEF F!Handle, F!ReadLetter, F!Woken
  <2>2. /\ kid' \in [Kids -> {"read", "answer", "gone"}]
        /\ \A d \in Kids : kid[d] = "gone" => kid'[d] = "gone"
    BY <1>1, <1>8 DEF F!Handle, F!ReadLetter
  <2> QED
    BY <1>1, <1>3, <2>1, <2>2 DEF FramesInv
<1>9. ASSUME NEW c \in Kids, F!Answer(c)
      PROVE  FramesInv'
  <2>1. /\ R' = R \o <<<<"header", c>>, <<"data", c>>>> /\ UNCHANGED <<par, fds, header>>
        /\ kid[c] = "answer" /\ kid' = [kid EXCEPT ![c] = "read"]
    BY <1>9 DEF F!Answer
  <2>2. CASE par = "data"
    <3>1. Holds(q, 1) /\ 1 \in 0..1
      BY <1>2, <2>2
    <3>2. /\ R' \in Seq({"header", "data"} \X Kids)
          /\ Append(q, c) \in Seq(Kids) /\ Holds(Append(q, c), 1)'
          /\ R # <<>> => R'[1] = R[1]
      BY <1>1, <2>1, <3>1, FrameWritten, Zenon
    <3>3. R # <<>>
      BY <1>1, <3>1 DEF Holds
    <3>4. Holds(Append(q, c), IF par = "data" THEN 1 ELSE 0)'
      BY <2>1, <2>2, <3>2 DEF Holds
    <3> QED
      BY <1>1, <2>1, <2>2, <3>2, <3>3, <3>4 DEF FramesInv
  <2>3. CASE par # "data"
    <3>1. Holds(q, 0) /\ 0 \in 0..1
      BY <1>2, <2>3
    <3>2. /\ R' \in Seq({"header", "data"} \X Kids)
          /\ Append(q, c) \in Seq(Kids) /\ Holds(Append(q, c), 0)'
      BY <1>1, <2>1, <3>1, FrameWritten, Zenon
    <3>4. Holds(Append(q, c), IF par = "data" THEN 1 ELSE 0)'
      BY <2>1, <2>3, <3>2 DEF Holds
    <3> QED
      BY <1>1, <2>1, <2>3, <3>2, <3>4 DEF FramesInv
  <2> QED
    BY <2>2, <2>3
<1> QED
  BY <1>4, <1>5, <1>6, <1>7, <1>8, <1>9, Zenon DEF F!Next, F!ParentStep, F!Kid

\* The other programs do not touch it.
LEMMA FramesFrame == FramesInv /\ UNCHANGED frameVars => FramesInv'
  BY DEF frameVars, FramesInv, Holds

\* So the data that is read is that of the header.
LEMMA FramesFacts == FramesInv => F!FramesWhole
<1> SUFFICES ASSUME FramesInv, par = "data"
             PROVE  R # <<>> /\ Head(R) = <<"data", header>>
  BY DEF F!FramesWhole, FramesInv
<1>1. PICK q \in Seq(Kids) : Holds(q, 1)
  BY DEF FramesInv
<1>2. Len(R) = 2 * Len(q) + 1 /\ Len(q) \in Nat /\ R \in Seq({"header", "data"} \X Kids)
  BY <1>1 DEF Holds, FramesInv
<1>3. R # <<>> /\ Head(R) = R[1]
  BY <1>2
<1> QED
  BY <1>3 DEF FramesInv

-----------------------------------------------------------------------------
(* The grading *)

\* Students that have been told "done", and those that have not been called.
Told(s) ==
  \/ tea = "finish" /\ s < asked
  \/ tea = "final" /\ s <= asked
  \/ tea \in {"wait", "ended", "sigpipe"}
Uncalled(s) ==
  \/ tea = "ask" /\ s >= asked
  \/ tea = "roll" /\ s > asked

\* The first letter of a student is one it waits for, or "done" as all the others are.
LettersFit(s) ==
  /\ \A i \in 2..Len(letters[s]) : letters[s][i] = "done"
  /\ letters[s] # <<>> => /\ letters[s][1] = "roll" => stu[s] = "call"
                          /\ letters[s][1] = "1" => stu[s] = "await"
  /\ ~Told(s) => Len(letters[s]) <= 1 /\ (letters[s] # <<>> => letters[s][1] # "done")
  /\ Uncalled(s) => letters[s] = <<>> /\ stu[s] = "call"

\* A student with a result on the desk has one there, and waits without a letter.
Waits ==
  \A i \in 1..Len(desk) : desk[i].kind = "result" =>
    /\ stu[desk[i].of] = "await" /\ letters[desk[i].of] = <<>>
    /\ \A j \in 1..Len(desk) : desk[j].kind = "result" /\ desk[j].of = desk[i].of => j = i

\* The students that have, or are told, the last grade.
HasOne(s) == letters[s] # <<>> /\ letters[s][1] = "1"
Graded == {s \in 1..Students : stage[s] = Stages \/ (stage[s] = Stages - 1 /\ HasOne(s))}

GradingTypes ==
  /\ tea \in {"ask", "roll", "test", "grade", "finish", "final", "wait", "ended", "sigpipe"}
  /\ asked \in 1..Students + 1 /\ done \in Nat
  /\ tea \in {"ask", "roll", "finish", "final"} => asked <= Students
  /\ tea \in {"test", "grade"} => asked = 1
  /\ stu \in [1..Students -> {"call", "here", "work", "await", "final", "leave", "gone", "killed"}]
  /\ stage \in [1..Students -> 0..Stages]
  /\ letters \in [1..Students -> Seq({"roll", "1", "done"})] /\ desk \in Seq(G!Message)

\* While the group is not killed.
GradingInv ==
  \/ tea = "killed"
  \/ /\ GradingTypes
     /\ \A s \in 1..Students : LettersFit(s)
     /\ \A s \in 1..Students : stu[s] \in {"call", "here", "work", "await"} => stage[s] < Stages
     /\ tea \in {"ask", "roll", "test", "grade"} => Waits
     /\ done = Cardinality(Graded)

\* Nobody has been called at the start.
LEMMA GradingInit == G!Init => GradingInv
<1> SUFFICES ASSUME G!Init PROVE GradingInv
  OBVIOUS
<1>1. Students \in Nat \ {0} /\ Stages \in Nat \ {0}
  BY ProcessAssumption DEF ProcessAssumption
<1>2. GradingTypes
  BY <1>1 DEF G!Init, GradingTypes, G!Class
<1>3. \A s \in 1..Students : letters[s] = <<>> /\ stu[s] = "call" /\ stage[s] = 0
  BY DEF G!Init, G!Class
<1>4. \A s \in 1..Students : LettersFit(s)
  BY <1>3 DEF LettersFit
<1>5. Waits
  BY DEF G!Init, Waits
<1>6. Graded = {}
  BY <1>1, <1>3 DEF Graded, HasOne
<1>7. done = Cardinality(Graded)
  BY <1>6, FS_EmptySet DEF G!Init
<1> QED
  BY <1>1, <1>2, <1>3, <1>4, <1>5, <1>7 DEF GradingInv

\* A message is of a student.
LEMMA OfStudents ==
  ASSUME desk \in Seq(G!Message), NEW i \in 1..Len(desk)
  PROVE  desk[i].of \in 1..Students /\ desk[i] \in G!Message
<1>1. desk[i] \in G!Message
  OBVIOUS
<1> QED
  BY <1>1 DEF G!Message, G!Class

\* The students are finitely many.
LEMMA GradedIsFinite == IsFiniteSet(Graded)
<1>1. IsFiniteSet(1..Students)
  BY ProcessAssumption, FS_Interval DEF ProcessAssumption
<1>2. Graded \subseteq 1..Students
  BY DEF Graded
<1> QED
  BY <1>1, <1>2, FS_Subset

\* When students, letters and stages stay, what the letters fit does not change.
LEMMA LettersKept ==
  ASSUME NEW s \in 1..Students, LettersFit(s), letters'[s] = letters[s], stu'[s] = stu[s],
         Told(s) => Told(s)', Uncalled(s)' => Uncalled(s)
  PROVE  LettersFit(s)'
  BY DEF LettersFit

\* A message that is taken from the desk.
LEMMA DeskTaken ==
  ASSUME desk \in Seq(G!Message), desk # <<>>, desk' = Tail(desk)
  PROVE  /\ desk' \in Seq(G!Message) /\ Head(desk) = desk[1] /\ 1 \in 1..Len(desk)
         /\ \A i \in 1..Len(desk') : i + 1 \in 2..Len(desk) /\ desk'[i] = desk[i + 1]
<1>1. Len(desk) \in Nat \ {0}
  OBVIOUS
<1> QED
  BY <1>1

\* The results that are left still wait.
LEMMA WaitsAfter ==
  ASSUME Waits, desk \in Seq(G!Message), desk # <<>>, desk' = Tail(desk), UNCHANGED <<stu, letters>>
  PROVE  Waits'
<1>1. \A i \in 1..Len(desk') : i + 1 \in 1..Len(desk) /\ desk'[i] = desk[i + 1]
  BY DeskTaken
<1>2. ASSUME NEW i \in 1..Len(desk'), desk'[i].kind = "result"
      PROVE  /\ stu'[desk'[i].of] = "await" /\ letters'[desk'[i].of] = <<>>
             /\ \A j \in 1..Len(desk') : desk'[j].kind = "result" /\ desk'[j].of = desk'[i].of => j = i
  <2>1. i + 1 \in 1..Len(desk) /\ desk[i + 1] = desk'[i]
    BY <1>1
  <2>2. stu[desk'[i].of] = "await" /\ letters[desk'[i].of] = <<>>
    BY <1>2, <2>1 DEF Waits
  <2>3. ASSUME NEW j \in 1..Len(desk'), desk'[j].kind = "result", desk'[j].of = desk'[i].of
        PROVE  j = i
    <3>1. j + 1 \in 1..Len(desk) /\ desk[j + 1] = desk'[j]
      BY <1>1
    <3>2. j + 1 = i + 1
      BY <1>2, <2>1, <2>3, <3>1, Zenon DEF Waits
    <3> QED
      BY <3>2
  <2> QED
    BY <2>2, <2>3
<1> QED
  BY <1>2 DEF Waits

\* The teacher keeps it: in the roll call and while it grades ...
LEMMA TeacherGrades ==
  ASSUME GradingInv, tea # "killed", G!Ask \/ G!RollCall \/ G!Test \/ G!Alarm \/ G!Grade
  PROVE  GradingInv'
<1>1. /\ Students \in Nat \ {0} /\ Stages \in Nat \ {0} /\ asked \in 1..Students + 1 /\ done \in Nat
      /\ GradingTypes /\ done = Cardinality(Graded)
      /\ stu \in [1..Students -> {"call", "here", "work", "await", "final", "leave", "gone", "killed"}]
      /\ stage \in [1..Students -> 0..Stages]
      /\ letters \in [1..Students -> Seq({"roll", "1", "done"})] /\ desk \in Seq(G!Message)
  BY ProcessAssumption DEF ProcessAssumption, GradingInv, GradingTypes
<1>2. /\ \A s \in 1..Students : LettersFit(s)
      /\ \A s \in 1..Students : stu[s] \in {"call", "here", "work", "await"} => stage[s] < Stages
  BY DEF GradingInv
<1>3. CASE G!Ask
  <2>1. /\ tea = "ask" /\ tea' = "roll" /\ letters' = [letters EXCEPT ![asked] = Append(@, "roll")]
        /\ UNCHANGED <<asked, done, stu, stage, desk>> /\ asked \in 1..Students /\ Waits
    BY <1>1, <1>3 DEF G!Ask, G!TeaGoes, G!Posts, GradingTypes, GradingInv
  <2>2. letters[asked] = <<>> /\ stu[asked] = "call"
    BY <1>2, <2>1 DEF LettersFit, Uncalled
  <2>3. letters'[asked] = <<"roll">> /\ \A s \in 1..Students : s # asked => letters'[s] = letters[s]
    BY <1>1, <2>1, <2>2
  <2>4. letters' \in [1..Students -> Seq({"roll", "1", "done"})]
    BY <1>1, <2>1
  <2>5. ASSUME NEW s \in 1..Students PROVE LettersFit(s)'
    <3>1. ~Told(s)' /\ (Uncalled(s)' => Uncalled(s) /\ s # asked) /\ ~Told(s)
      BY <1>1, <2>1 DEF Told, Uncalled
    <3>2. CASE s = asked
      <4>1. letters'[s] = <<"roll">> /\ stu'[s] = "call"
        BY <2>1, <2>2, <2>3, <3>2
      <4> QED
        BY <3>1, <3>2, <4>1 DEF LettersFit
    <3>3. CASE s # asked
      BY <1>2, <2>1, <2>3, <3>1, <3>3, LettersKept
    <3> QED
      BY <3>2, <3>3
  <2>6. Waits'
    <3>1. ASSUME NEW i \in 1..Len(desk), desk[i].kind = "result"
          PROVE  letters'[desk[i].of] = letters[desk[i].of]
      BY <1>1, <2>1, <2>2, <2>3, <3>1, OfStudents DEF Waits
    <3> QED
      BY <2>1, <3>1 DEF Waits
  <2>7. Graded' = Graded
    <3>1. \A s \in 1..Students : HasOne(s)' <=> HasOne(s)
      BY <2>1, <2>2, <2>3 DEF HasOne
    <3> QED
      BY <2>1, <3>1 DEF Graded
  <2>8. GradingTypes'
    BY <1>1, <2>1, <2>4 DEF GradingTypes
  <2> QED
    BY <1>1, <1>2, <2>1, <2>5, <2>6, <2>7, <2>8 DEF GradingInv
<1>4. CASE G!Test \/ G!Alarm
  <2>1. /\ UNCHANGED <<asked, done, stu, stage, desk, letters>> /\ asked = 1 /\ Waits
        /\ tea \in {"test", "grade"} /\ tea' \in {"test", "grade", "finish"}
    BY <1>1, <1>4 DEF G!Test, G!Alarm, G!TeaGoes, GradingTypes, GradingInv
  <2>2. ASSUME NEW s \in 1..Students PROVE LettersFit(s)'
    <3>1. ~Told(s) /\ ~Uncalled(s)'
      BY <2>1 DEF Told, Uncalled
    <3> QED
      BY <1>2, <2>1, <3>1, LettersKept
  <2>3. Graded' = Graded /\ Waits'
    BY <2>1 DEF Graded, HasOne, Waits
  <2>4. GradingTypes'
    BY <1>1, <2>1 DEF GradingTypes
  <2> QED
    BY <1>1, <1>2, <2>1, <2>2, <2>3, <2>4 DEF GradingInv
<1>5. CASE /\ desk # <<>> /\ desk' = Tail(desk) /\ UNCHANGED <<done, stu, stage, letters>>
           /\ \/ tea = "roll" /\ tea' = (IF asked = Students THEN "test" ELSE "ask")
                 /\ asked' = (IF asked = Students THEN 1 ELSE asked + 1)
              \/ tea = "grade" /\ tea' = "test" /\ asked' = asked
  <2>1. Waits
    BY <1>5 DEF GradingInv
  <2>2. Waits' /\ desk' \in Seq(G!Message)
    BY <1>1, <1>5, <2>1, WaitsAfter, DeskTaken
  <2>3. GradingTypes'
    <3>1. /\ tea' \in {"ask", "test"} /\ asked' \in 1..Students + 1 /\ asked' <= Students
          /\ tea' = "test" => asked' = 1
      <4>1. CASE tea = "roll" /\ asked = Students
        BY <1>1, <1>5, <4>1 DEF GradingTypes
      <4>2. CASE tea = "roll" /\ asked # Students
        <5>1. asked <= Students /\ asked \in Nat \ {0}
          BY <1>1, <4>2 DEF GradingTypes
        <5>2. tea' = "ask" /\ asked' = asked + 1
          BY <1>5, <4>2
        <5> QED
          BY <1>1, <4>2, <5>1, <5>2
      <4>3. CASE tea = "grade"
        BY <1>1, <1>5, <4>3 DEF GradingTypes
      <4> QED
        BY <1>5, <4>1, <4>2, <4>3
    <3>2. UNCHANGED <<done, stu, stage, letters>> /\ GradingTypes
      BY <1>1, <1>5
    <3> QED
      BY <2>2, <3>1, <3>2 DEF GradingTypes
  <2>4. ASSUME NEW s \in 1..Students PROVE LettersFit(s)'
    <3>1. ~Told(s) /\ (Uncalled(s)' => Uncalled(s))
      BY <1>1, <1>5 DEF Told, Uncalled
    <3> QED
      BY <1>2, <1>5, <3>1, LettersKept
  <2>5. Graded' = Graded
    BY <1>5 DEF Graded, HasOne
  <2> QED
    BY <1>1, <1>2, <1>5, <2>2, <2>3, <2>4, <2>5 DEF GradingInv
<1>6. CASE G!RollCall
  BY <1>5, <1>6 DEF G!RollCall, G!TeaGoes
<1>7. CASE G!Grade
  <2> DEFINE m == Head(desk)
             s0 == m.of
  <2>1. CASE G!AllKilled
    BY <2>1 DEF G!AllKilled, GradingInv
  <2>2. CASE tea' = "test" /\ UNCHANGED <<done, letters, stu>>
    BY <1>5, <1>7, <2>2 DEF G!Grade
  <2>3. CASE /\ m.kind = "result" /\ G!Posts(s0, "1")
             /\ done' = IF stage[s0] + 1 = Stages THEN done + 1 ELSE done
             /\ tea' = IF done' = Students THEN "finish" ELSE "test"
             /\ UNCHANGED stu
    <3>1. /\ tea = "grade" /\ desk # <<>> /\ desk' = Tail(desk) /\ UNCHANGED <<asked, stage>> /\ Waits
          /\ asked = 1 /\ tea' \in {"finish", "test"}
      BY <1>1, <1>7, <2>3 DEF G!Grade, GradingInv, GradingTypes
    <3>2. /\ desk' \in Seq(G!Message) /\ m = desk[1] /\ 1 \in 1..Len(desk)
          /\ \A i \in 1..Len(desk') : i + 1 \in 2..Len(desk) /\ desk'[i] = desk[i + 1]
      BY <1>1, <3>1, DeskTaken
    <3>3. /\ s0 \in 1..Students /\ stu[s0] = "await" /\ letters[s0] = <<>>
          /\ \A j \in 1..Len(desk) : desk[j].kind = "result" /\ desk[j].of = s0 => j = 1
      BY <1>1, <2>3, <3>1, <3>2, OfStudents DEF Waits
    <3> HIDE DEF m, s0
    <3>4. /\ letters' = [letters EXCEPT ![s0] = Append(@, "1")]
          /\ letters'[s0] = <<"1">> /\ \A s \in 1..Students : s # s0 => letters'[s] = letters[s]
      <4>1. letters' = [letters EXCEPT ![s0] = Append(@, "1")]
        BY <2>3 DEF G!Posts
      <4>2. s0 \in 1..Students /\ letters[s0] = <<>>
        BY <3>3
      <4>3. letters'[s0] = <<"1">> /\ \A s \in 1..Students : s # s0 => letters'[s] = letters[s]
        BY <1>1, <4>1, <4>2
      <4> QED
        BY <4>1, <4>3, Zenon
    <3>5. letters' \in [1..Students -> Seq({"roll", "1", "done"})]
      <4>1. s0 \in 1..Students /\ <<"1">> \in Seq({"roll", "1", "done"})
        BY <3>3
      <4> QED
        BY <1>1, <3>4, <4>1
    <3>6. ASSUME NEW s \in 1..Students PROVE LettersFit(s)'
      <4>1. ~Told(s) /\ ~Uncalled(s)' /\ ~Told(s)'
        BY <3>1 DEF Told, Uncalled
      <4>2. CASE s = s0
        <5>1. letters'[s] = <<"1">> /\ stu'[s] = "await"
          BY <2>3, <3>3, <3>4, <4>2
        <5> QED
          BY <4>1, <5>1 DEF LettersFit
      <4>3. CASE s # s0
        BY <1>2, <2>3, <3>4, <4>1, <4>3, LettersKept
      <4> QED
        BY <4>2, <4>3
    <3>7. Waits'
      <4>1. ASSUME NEW i \in 1..Len(desk'), desk'[i].kind = "result"
            PROVE  /\ stu'[desk'[i].of] = "await" /\ letters'[desk'[i].of] = <<>>
                   /\ \A j \in 1..Len(desk') : desk'[j].kind = "result" /\ desk'[j].of = desk'[i].of => j = i
        <5>1. i + 1 \in 1..Len(desk) /\ desk[i + 1] = desk'[i] /\ i + 1 # 1
          BY <3>2
        <5>2. desk'[i].of # s0 /\ desk'[i].of \in 1..Students
          BY <1>1, <3>3, <4>1, <5>1, OfStudents
        <5>3. stu[desk'[i].of] = "await" /\ letters[desk'[i].of] = <<>>
          BY <3>1, <4>1, <5>1 DEF Waits
        <5>4. ASSUME NEW j \in 1..Len(desk'), desk'[j].kind = "result", desk'[j].of = desk'[i].of
              PROVE  j = i
          <6>1. j + 1 \in 1..Len(desk) /\ desk[j + 1] = desk'[j]
            BY <3>2
          <6>2. j + 1 = i + 1
            BY <3>1, <4>1, <5>1, <5>4, <6>1, Zenon DEF Waits
          <6> QED
            BY <6>2
        <5> QED
          BY <2>3, <3>4, <5>2, <5>3, <5>4
      <4> QED
        BY <4>1 DEF Waits
    <3>8. stage[s0] < Stages /\ stage[s0] \in 0..Stages /\ ~HasOne(s0) /\ s0 \notin Graded
      <4>1. stage[s0] < Stages /\ stage[s0] \in 0..Stages /\ ~HasOne(s0)
        BY <1>1, <1>2, <3>3 DEF HasOne
      <4> QED
        BY <1>1, <4>1 DEF Graded
    <3>9. \A s \in 1..Students : HasOne(s)' <=> (s = s0 \/ HasOne(s))
      BY <3>4 DEF HasOne
    <3>10. Graded' = IF stage[s0] + 1 = Stages THEN Graded \cup {s0} ELSE Graded
      <4>1. CASE stage[s0] + 1 = Stages
        <5>1. stage[s0] = Stages - 1
          <6>1. stage[s0] \in Int /\ Stages \in Int
            BY <1>1, <3>8
          <6> QED
            BY <4>1, <6>1
        <5> QED
          BY <1>1, <3>1, <3>3, <3>9, <4>1, <5>1 DEF Graded
      <4>2. CASE stage[s0] + 1 # Stages
        <5>1. stage[s0] # Stages - 1 /\ stage[s0] # Stages
          BY <1>1, <3>8, <4>2
        <5> QED
          BY <1>1, <3>1, <3>3, <3>9, <4>2, <5>1 DEF Graded
      <4> QED
        BY <4>1, <4>2
    <3>11. done' = Cardinality(Graded)' /\ done' \in Nat
      <4>1. Cardinality(Graded \cup {s0}) = Cardinality(Graded) + 1
        BY <3>8, GradedIsFinite, FS_AddElement
      <4> QED
        BY <1>1, <2>3, <3>10, <4>1
    <3>12. GradingTypes'
      BY <1>1, <2>3, <3>1, <3>2, <3>5, <3>11 DEF GradingTypes
    <3> QED
      BY <1>2, <2>3, <3>1, <3>6, <3>7, <3>11, <3>12 DEF GradingInv
  <2> QED
    BY <1>7, <2>1, <2>2, <2>3 DEF G!Grade
<1> QED
  BY <1>3, <1>4, <1>6, <1>7

\* ... and at the end.
LEMMA TeacherEnds ==
  ASSUME GradingInv, tea # "killed", G!TellDone \/ G!ReadFinal \/ G!WaitStudents
  PROVE  GradingInv'
<1>1. /\ Students \in Nat \ {0} /\ Stages \in Nat \ {0} /\ asked \in 1..Students + 1 /\ done \in Nat
      /\ GradingTypes /\ done = Cardinality(Graded)
      /\ letters \in [1..Students -> Seq({"roll", "1", "done"})] /\ desk \in Seq(G!Message)
  BY ProcessAssumption DEF ProcessAssumption, GradingInv, GradingTypes
<1>2. /\ \A s \in 1..Students : LettersFit(s)
      /\ \A s \in 1..Students : stu[s] \in {"call", "here", "work", "await"} => stage[s] < Stages
  BY DEF GradingInv
<1>3. CASE /\ UNCHANGED <<done, stu, stage, letters>> /\ GradingTypes'
           /\ tea \in {"finish", "final", "wait"} /\ tea' \in {"sigpipe", "wait", "finish", "ended"}
           /\ \A s \in 1..Students : Told(s) => Told(s)'
  <2>1. ASSUME NEW s \in 1..Students PROVE LettersFit(s)'
    <3>1. ~Uncalled(s)'
      BY <1>3 DEF Uncalled
    <3> QED
      BY <1>2, <1>3, <3>1, LettersKept
  <2>2. Graded' = Graded
    BY <1>3 DEF Graded, HasOne
  <2> QED
    BY <1>1, <1>2, <1>3, <2>1, <2>2 DEF GradingInv
<1>4. CASE G!TellDone /\ tea' = "final"
  <2>1. /\ tea = "finish" /\ letters' = [letters EXCEPT ![asked] = Append(@, "done")]
        /\ UNCHANGED <<asked, done, stu, stage, desk>> /\ asked \in 1..Students
    BY <1>1, <1>4 DEF G!TellDone, G!TeaGoes, G!Posts, GradingTypes
  <2>2. \A s \in 1..Students : s # asked => letters'[s] = letters[s]
    BY <1>1, <2>1
  <2>3. /\ Len(letters'[asked]) = Len(letters[asked]) + 1 /\ Len(letters[asked]) \in Nat
        /\ letters'[asked][Len(letters[asked]) + 1] = "done" /\ letters'[asked] # <<>>
        /\ \A i \in 1..Len(letters[asked]) : letters'[asked][i] = letters[asked][i]
        /\ letters[asked] # <<>> <=> Len(letters[asked]) > 0
    <3>1. letters[asked] \in Seq({"roll", "1", "done"}) /\ letters'[asked] = Append(letters[asked], "done")
      BY <1>1, <2>1
    <3> QED
      BY <3>1
  <2>4. letters' \in [1..Students -> Seq({"roll", "1", "done"})]
    BY <1>1, <2>1
  <2>5. /\ letters[asked] # <<>> => letters'[asked][1] = letters[asked][1]
        /\ letters[asked] = <<>> => letters'[asked][1] = "done"
    BY <2>3
  <2>6. ASSUME NEW s \in 1..Students PROVE LettersFit(s)'
    <3>1. ~Uncalled(s)'
      BY <1>4 DEF Uncalled
    <3>2. CASE s = asked
      <4>1. Told(s)'
        BY <1>1, <1>4, <2>1, <3>2 DEF Told
      <4>2. ASSUME NEW i \in 2..Len(letters'[s]) PROVE letters'[s][i] = "done"
        <5>1. CASE i = Len(letters[asked]) + 1
          BY <2>3, <3>2, <5>1
        <5>2. CASE i # Len(letters[asked]) + 1
          <6>1. i \in 2..Len(letters[asked]) /\ i \in 1..Len(letters[asked])
            BY <2>3, <3>2, <5>2
          <6> QED
            BY <1>2, <2>1, <2>3, <3>2, <6>1 DEF LettersFit
        <5> QED
          BY <5>1, <5>2
      <4>3. (letters'[s][1] = "roll" => stu'[s] = "call") /\ (letters'[s][1] = "1" => stu'[s] = "await")
        BY <1>2, <2>1, <2>5, <3>2 DEF LettersFit
      <4> QED
        BY <3>1, <4>1, <4>2, <4>3 DEF LettersFit
    <3>3. CASE s # asked
      <4>1. Told(s) => Told(s)'
        BY <1>1, <1>4, <2>1 DEF Told
      <4> QED
        BY <1>2, <2>1, <2>2, <3>1, <3>3, <4>1, LettersKept
    <3> QED
      BY <3>2, <3>3
  <2>7. Graded' = Graded
    <3>1. \A s \in 1..Students : HasOne(s)' <=> HasOne(s)
      BY <2>2, <2>3, <2>5 DEF HasOne
    <3> QED
      BY <2>1, <3>1 DEF Graded
  <2>8. GradingTypes'
    BY <1>1, <1>4, <2>1, <2>4 DEF GradingTypes
  <2> QED
    BY <1>1, <1>2, <1>4, <2>1, <2>6, <2>7, <2>8 DEF GradingInv
<1>5. CASE G!TellDone /\ tea' = "sigpipe"
  <2>1. tea = "finish" /\ UNCHANGED <<asked, done, stu, stage, desk, letters>>
    BY <1>5 DEF G!TellDone, G!TeaGoes
  <2> QED
    BY <1>1, <1>3, <1>5, <2>1 DEF GradingTypes, Told
<1>6. CASE G!ReadFinal
  <2>1. CASE G!AllKilled
    BY <2>1 DEF G!AllKilled, GradingInv
  <2>2. CASE ~G!AllKilled
    <3>1. /\ tea = "final" /\ desk # <<>> /\ desk' = Tail(desk) /\ tea' = (IF asked = Students THEN "wait" ELSE "finish")
          /\ asked' = asked + 1 /\ UNCHANGED <<done, stu, stage, letters>> /\ asked <= Students
      BY <1>1, <1>6, <2>2 DEF G!ReadFinal, GradingTypes
    <3>2. desk' \in Seq(G!Message)
      BY <1>1, <3>1, DeskTaken
    <3>3. GradingTypes'
      BY <1>1, <3>1, <3>2 DEF GradingTypes
    <3>4. \A s \in 1..Students : Told(s) => Told(s)'
      BY <1>1, <3>1 DEF Told
    <3> QED
      BY <1>3, <3>1, <3>3, <3>4
  <2> QED
    BY <2>1, <2>2
<1>7. CASE G!WaitStudents
  <2>1. tea = "wait" /\ tea' = "ended" /\ UNCHANGED <<asked, done, stu, stage, desk, letters>>
    BY <1>7 DEF G!WaitStudents, G!TeaGoes
  <2> QED
    BY <1>1, <1>3, <2>1 DEF GradingTypes, Told
<1>8. G!TellDone => tea' \in {"final", "sigpipe"}
  BY DEF G!TellDone, G!TeaGoes
<1> QED
  BY <1>4, <1>5, <1>6, <1>7, <1>8

\* A student keeps it: it calls out, works, and leaves ...
LEMMA StudentWrites ==
  ASSUME GradingInv, tea # "killed", NEW s \in 1..Students, G!Here(s) \/ G!Work(s) \/ G!Final(s) \/ G!Leave(s)
  PROVE  GradingInv'
<1>1. /\ Students \in Nat \ {0} /\ Stages \in Nat \ {0} /\ GradingTypes /\ done = Cardinality(Graded)
      /\ stu \in [1..Students -> {"call", "here", "work", "await", "final", "leave", "gone", "killed"}]
      /\ letters \in [1..Students -> Seq({"roll", "1", "done"})] /\ desk \in Seq(G!Message)
  BY ProcessAssumption DEF ProcessAssumption, GradingInv, GradingTypes
<1>2. /\ \A r \in 1..Students : LettersFit(r)
      /\ \A r \in 1..Students : stu[r] \in {"call", "here", "work", "await"} => stage[r] < Stages
      /\ tea \in {"ask", "roll", "test", "grade"} => Waits
  BY DEF GradingInv
<1>3. PICK from, to, kind :
        /\ stu[s] = from /\ stu'[s] = to /\ UNCHANGED <<tea, asked, done, stage, letters>>
        /\ stu' = [stu EXCEPT ![s] = to] /\ kind \in {"here", "result", "final"}
        /\ \/ from = "here" /\ to = "work"
           \/ from = "work" /\ to = "await"
           \/ from \in {"final", "leave", "here", "work"} /\ to \in {"leave", "gone", "killed"}
        /\ \/ desk' = desk
           \/ desk' = Append(desk, [kind |-> kind, of |-> s]) /\ (kind = "result" => to = "await")
        /\ tea \in {"ended", "sigpipe"} \/ to # "killed"
  <2>1. CASE tea \in {"ended", "killed", "sigpipe"} /\ (G!Here(s) \/ G!Work(s) \/ G!Final(s))
    <3>1. /\ stu[s] \in {"here", "work", "final"} /\ stu' = [stu EXCEPT ![s] = "killed"] /\ desk' = desk
          /\ UNCHANGED <<tea, asked, done, stage, letters>>
      BY <2>1 DEF G!Here, G!Work, G!Final, G!Writes, G!StuGoes, G!TeaEnds
    <3> WITNESS stu[s], "killed", "here"
    <3> QED
      BY <1>1, <2>1, <3>1
  <2>2. CASE tea \notin {"ended", "killed", "sigpipe"} /\ G!Here(s)
    <3> WITNESS "here", "work", "here"
    <3> QED
      BY <1>1, <2>2 DEF G!Here, G!Writes, G!StuGoes, G!TeaEnds
  <2>3. CASE tea \notin {"ended", "killed", "sigpipe"} /\ G!Work(s)
    <3> WITNESS "work", "await", "result"
    <3> QED
      BY <1>1, <2>3 DEF G!Work, G!Writes, G!StuGoes, G!TeaEnds
  <2>4. CASE tea \notin {"ended", "killed", "sigpipe"} /\ G!Final(s)
    <3> WITNESS "final", "leave", "final"
    <3> QED
      BY <1>1, <2>4 DEF G!Final, G!Writes, G!StuGoes, G!TeaEnds
  <2>5. CASE G!Leave(s)
    <3> WITNESS "leave", "gone", "here"
    <3> QED
      BY <1>1, <2>5 DEF G!Leave, G!StuGoes
  <2> QED
    BY <2>1, <2>2, <2>3, <2>4, <2>5
<1>4. \A r \in 1..Students : r # s => stu'[r] = stu[r]
  BY <1>1, <1>3
<1>5. ASSUME NEW r \in 1..Students PROVE LettersFit(r)'
  <2>1. (Told(r)' <=> Told(r)) /\ (Uncalled(r)' <=> Uncalled(r))
    BY <1>3 DEF Told, Uncalled
  <2>2. CASE r = s
    <3>1. stu[s] \notin {"call", "await"} /\ LettersFit(s)
      BY <1>2, <1>3
    <3> QED
      BY <1>3, <2>1, <2>2, <3>1 DEF LettersFit
  <2>3. CASE r # s
    BY <1>2, <1>3, <1>4, <2>1, <2>3, LettersKept
  <2> QED
    BY <2>2, <2>3
<1>6. ASSUME tea' \in {"ask", "roll", "test", "grade"} PROVE Waits'
  <2>1. Waits /\ ~Told(s)
    BY <1>2, <1>3, <1>6 DEF Told
  <2>2. \A i \in 1..Len(desk) : desk[i].kind = "result" => desk[i].of # s /\ desk[i].of \in 1..Students
    BY <1>1, <1>3, <2>1, OfStudents DEF Waits
  <2>3. CASE desk' = desk
    BY <1>3, <1>4, <2>1, <2>2, <2>3 DEF Waits
  <2>4. CASE desk' = Append(desk, [kind |-> kind, of |-> s]) /\ (kind = "result" => to = "await")
    <3>1. /\ Len(desk') = Len(desk) + 1 /\ Len(desk) \in Nat /\ \A i \in 1..Len(desk) : desk'[i] = desk[i]
          /\ desk'[Len(desk) + 1] = [kind |-> kind, of |-> s]
      BY <1>1, <2>4
    <3>2. desk'[Len(desk) + 1].kind = kind /\ desk'[Len(desk) + 1].of = s
      BY <3>1
    <3>3. kind = "result" => stu'[s] = "await" /\ letters'[s] = <<>>
      <4>1. letters[s] = <<>>
        <5>1. letters[s] \in Seq({"roll", "1", "done"}) /\ Len(letters[s]) <= 1 /\ LettersFit(s)
          BY <1>1, <1>2, <2>1 DEF LettersFit
        <5>2. letters[s] # <<>> => letters[s][1] \in {"roll", "1", "done"}
          BY <5>1
        <5>3. stu[s] \notin {"call", "await"}
          BY <1>3
        <5> QED
          BY <2>1, <5>1, <5>2, <5>3 DEF LettersFit
      <4> QED
        BY <1>3, <2>4, <4>1
    <3>4. ASSUME NEW i \in 1..Len(desk'), desk'[i].kind = "result"
          PROVE  /\ stu'[desk'[i].of] = "await" /\ letters'[desk'[i].of] = <<>>
                 /\ \A j \in 1..Len(desk') : desk'[j].kind = "result" /\ desk'[j].of = desk'[i].of => j = i
      <4>1. CASE i = Len(desk) + 1
        <5>1. ASSUME NEW j \in 1..Len(desk'), desk'[j].kind = "result", desk'[j].of = s
              PROVE  j = i
          <6>1. j \in 1..Len(desk) => desk[j].kind = "result" /\ desk[j].of = s
            BY <3>1, <5>1
          <6>2. j \notin 1..Len(desk)
            BY <2>2, <6>1
          <6> QED
            BY <3>1, <4>1, <6>2
        <5> QED
          BY <3>2, <3>3, <3>4, <4>1, <5>1
      <4>2. CASE i # Len(desk) + 1
        <5>1. i \in 1..Len(desk) /\ desk[i] = desk'[i]
          BY <3>1, <4>2
        <5>2. desk'[i].of # s /\ desk'[i].of \in 1..Students
          BY <2>2, <3>4, <5>1
        <5>3. stu[desk'[i].of] = "await" /\ letters[desk'[i].of] = <<>>
          BY <2>1, <3>4, <5>1 DEF Waits
        <5>4. ASSUME NEW j \in 1..Len(desk'), desk'[j].kind = "result", desk'[j].of = desk'[i].of
              PROVE  j = i
          <6>1. j # Len(desk) + 1
            BY <3>2, <5>2, <5>4
          <6>2. j \in 1..Len(desk) /\ desk[j] = desk'[j]
            BY <3>1, <6>1
          <6> QED
            BY <2>1, <3>4, <5>1, <5>4, <6>2, Zenon DEF Waits
        <5> QED
          BY <1>3, <1>4, <5>2, <5>3, <5>4
      <4> QED
        BY <4>1, <4>2
    <3> QED
      BY <3>4 DEF Waits
  <2> QED
    BY <1>3, <2>3, <2>4
<1>7. Graded' = Graded
  BY <1>3 DEF Graded, HasOne
<1>8. GradingTypes'
  <2>1. stu' \in [1..Students -> {"call", "here", "work", "await", "final", "leave", "gone", "killed"}]
    BY <1>1, <1>3
  <2>2. desk' \in Seq(G!Message)
    <3>1. [kind |-> kind, of |-> s] \in G!Message
      BY <1>3 DEF G!Message, G!Class
    <3>2. \A m \in G!Message : Append(desk, m) \in Seq(G!Message)
      BY <1>1
    <3> QED
      BY <1>1, <1>3, <3>1, <3>2, Zenon
  <2> QED
    BY <1>1, <1>3, <2>1, <2>2 DEF GradingTypes
<1>9. ASSUME NEW r \in 1..Students, stu'[r] \in {"call", "here", "work", "await"} PROVE stage'[r] < Stages
  BY <1>2, <1>3, <1>4, <1>9
<1> QED
  BY <1>1, <1>3, <1>5, <1>6, <1>7, <1>8, <1>9 DEF GradingInv

\* ... and reads its letters.
LEMMA StudentReads ==
  ASSUME GradingInv, tea # "killed", NEW s \in 1..Students, G!Called(s) \/ G!Answered(s)
  PROVE  GradingInv'
<1>1. /\ Students \in Nat \ {0} /\ Stages \in Nat \ {0} /\ GradingTypes /\ done = Cardinality(Graded)
      /\ stu \in [1..Students -> {"call", "here", "work", "await", "final", "leave", "gone", "killed"}]
      /\ stage \in [1..Students -> 0..Stages]
      /\ letters \in [1..Students -> Seq({"roll", "1", "done"})] /\ desk \in Seq(G!Message)
  BY ProcessAssumption DEF ProcessAssumption, GradingInv, GradingTypes
<1>2. /\ \A r \in 1..Students : LettersFit(r)
      /\ \A r \in 1..Students : stu[r] \in {"call", "here", "work", "await"} => stage[r] < Stages
      /\ tea \in {"ask", "roll", "test", "grade"} => Waits
  BY DEF GradingInv
<1>3. /\ letters[s] # <<>> /\ letters' = [letters EXCEPT ![s] = Tail(@)]
      /\ UNCHANGED <<tea, asked, done, desk>> /\ stu[s] \in {"call", "await"}
  BY DEF G!Called, G!Answered, G!StuGoes
<1>4. /\ stage[s] \in 0..Stages /\ stage[s] < Stages /\ Head(letters[s]) = letters[s][1]
  BY <1>1, <1>2, <1>3
<1>5. \/ /\ stu[s] = "call" /\ stu' = [stu EXCEPT ![s] = "here"] /\ stage' = stage
      \/ /\ stu[s] = "await" /\ stage' = [stage EXCEPT ![s] = IF HasOne(s) THEN @ + 1 ELSE @]
         /\ stu' = [stu EXCEPT ![s] = IF stage'[s] = Stages THEN "final" ELSE "work"]
  BY <1>3, <1>4 DEF G!Called, G!Answered, G!StuGoes, HasOne
<1>6. /\ stu' \in [1..Students -> {"call", "here", "work", "await", "final", "leave", "gone", "killed"}]
      /\ \A r \in 1..Students : r # s => stu'[r] = stu[r] /\ stage'[r] = stage[r] /\ letters'[r] = letters[r]
      /\ stu'[s] \in {"here", "work", "final"}
  BY <1>1, <1>3, <1>5
<1>7. /\ Len(letters'[s]) = Len(letters[s]) - 1 /\ Len(letters[s]) \in Nat \ {0}
      /\ letters'[s] \in Seq({"roll", "1", "done"})
      /\ \A i \in 1..Len(letters'[s]) : letters'[s][i] = letters[s][i + 1]
  <2>1. letters[s] \in Seq({"roll", "1", "done"}) /\ letters'[s] = Tail(letters[s])
    BY <1>1, <1>3
  <2>2. letters[s] # <<>>
    BY <1>3
  <2> QED
    BY <2>1, <2>2
<1>8. \A i \in 1..Len(letters'[s]) : letters'[s][i] = "done"
  <2>1. ASSUME NEW i \in 1..Len(letters'[s]) PROVE i + 1 \in 2..Len(letters[s])
    BY <1>7
  <2> QED
    BY <1>2, <1>7, <2>1 DEF LettersFit
<1>9. /\ letters'[s] # <<>> => 1 \in 1..Len(letters'[s])
      /\ \A i \in 2..Len(letters'[s]) : i \in 1..Len(letters'[s])
  BY <1>7
<1>10. ~HasOne(s)'
  <2>1. ~(letters'[s] # <<>> /\ letters'[s][1] = "1")
    BY <1>8, <1>9
  <2> QED
    BY <2>1 DEF HasOne
<1>11. ASSUME NEW r \in 1..Students PROVE LettersFit(r)'
  <2>1. (Told(r)' <=> Told(r)) /\ (Uncalled(r)' <=> Uncalled(r))
    BY <1>3 DEF Told, Uncalled
  <2>2. CASE r = s
    <3>1. ~Uncalled(r)
      BY <1>2, <1>3, <2>2 DEF LettersFit
    <3>2. ~Told(r) => letters'[r] = <<>> /\ Len(letters'[r]) = 0
      <4>1. ~Told(r) => Len(letters[s]) <= 1
        BY <1>2, <2>2 DEF LettersFit
      <4>2. ~Told(r) => Len(letters'[s]) = 0
        <5>1. Len(letters'[s]) = Len(letters[s]) - 1 /\ Len(letters[s]) \in Nat \ {0}
          BY <1>7
        <5>2. ASSUME NEW n \in Nat, n # 0, n <= 1 PROVE n - 1 = 0
          BY <5>2
        <5> QED
          BY <4>1, <5>1, <5>2
      <4> QED
        BY <1>7, <2>2, <4>2
    <3>3. /\ \A i \in 2..Len(letters'[r]) : letters'[r][i] = "done"
          /\ letters'[r] # <<>> => letters'[r][1] = "done"
      BY <1>8, <1>9, <2>2
    <3>4. /\ ~Told(r)' => Len(letters'[r]) <= 1 /\ (letters'[r] # <<>> => letters'[r][1] # "done")
      BY <2>1, <3>2
    <3> QED
      BY <2>1, <3>1, <3>3, <3>4 DEF LettersFit
  <2>3. CASE r # s
    BY <1>2, <1>6, <2>1, <2>3, LettersKept
  <2> QED
    BY <2>2, <2>3
<1>12. ASSUME tea' \in {"ask", "roll", "test", "grade"} PROVE Waits'
  <2>1. Waits
    BY <1>2, <1>3, <1>12
  <2>2. \A i \in 1..Len(desk) : desk[i].kind = "result" => desk[i].of # s /\ desk[i].of \in 1..Students
    BY <1>1, <1>3, <2>1, OfStudents DEF Waits
  <2> QED
    BY <1>3, <1>6, <2>1, <2>2 DEF Waits
<1>13. HasOne(s) => stu[s] = "await"
  BY <1>2 DEF HasOne, LettersFit
<1>14. stage' \in [1..Students -> 0..Stages] /\ (stu'[s] \in {"here", "work"} => stage'[s] < Stages)
  <2>1. CASE stage' = stage
    BY <1>1, <1>4, <2>1
  <2>2. CASE stage' # stage
    <3>1. /\ HasOne(s) /\ stage' = [stage EXCEPT ![s] = @ + 1] /\ stage[s] + 1 \in 0..Stages
          /\ stu' = [stu EXCEPT ![s] = IF stage'[s] = Stages THEN "final" ELSE "work"]
      BY <1>1, <1>4, <1>5, <2>2
    <3>2. stage' \in [1..Students -> 0..Stages] /\ stage'[s] = stage[s] + 1
      BY <1>1, <3>1
    <3>3. stu'[s] = IF stage'[s] = Stages THEN "final" ELSE "work"
      BY <1>1, <3>1
    <3>4. stage'[s] < Stages \/ stage'[s] = Stages
      BY <1>1, <1>4, <3>2
    <3> QED
      BY <3>2, <3>3, <3>4
  <2> QED
    BY <2>1, <2>2
<1>15. stage'[s] = IF HasOne(s) THEN stage[s] + 1 ELSE stage[s]
  BY <1>1, <1>5, <1>13
<1>16. Graded' = Graded
  <2>1. ASSUME NEW r \in 1..Students, r # s PROVE (HasOne(r)' <=> HasOne(r)) /\ stage'[r] = stage[r]
    BY <1>6, <2>1 DEF HasOne
  <2>2. \/ stage'[s] = Stages
        \/ stage'[s] = Stages - 1 /\ HasOne(s)'
        <=> \/ stage[s] = Stages
            \/ stage[s] = Stages - 1 /\ HasOne(s)
    <3>1. stage[s] \in Int /\ Stages \in Int /\ stage[s] < Stages
      BY <1>1, <1>4
    <3> QED
      BY <1>10, <1>15, <3>1
  <2>3. ASSUME NEW r \in 1..Students PROVE r \in Graded' <=> r \in Graded
    <3>1. CASE r = s
      BY <2>2, <3>1 DEF Graded
    <3>2. CASE r # s
      BY <2>1, <3>2 DEF Graded
    <3> QED
      BY <3>1, <3>2
  <2> QED
    BY <2>3 DEF Graded
<1>17. GradingTypes'
  <2>1. letters' \in [1..Students -> Seq({"roll", "1", "done"})]
    BY <1>1, <1>3, <1>7
  <2> QED
    BY <1>1, <1>3, <1>6, <1>14, <2>1 DEF GradingTypes
<1>18. ASSUME NEW r \in 1..Students, stu'[r] \in {"call", "here", "work", "await"} PROVE stage'[r] < Stages
  BY <1>2, <1>6, <1>14, <1>18
<1> QED
  BY <1>1, <1>3, <1>11, <1>12, <1>16, <1>17, <1>18 DEF GradingInv

\* So every step keeps it.
LEMMA GradingStep ==
  ASSUME GradingInv, G!Next
  PROVE  GradingInv'
<1>1. CASE tea = "killed"
  <2>1. tea' = "killed"
    BY <1>1 DEF G!Next, G!Teacher, G!Student, G!Ask, G!RollCall, G!Test, G!Grade, G!TellDone, G!ReadFinal,
                G!WaitStudents, G!TeaGoes, G!Alarm, G!Called, G!Here, G!Work, G!Answered, G!Final,
                G!Leave, G!Writes, G!StuGoes
  <2> QED
    BY <2>1 DEF GradingInv
<1>2. CASE tea # "killed"
  <2>1. G!Class = 1..Students
    BY DEF G!Class
  <2>2. ASSUME NEW s \in 1..Students, G!Student(s) PROVE GradingInv'
    BY <1>2, <2>2, StudentWrites, StudentReads, Zenon DEF G!Student
  <2>3. ASSUME G!Teacher \/ G!Alarm PROVE GradingInv'
    BY <1>2, <2>3, TeacherGrades, TeacherEnds, Zenon DEF G!Teacher
  <2> QED
    BY <2>1, <2>2, <2>3, Zenon DEF G!Next
<1> QED
  BY <1>1, <1>2

\* The other programs do not touch it.
LEMMA GradingFrame == GradingInv /\ UNCHANGED gradingVars => GradingInv'
  BY DEF gradingVars, GradingInv, GradingTypes, LettersFit, Told, Uncalled, Waits, Graded, HasOne

\* So no answer is lost or counted twice.
LEMMA GradingFacts == GradingInv => G!GradesAgree
<1> SUFFICES ASSUME GradingInv, tea # "killed"
             PROVE  /\ \A s \in 1..Students : G!Unread(s, "1") # {} =>
                         stu[s] = "await" /\ G!Cardinality(G!Unread(s, "1")) = 1 /\ stage[s] < Stages
                    /\ done = G!Cardinality({s \in 1..Students : stage[s] = Stages
                                               \/ (stage[s] = Stages - 1 /\ G!Unread(s, "1") # {})})
  BY DEF G!GradesAgree, G!Class
<1>1. ASSUME NEW s \in 1..Students
      PROVE  G!Unread(s, "1") = IF HasOne(s) THEN {1} ELSE {}
  <2>1. letters[s] \in Seq({"roll", "1", "done"}) /\ LettersFit(s)
    BY DEF GradingInv, GradingTypes
  <2>2. ASSUME NEW i \in 1..Len(letters[s]) PROVE letters[s][i] = "1" <=> i = 1 /\ HasOne(s)
    <3>1. i = 1 \/ i \in 2..Len(letters[s])
      BY <2>1
    <3>2. letters[s] # <<>>
      BY <2>1
    <3> QED
      BY <2>1, <3>1, <3>2 DEF LettersFit, HasOne
  <2>3. HasOne(s) => 1 \in 1..Len(letters[s])
    BY <2>1 DEF HasOne
  <2> QED
    BY <2>2, <2>3 DEF G!Unread
<1>2. {s \in 1..Students : stage[s] = Stages \/ (stage[s] = Stages - 1 /\ G!Unread(s, "1") # {})} = Graded
  BY <1>1 DEF Graded
<1>3. done = G!Cardinality(Graded)
  BY SameCardinality DEF GradingInv
<1>4. ASSUME NEW s \in 1..Students, G!Unread(s, "1") # {}
      PROVE  stu[s] = "await" /\ G!Cardinality(G!Unread(s, "1")) = 1 /\ stage[s] < Stages
  <2>1. HasOne(s) /\ G!Unread(s, "1") = {1}
    BY <1>1, <1>4
  <2>2. stu[s] = "await"
    BY <2>1 DEF GradingInv, LettersFit, HasOne
  <2>3. Cardinality({1}) = 1
    BY FS_Singleton
  <2> QED
    BY <2>1, <2>2, <2>3, SameCardinality DEF GradingInv
<1> QED
  BY <1>2, <1>3, <1>4

-----------------------------------------------------------------------------
(* The programs together *)

\* Each program keeps its invariant while the others run.
ProcInv == GradingInv /\ RouletteInv /\ FramesInv /\ CountInv /\ CopyInv /\ CodeInv

\* A step is one of a program, and leaves the other programs as they are.
LEMMA ProcSteps ==
  ASSUME [Next]_labVars
  PROVE  /\ G!Next \/ UNCHANGED gradingVars
         /\ C!Next \/ UNCHANGED rouletteVars
         /\ F!Next \/ UNCHANGED frameVars
         /\ S!Next \/ UNCHANGED countVars
         /\ B!Next \/ UNCHANGED copyVars
         /\ E!Next \/ UNCHANGED codeVars
<1>1. CASE UNCHANGED labVars
  BY <1>1 DEF labVars, pipeVars, signalVars
<1>2. CASE OnlyGrading /\ G!Next
  BY <1>2 DEF OnlyGrading, signalVars
<1>3. CASE OnlyRoulette /\ C!Next
  BY <1>3 DEF OnlyRoulette, signalVars
<1>4. CASE OnlyFrames /\ F!Next
  BY <1>4 DEF OnlyFrames, signalVars
<1>5. CASE OnlyCount /\ S!Next
  BY <1>5 DEF OnlyCount, pipeVars
<1>6. CASE OnlyCopy /\ B!Next
  BY <1>6 DEF OnlyCopy, pipeVars
<1>7. CASE OnlyCodes /\ E!Next
  BY <1>7 DEF OnlyCodes, pipeVars
<1>8. CASE OnlyFifos
  BY <1>8 DEF OnlyFifos, signalVars
<1>9. ASSUME Parent \/ Alarm \/ Interrupt
      PROVE  \/ (OnlyGrading /\ G!Next) \/ (OnlyRoulette /\ C!Next) \/ (OnlyFrames /\ F!Next)
             \/ (OnlyCount /\ S!Next) \/ (OnlyCopy /\ B!Next) \/ OnlyFifos
  BY <1>9, Zenon DEF Parent, Alarm, Interrupt, G!Next, C!Next, F!Next, S!Next, B!Next
<1>10. ASSUME NEW i \in Children, Child(i)
       PROVE  \/ (OnlyGrading /\ G!Next) \/ (OnlyRoulette /\ C!Next)
              \/ (OnlyCount /\ S!Next) \/ (OnlyCopy /\ B!Next) \/ OnlyFifos
  BY <1>10, Zenon DEF Child, G!Next, G!Class, C!Next, C!Table, S!Next, S!Family, B!Next
<1>11. ASSUME NEW c \in Kids, Kid(c)
       PROVE  OnlyFrames /\ F!Next
  BY <1>11, Zenon DEF Kid, F!Next
<1>12. ASSUME NEW c \in Group, Member(c) \/ ReapMember(c)
       PROVE  OnlyCodes /\ E!Next
  BY <1>12, Zenon DEF Member, ReapMember, E!Next
<1> QED
  BY <1>1, <1>2, <1>3, <1>4, <1>5, <1>6, <1>7, <1>8, <1>9, <1>10, <1>11, <1>12, Zenon DEF Next

\* A behaviour of one program keeps the invariants of all of them.
LEMMA ProcInductive ==
  /\ Init => ProcInv
  /\ ProcInv /\ [Next]_labVars => ProcInv'
<1>1. Init => ProcInv
  BY GradingInit, RouletteInit, FramesInit, CountInit, CopyInit, CodeInit, Zenon DEF Init, ProcInv
<1>2. ASSUME ProcInv, [Next]_labVars
      PROVE  ProcInv'
  <2>1. GradingInv'
    BY <1>2, ProcSteps, GradingStep, GradingFrame, Zenon DEF ProcInv
  <2>2. RouletteInv'
    <3>1. RouletteInv /\ C!Next => RouletteInv'
      BY CroupierKeeps, PlayerKeeps, Zenon DEF C!Next
    <3> QED
      BY <1>2, <3>1, ProcSteps, RouletteFrame, Zenon DEF ProcInv
  <2>3. FramesInv'
    BY <1>2, ProcSteps, FramesStep, FramesFrame, Zenon DEF ProcInv
  <2>4. CountInv'
    BY <1>2, ProcSteps, CountStep, CountFrame, Zenon DEF ProcInv
  <2>5. CopyInv'
    BY <1>2, ProcSteps, CopyStep, CopyFrame, Zenon DEF ProcInv
  <2>6. CodeInv'
    BY <1>2, ProcSteps, CodeStep, CodeFrame, Zenon DEF ProcInv
  <2> QED
    BY <2>1, <2>2, <2>3, <2>4, <2>5, <2>6, Zenon DEF ProcInv
<1> QED
  BY <1>1, <1>2

\* However messages, letters, bets and frames cross in the pipes, the grades of a student
\* agree with what the teacher has counted (ops-lab.c:155-166), the lucky number finds a
\* bet (example.c:153-160), and a frame follows its header (prog22a.c:112-121).
THEOREM PipesStayInStep == Spec => []PipesInStep
<1>1. ProcInv => PipesInStep
  BY GradingFacts, RouletteFacts, FramesFacts, Zenon DEF ProcInv, PipesInStep
<1> QED
  BY <1>1, ProcInductive, PTL DEF Spec

\* The children end when the count is full (Task.c:51-58, 104-121), the blocks that are
\* copied are whole (prog16b.c:97-105), and the exit codes decode (Last Year/task.c:113-116).
THEOREM SignalsAreCounted == Spec => []SignalsCounted
<1>1. ProcInv => SignalsCounted
  BY CodeFacts, Zenon DEF ProcInv, CountInv, CopyInv, SignalsCounted
<1> QED
  BY <1>1, ProcInductive, PTL DEF Spec
=============================================================================
