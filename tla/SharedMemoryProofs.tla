------------------------- MODULE SharedMemoryProofs -------------------------
(***************************************************************************)
(* Proofs about the programs that share memory between processes, for any  *)
(* number of processes, batches, clients, fields, players and samples.     *)
(* Each program has an inductive invariant of its own; a behaviour of      *)
(* SharedMemoryLabs keeps all of them.                                     *)
(***************************************************************************)
EXTENDS SharedMemoryLabs, FiniteSetTheorems, TLAPS

\* Cardinality is the same operator in the modules of the programs.
LEMMA SameCardinality ==
  ASSUME NEW S
  PROVE  /\ F!Cardinality(S) = Cardinality(S)
         /\ M!Cardinality(S) = Cardinality(S)
  BY DEF F!Cardinality, M!Cardinality, Cardinality

-----------------------------------------------------------------------------
(* The samples of pi *)

\* A child that is past its cell, or its line, has written it; the parent sums when it
\* has had all its children and all of them have ended.
Sampled ==
  /\ \A n \in F!Numbers :
       /\ sampler[n] = "none" <=> n > forked
       /\ sampler[n] \in {"log", "zombie", "reaped"} => n \in cells
       /\ sampler[n] \in {"zombie", "reaped"} => n \in lines
  /\ maker \in {"wait", "sum", "end"} => forked = Samples
  /\ maker \in {"sum", "end"} => \A n \in F!Numbers : sampler[n] = "reaped"
  /\ maker = "end" => summed = Samples

SampleInv == F!TypeOK /\ Sampled

\* The invariant of the samples holds at the start.
LEMMA SampleInit == F!Init => SampleInv
<1> SUFFICES ASSUME F!Init PROVE SampleInv
  OBVIOUS
<1> QED
  BY MemoryAssumption DEF MemoryAssumption, F!Init, SampleInv, F!TypeOK, Sampled, F!Numbers

\* Every step of the parent and of its children keeps it.
LEMMA SampleStep ==
  ASSUME SampleInv, F!Next
  PROVE  SampleInv'
<1> USE MemoryAssumption DEF MemoryAssumption, SampleInv, F!TypeOK, Sampled, F!Numbers
<1>1. CASE F!Fork
  BY <1>1, Z3T(30) DEF F!Fork, F!SamplerGoes
<1>2. ASSUME NEW n \in F!Numbers, F!ChildWork(n)
      PROVE  SampleInv'
  BY <1>2 DEF F!ChildWork, F!SamplerGoes
<1>3. CASE F!Reap
  BY <1>3, SMTT(30) DEF F!Reap, F!SamplerGoes
<1>4. CASE F!Sum
  <2>1. cells = 1..Samples
    BY <1>4 DEF F!Sum
  <2>2. F!Cardinality(cells) = Samples
    <3>1. Cardinality(1..Samples) = Samples
      BY FS_Interval
    <3> QED
      BY ONLY <2>1, <3>1, SameCardinality
  <2> QED
    BY <1>4, <2>2 DEF F!Sum
<1> QED
  BY <1>1, <1>2, <1>3, <1>4 DEF F!Next, F!ParentStep

\* Nothing else touches the samples.
LEMMA SampleFrame == SampleInv /\ UNCHANGED sampleVars => SampleInv'
  BY DEF sampleVars, SampleInv, F!TypeOK, Sampled, F!Numbers

-----------------------------------------------------------------------------
(* The draw in turns *)

\* Child i has drawn its number of the round, is about to, or is at it; or it is the
\* last one, which has passed the baton to nobody and not yet to the parent.
Done(i) == play[i] \in {"turn", "end"} /\ played[i] = round /\ slots[i] = round
Ahead(i) == play[i] = "turn" /\ played[i] = round - 1
Drawing(i) == play[i] \in {"turn", "draw", "pass"} /\ played[i] = round - 1 /\ (play[i] = "pass" => slots[i] = round)
Passing(i) == play[i] = "last" /\ played[i] = round - 1 /\ slots[i] = round

\* The baton that a run finds is no child's: then those before it in the round are done,
\* those after it wait, and when the parent has it all are done.
InTurns ==
  /\ host # "wait" => baton \notin B!Position
  /\ host # "wait" \/ baton = B!Host => \A i \in B!Position : Done(i)
  /\ host = "wait" => round >= 1
  /\ host = "wait" /\ baton # B!Host =>
       /\ baton \in 1..Players + 1
       /\ \A i \in B!Position :
            /\ i < baton => IF i = Players /\ baton = Players + 1 THEN Passing(i) ELSE Done(i)
            /\ i = baton => Drawing(i)
            /\ i > baton => Ahead(i)

\* A child ends after its rounds, and the parent shows a number for each child.
Counts ==
  /\ \A i \in B!Position : play[i] = "end" <=> played[i] = Rounds
  /\ host = "wait" => shown < Players

BatonInv == B!TypeOK /\ Counts /\ (left \notin B!Position => InTurns)

\* The invariant of the draw holds at the start.
LEMMA BatonInit == B!Init => BatonInv
<1> SUFFICES ASSUME B!Init PROVE BatonInv
  OBVIOUS
<1> USE MemoryAssumption DEF MemoryAssumption, B!Init, B!Position
<1>1. B!TypeOK /\ Counts
  BY DEF B!TypeOK, Counts
<1>2. ASSUME left \notin B!Position
      PROVE  InTurns
  BY <1>2 DEF InTurns, Done
<1> QED
  BY <1>1, <1>2 DEF BatonInv

\* A step of the parent keeps it.
LEMMA HostKeepsTurns ==
  ASSUME Players + 1 < B!Host, BatonInv, B!HostStep
  PROVE  BatonInv'
<1>1. B!TypeOK' /\ Counts'
  BY MemoryAssumption, SMTT(30) DEF MemoryAssumption, BatonInv, B!Position, B!HostStep, B!NewRound, B!Show, B!HostGoes,
       B!TypeOK, Counts, B!Host
<1>2. ASSUME left \notin B!Position, InTurns
      PROVE  InTurns'
  <2>1. /\ Players \in Nat \ {0} /\ round \in Nat /\ B!Position = 1..Players /\ B!Host = 999
        /\ \A i \in B!Position : play[i] = "end" <=> played[i] = Rounds
    BY MemoryAssumption DEF MemoryAssumption, BatonInv, B!TypeOK, Counts, B!Position, B!Host
  <2>2. UNCHANGED <<left, slots, play, played>>
    BY DEF B!HostStep, B!NewRound, B!Show, B!HostGoes
  <2>3. \A i \in B!Position : Done(i)
    BY <1>2 DEF InTurns, B!HostStep, B!NewRound, B!Show, B!HostGoes
  <2>4. CASE host' = "wait" /\ baton' = 1 /\ round' = round + 1 /\ round < Rounds
    <3>1. \A i \in B!Position : (i = 1 => Drawing(i)') /\ (i > 1 => Ahead(i)')
      BY <2>1, <2>2, <2>3, <2>4 DEF Done, Drawing, Ahead
    <3> QED
      BY <2>1, <2>4, <3>1 DEF InTurns
  <2>5. CASE baton' = baton /\ round' = round /\ baton \notin B!Position
    <3>1. \A i \in B!Position : Done(i)'
      BY <2>2, <2>3, <2>5 DEF Done
    <3> QED
      BY <1>2, <2>1, <2>2, <2>5, <3>1 DEF InTurns, B!HostStep, B!NewRound, B!Show, B!HostGoes
  <2> QED
    BY <1>2, <2>1, <2>4, <2>5 DEF InTurns, B!HostStep, B!NewRound, B!Show, B!HostGoes
<1>3. left' = left
  BY DEF B!HostStep, B!NewRound, B!Show, B!HostGoes
<1> QED
  BY <1>1, <1>2, <1>3 DEF BatonInv

\* What a child is in its turn for: the others keep theirs.
LEMMA ChildFacts ==
  ASSUME BatonInv, NEW i \in B!Position, play[i] # "end"
  PROVE  /\ played[i] \in Nat /\ played[i] + 1 \in 0..Rounds /\ i \in 1..Players
         /\ (played[i] + 1 = Rounds) \in BOOLEAN
         /\ slots \in [B!Position -> 0..Rounds] /\ played \in [B!Position -> 0..Rounds]
         /\ play \in [B!Position -> {"turn", "draw", "pass", "last", "end"}]
         /\ i \in (0..Players + 1) \cup {B!Host} /\ i + 1 \in (0..Players + 1) \cup {B!Host}
<1> USE MemoryAssumption DEF MemoryAssumption, BatonInv, B!TypeOK, Counts, B!Position
<1>1. /\ slots \in [B!Position -> 0..Rounds] /\ played \in [B!Position -> 0..Rounds]
      /\ play \in [B!Position -> {"turn", "draw", "pass", "last", "end"}]
  OBVIOUS
<1>2. played[i] \in 0..Rounds /\ played[i] # Rounds
  OBVIOUS
<1> QED
  BY <1>1, <1>2

\* A step of a child keeps the types.
LEMMA ChildKeepsTypes ==
  ASSUME BatonInv, NEW i \in B!Position, B!PlayStep(i)
  PROVE  B!TypeOK' /\ Counts' /\ left' = left
<1>1. play[i] # "end"
  BY DEF B!PlayStep, B!Turn, B!Draw, B!Pass, B!PassToHost, B!FinishRound, B!PlayGoes
<1>2. /\ played[i] \in Nat /\ played[i] + 1 \in 0..Rounds /\ i \in 1..Players
      /\ slots \in [B!Position -> 0..Rounds] /\ played \in [B!Position -> 0..Rounds]
      /\ play \in [B!Position -> {"turn", "draw", "pass", "last", "end"}]
      /\ i + 1 \in (0..Players + 1) \cup {B!Host}
  BY ONLY BatonInv, <1>1, i \in B!Position, ChildFacts
<1>3. B!TypeOK /\ Counts
  BY DEF BatonInv
<1>4. UNCHANGED <<left, host, round, shown>>
  BY DEF B!PlayStep, B!Turn, B!Draw, B!Pass, B!PassToHost, B!FinishRound, B!PlayGoes
<1>5. CASE B!Turn(i)
  BY <1>2, <1>3, <1>4, <1>5 DEF B!TypeOK, Counts, B!Turn, B!PlayGoes
<1>6. CASE B!Draw(i)
  BY <1>2, <1>3, <1>4, <1>6 DEF B!TypeOK, Counts, B!Draw, B!PlayGoes
<1>7. CASE B!Pass(i)
  <2>1. CASE i = Players
    BY <1>2, <1>3, <1>4, <1>7, <2>1 DEF B!TypeOK, Counts, B!Pass, B!PlayGoes
  <2>2. CASE i # Players
    BY <1>2, <1>3, <1>4, <1>7, <2>2 DEF B!TypeOK, Counts, B!Pass, B!FinishRound, B!PlayGoes
  <2> QED
    BY <2>1, <2>2
<1>8. CASE B!PassToHost(i)
  BY <1>2, <1>3, <1>4, <1>8 DEF B!TypeOK, Counts, B!PassToHost, B!FinishRound, B!PlayGoes
<1> QED
  BY <1>5, <1>6, <1>7, <1>8 DEF B!PlayStep

\* A step of a child keeps the order of the turns: only the one that has the baton, or
\* the last one with the baton of nobody, can go.
LEMMA ChildKeepsTurns ==
  ASSUME Players + 1 < B!Host, BatonInv, NEW i \in B!Position, B!PlayStep(i), left \notin B!Position
  PROVE  InTurns'
<1>1. play[i] # "end"
  BY DEF B!PlayStep, B!Turn, B!Draw, B!Pass, B!PassToHost, B!FinishRound, B!PlayGoes
<1>2. /\ played[i] \in Nat /\ played[i] + 1 \in 0..Rounds /\ i \in 1..Players
      /\ slots \in [B!Position -> 0..Rounds] /\ played \in [B!Position -> 0..Rounds]
      /\ play \in [B!Position -> {"turn", "draw", "pass", "last", "end"}]
  BY ONLY BatonInv, <1>1, i \in B!Position, ChildFacts
<1>3. InTurns
  BY DEF BatonInv
<1>4. UNCHANGED <<left, host, round, shown>>
  BY DEF B!PlayStep, B!Turn, B!Draw, B!Pass, B!PassToHost, B!FinishRound, B!PlayGoes
<1>5. /\ play' = [play EXCEPT ![i] = play'[i]] /\ played' = [played EXCEPT ![i] = played'[i]]
      /\ slots' = [slots EXCEPT ![i] = slots'[i]]
  BY <1>2 DEF B!PlayStep, B!Turn, B!Draw, B!Pass, B!PassToHost, B!FinishRound, B!PlayGoes
<1>6. \A j \in B!Position \ {i} : play'[j] = play[j] /\ played'[j] = played[j] /\ slots'[j] = slots[j]
  BY <1>2, <1>5
<1>7. Players \in Nat \ {0} /\ Rounds \in Nat \ {0} /\ round \in Nat /\ B!Position = 1..Players /\ B!Host = 999
  BY MemoryAssumption DEF MemoryAssumption, BatonInv, B!TypeOK, B!Position, B!Host
<1>8. host = "wait" /\ baton # B!Host
  <2>1. host # "wait" \/ baton = B!Host => Done(i) /\ ~B!Turn(i)
    BY <1>2, <1>3, <1>7 DEF InTurns, B!Turn
  <2>2. CASE B!Turn(i)
    BY <2>1, <2>2
  <2>3. CASE ~B!Turn(i)
    <3>1. play[i] \in {"draw", "pass", "last"}
      BY <2>3 DEF B!PlayStep, B!Draw, B!Pass, B!PassToHost, B!PlayGoes, B!FinishRound
    <3> QED
      BY <2>1, <3>1 DEF Done
  <2> QED
    BY <2>2, <2>3
<1>9. /\ round >= 1 /\ baton \in 1..Players + 1
      /\ \A j \in B!Position :
           /\ j < baton => IF j = Players /\ baton = Players + 1 THEN Passing(j) ELSE Done(j)
           /\ j = baton => Drawing(j)
           /\ j > baton => Ahead(j)
  BY <1>3, <1>8, Zenon DEF InTurns
<1>10. /\ (i < baton /\ ~(i = Players /\ baton = Players + 1) => Done(i))
       /\ (i = Players /\ baton = Players + 1 => Passing(i))
       /\ (i = baton => Drawing(i)) /\ (i > baton => Ahead(i))
  BY <1>7, <1>9
<1>11. CASE B!Turn(i)
  <2>1. baton = i /\ baton' = baton /\ play[i] = "turn" /\ play'[i] = "draw" /\ played'[i] = played[i]
    BY <1>2, <1>11 DEF B!Turn, B!PlayGoes
  <2> QED
    BY <1>2, <1>4, <1>6, <1>7, <1>8, <1>9, <2>1 DEF InTurns, Done, Ahead, Drawing, Passing
<1>12. CASE B!Draw(i)
  <2>1. /\ baton' = baton /\ play[i] = "draw" /\ play'[i] = "pass" /\ played'[i] = played[i]
        /\ slots'[i] = played[i] + 1
    BY <1>2, <1>12 DEF B!Draw, B!PlayGoes
  <2>2. i = baton
    BY <1>2, <1>7, <1>9, <1>10, <2>1 DEF Done, Ahead, Passing
  <2> QED
    BY <1>2, <1>4, <1>6, <1>7, <1>8, <1>9, <2>1, <2>2 DEF InTurns, Done, Ahead, Drawing, Passing
<1>13. CASE B!Pass(i)
  <2>1. baton' = i + 1 /\ play[i] = "pass" /\ slots'[i] = slots[i]
    BY <1>2, <1>13 DEF B!Pass, B!FinishRound, B!PlayGoes
  <2>2. i = baton
    BY <1>2, <1>7, <1>9, <1>10, <2>1 DEF Done, Ahead, Passing
  <2>3. CASE i = Players
    <3>1. play'[i] = "last" /\ played'[i] = played[i]
      BY <1>2, <1>13, <2>3 DEF B!Pass, B!PlayGoes
    <3> QED
      BY <1>2, <1>4, <1>6, <1>7, <1>8, <1>9, <2>1, <2>2, <2>3, <3>1 DEF InTurns, Done, Ahead, Drawing, Passing
  <2>4. CASE i # Players
    <3>1. play'[i] \in {"turn", "end"} /\ played'[i] = played[i] + 1
      BY <1>2, <1>13, <2>4 DEF B!Pass, B!FinishRound, B!PlayGoes
    <3> QED
      BY <1>2, <1>4, <1>6, <1>7, <1>8, <1>9, <2>1, <2>2, <2>4, <3>1 DEF InTurns, Done, Ahead, Drawing, Passing
  <2> QED
    BY <2>3, <2>4
<1>14. CASE B!PassToHost(i)
  <2>1. /\ baton' = B!Host /\ play[i] = "last" /\ play'[i] \in {"turn", "end"} /\ played'[i] = played[i] + 1
        /\ slots'[i] = slots[i]
    BY <1>2, <1>14 DEF B!PassToHost, B!FinishRound, B!PlayGoes
  <2>2. i = Players /\ baton = Players + 1
    BY <1>2, <1>7, <1>9, <1>10, <2>1 DEF Done, Ahead, Drawing
  <2>3. Done(i)'
    BY <1>2, <1>4, <1>7, <1>10, <2>1, <2>2 DEF Done, Passing
  <2>4. \A j \in B!Position \ {i} : Done(j)
    BY <1>7, <1>9, <2>2
  <2>5. \A j \in B!Position \ {i} : Done(j)'
    BY <1>4, <1>6, <2>4 DEF Done
  <2> QED
    BY <1>3, <1>4, <1>7, <1>8, <1>9, <2>1, <2>3, <2>5 DEF InTurns
<1> QED
  BY <1>11, <1>12, <1>13, <1>14 DEF B!PlayStep

\* Nothing else touches the draw.
LEMMA BatonFrame == BatonInv /\ UNCHANGED batonVars => BatonInv'
  BY DEF batonVars, BatonInv, B!TypeOK, Counts, InTurns, Done, Ahead, Drawing, Passing, B!Position

\* When the parent has the baton all numbers are those of its round.
LEMMA BatonShows == BatonInv => B!NumbersOfRound
  BY DEF BatonInv, InTurns, Done, B!NumbersOfRound

\* A step of the draw keeps its invariant.
LEMMA BatonStep ==
  ASSUME Players + 1 < B!Host, BatonInv, B!Next
  PROVE  BatonInv'
<1>1. ASSUME NEW i \in B!Position, B!PlayStep(i)
      PROVE  BatonInv'
  <2>1. B!TypeOK' /\ Counts' /\ left' = left
    BY <1>1, ChildKeepsTypes
  <2>2. left \notin B!Position => InTurns'
    BY <1>1, ChildKeepsTurns
  <2>3. B!Position' = B!Position
    BY DEF B!Position
  <2> QED
    BY <2>1, <2>2, <2>3, Zenon DEF BatonInv
<1> QED
  BY <1>1, HostKeepsTurns DEF B!Next

-----------------------------------------------------------------------------
(* The board game *)

\* Where a client has the mutex.
Section == {"look", "zero", "unlock", "game_over"}

\* Before the mutex is made nobody has had it; after that, one at a time.
BoardHeld ==
  /\ srv \in {"create", "size", "number", "fill", "mutex"} => kind = "plain"
  /\ kind = "plain" => holder = G!Nobody /\ \A c \in Clients : cl[c] \notin Section /\ won[c] = {}
  /\ \A c \in Clients : cl[c] \in Section => holder = c

\* The points of a client are still on the board only when it is about to take them or was
\* killed before it did, and only then has another one got them too.
Scored ==
  /\ \A c \in Clients : \A f \in won[c] \cap board : cl[c] = "killed" \/ (cl[c] = "zero" /\ aim[c] = f)
  /\ \A c, d \in Clients : c # d /\ won[c] \cap won[d] # {} => cl[c] = "killed" \/ cl[d] = "killed"

\* The tables of the clients.
Tables ==
  /\ cl \in [Clients -> G!ClientPlaces] /\ aim \in [Clients -> 0..Fields]
  /\ won \in [Clients -> SUBSET (1..Fields)]

GameInv == Tables /\ (~early => BoardHeld /\ Scored)

\* The invariant of the game holds at the start.
LEMMA GameInit == G!Init => GameInv
<1> SUFFICES ASSUME G!Init PROVE GameInv
  OBVIOUS
<1> USE MemoryAssumption DEF MemoryAssumption, G!Init
<1>1. Tables
  BY DEF Tables, G!ClientPlaces
<1>2. BoardHeld /\ Scored
  BY DEF BoardHeld, Scored, Section
<1> QED
  BY <1>1, <1>2 DEF GameInv

\* A step of the server keeps it.
LEMMA ServerKeepsGame ==
  ASSUME GameInv, G!RunServer \/ G!Sighandling \/ G!Interrupt
  PROVE  GameInv'
<1> USE MemoryAssumption DEF MemoryAssumption, G!RunServer, G!Sighandling, G!Interrupt, G!Prepare, G!FillField,
      G!MakeMutex, G!Mask, G!Test, G!LockBoard, G!ShowBoard, G!Finish, G!ServerGoes,
      G!locals, G!memory, G!mutex, G!flags, G!Unlocked, G!Nobody, G!Server
<1>1. Tables'
  BY DEF GameInv, Tables, G!ClientPlaces
<1>2. ASSUME ~early'
      PROVE  BoardHeld' /\ Scored'
  <2>1. BoardHeld /\ Scored
    BY <1>2 DEF GameInv, G!Locked
  <2>2. BoardHeld'
    BY <1>2, <2>1 DEF BoardHeld, GameInv, Tables, Section, G!Locked, G!Setup, G!Dead, G!ClientEnds
  <2>3. Scored'
    BY <1>2, <2>1 DEF Scored, BoardHeld, G!Locked, G!Setup
  <2> QED
    BY <2>2, <2>3
<1> QED
  BY <1>1, <1>2 DEF GameInv

\* A step of a client keeps it: it gets points that are still on the board only in its
\* section, where no other client is that has yet to take some.
LEMMA ClientKeepsGame ==
  ASSUME GameInv, NEW c \in Clients, G!RunClient(c) \/ G!Kill(c)
  PROVE  GameInv'
<1> USE MemoryAssumption DEF MemoryAssumption, G!RunClient, G!Open, G!ReadN, G!LockField, G!Ops, G!Look,
      G!ZeroField, G!UnlockField, G!Kill, G!ClientGoes, G!locals, G!memory, G!mutex, G!flags, G!Unlocked,
      G!Nobody, G!Server
<1>1. Tables'
  BY DEF GameInv, Tables, G!ClientPlaces, G!ClientEnds
<1>2. ASSUME ~early'
      PROVE  BoardHeld' /\ Scored'
  <2>1. BoardHeld /\ Scored /\ Tables
    BY <1>2 DEF GameInv, G!Locked
  <2>2. BoardHeld'
    BY <1>2, <2>1 DEF BoardHeld, Tables, Section, G!Locked, G!Dead, G!ClientEnds
  <2>3. Scored'
    BY <1>2, <2>1 DEF Scored, BoardHeld, Tables, Section, G!Locked
  <2> QED
    BY <2>2, <2>3
<1> QED
  BY <1>1, <1>2 DEF GameInv

\* Nothing else touches the game.
LEMMA GameFrame == GameInv /\ UNCHANGED gameVars => GameInv'
  BY DEF gameVars, GameInv, Tables, BoardHeld, Scored

\* The fields are scored once.
LEMMA GameScores == GameInv => G!FieldsScoredOnce
  BY DEF GameInv, Scored, G!FieldsScoredOnce

-----------------------------------------------------------------------------
(* Sequences of objects *)

\* An object is changed.
LEMMA Changed ==
  ASSUME NEW S, NEW s \in Seq(S), NEW k \in 1..Len(s), NEW e \in S, NEW t, t = [s EXCEPT ![k] = e]
  PROVE  /\ t \in Seq(S) /\ Len(t) = Len(s) /\ t[k] = e
         /\ \A j \in 1..Len(s) : j # k => t[j] = s[j]
  OBVIOUS

\* An object is made.
LEMMA Added ==
  ASSUME NEW S, NEW s \in Seq(S), NEW e \in S, NEW t, t = Append(s, e)
  PROVE  /\ t \in Seq(S) /\ Len(t) = Len(s) + 1 /\ t[Len(s) + 1] = e
         /\ \A j \in 1..Len(s) : t[j] = s[j]
  OBVIOUS

-----------------------------------------------------------------------------
(* The integration: its semaphores *)

\* Between sem_timedwait and the post that follows it.
Within == Joining \cup {"leave", "leave_store", "print", "destroy", "unlink", "unlink_sem", "post_last"}
Lost == {"failed", "killed", "expired"}

\* Within, but for those that have unlinked the semaphore or left.
Active == Within \ {"post_last"}

\* Who has started has opened a semaphore that was made.
Opened ==
  /\ pc \in [Procs -> Places] /\ sems \in Seq({0, 1})
  /\ semName \in 0..Len(sems) /\ sem \in [Procs -> 0..Len(sems)]
  /\ \A p \in Procs : pc[p] # "start" => sem[p] # 0

\* One process at a time is within a semaphore, which is 0 then and only then, but for
\* those that nobody will post any more.
OneWithin ==
  /\ \A p \in Procs : pc[p] \in Within => sems[sem[p]] = 0
  /\ \A p, q \in Procs : pc[p] \in Within /\ pc[q] \in Within /\ sem[p] = sem[q] => p = q
  /\ \A k \in 1..Len(sems) : sems[k] = 0 => \E p \in Procs : sem[p] = k /\ pc[p] \in Within \cup Lost

\* What a step of p is for the semaphores: it opens one, takes it, posts it, or neither.
Opens(p) ==
  /\ pc[p] \notin Within \cup Lost /\ pc'[p] \notin Within \cup Lost \cup {"start"}
  /\ OpenSem(p)
Takes(p) == pc[p] \notin Within \cup Lost \cup {"start"} /\ pc'[p] \in Within /\ Acquire(p)
Posts(p) == pc[p] \in Within /\ pc'[p] \notin Within \cup {"start"} /\ Post(p) /\ UNCHANGED <<sem, semName, stale>>
Stays(p) ==
  /\ pc[p] # "start" /\ pc'[p] # "start" /\ (pc'[p] \in Within => pc[p] \in Within)
  /\ (pc[p] \in Within \cup Lost => pc'[p] \in Within \cup Lost)
  /\ (pc'[p] \in Active => pc[p] \in Active /\ semName' = semName)
  /\ UNCHANGED <<sems, sem, stale>> /\ (semName' = semName \/ (semName' = 0 /\ pc[p] \in Active))

\* Every step is one of these.
LEMMA SemMoves ==
  ASSUME Opened, NEW p \in Procs, Step(p)
  PROVE  /\ pc' = [pc EXCEPT ![p] = pc'[p]] /\ pc'[p] \in Places
         /\ Opens(p) \/ Takes(p) \/ Posts(p) \/ Stays(p)
<1> USE DEF Opened, Goes, Keeps, names, Places, Joining, Attached, Within, Lost, Active
<1>1. CASE Start(p) \/ Reopen(p)
  BY <1>1 DEF Start, Reopen, Opens
<1>2. CASE Enter(p) \/ Reenter(p)
  BY <1>2 DEF Enter, Reenter, Takes, Stays, TimesOut, Acquire
<1>3. CASE OpenExisting(p) \/ Size(p) \/ Joined(p) \/ Finished(p)
  BY <1>3 DEF OpenExisting, Size, Joined, Finished, Posts, Stays
<1>4. CASE Create(p) \/ Fill(p) \/ InitMutex(p) \/ Check(p) \/ Count(p) \/ Load(p) \/ Store(p) \/ Unlock(p)
  BY <1>4 DEF Create, Fill, InitMutex, Check, Count, Load, Store, Unlock, Stays
<1>5. CASE Work(p) \/ Report(p) \/ Leave(p) \/ LeaveStore(p) \/ PrintResult(p) \/ DestroyMutex(p)
  BY <1>5 DEF Work, Report, Leave, LeaveStore, PrintResult, DestroyMutex, Stays
<1>6. CASE UnlinkMem(p) \/ UnlinkSem(p)
  BY <1>6 DEF UnlinkMem, UnlinkSem, Stays
<1> QED
  BY <1>1, <1>2, <1>3, <1>4, <1>5, <1>6, Zenon DEF Step, MemInit, Finish

\* The semaphores hold at the start.
LEMMA SemInit == Init => Opened /\ OneWithin
<1> SUFFICES ASSUME Init PROVE Opened /\ OneWithin
  OBVIOUS
<1> QED
  BY DEF Init, Opened, OneWithin, Within, Joining, Places

\* Every step keeps what is opened and who is within.
LEMMA SemStep ==
  ASSUME Opened, OneWithin, NEW p \in Procs, Step(p)
  PROVE  Opened' /\ OneWithin'
<1>1. /\ pc' = [pc EXCEPT ![p] = pc'[p]] /\ pc'[p] \in Places
      /\ Opens(p) \/ Takes(p) \/ Posts(p) \/ Stays(p)
  BY SemMoves
<1>2. /\ pc' \in [Procs -> Places] /\ \A q \in Procs : q # p => pc'[q] = pc[q]
  BY <1>1 DEF Opened
<1>3. \A q \in Procs : pc[q] \in Within \cup Lost => pc[q] # "start" /\ sem[q] \in 1..Len(sems)
  BY DEF Opened, Within, Joining, Lost
<1>4. Len(sems) \in Nat /\ sems \in Seq({0, 1})
  BY DEF Opened
<1>5. CASE Opens(p)
  <2>1. CASE semName # 0
    <3>1. /\ sems' = sems /\ semName' = semName
          /\ sem' = [sem EXCEPT ![p] = semName]
      BY <1>5, <2>1 DEF Opens, OpenSem
    <3>2. sem' \in [Procs -> 0..Len(sems)] /\ sem'[p] = semName /\ \A q \in Procs : q # p => sem'[q] = sem[q]
      BY <3>1 DEF Opened
    <3>3. Opened'
      BY <1>2, <2>1, <3>1, <3>2 DEF Opened
    <3> QED
      BY <1>2, <1>5, <3>1, <3>2, <3>3 DEF OneWithin, Opens
  <2>2. CASE semName = 0
    <3>1. /\ sems' = Append(sems, 1) /\ semName' = Len(sems) + 1
          /\ sem' = [sem EXCEPT ![p] = Len(sems) + 1]
      BY <1>5, <2>2 DEF Opens, OpenSem
    <3>2. /\ sems' \in Seq({0, 1}) /\ Len(sems') = Len(sems) + 1 /\ sems'[Len(sems) + 1] = 1
          /\ \A k \in 1..Len(sems) : sems'[k] = sems[k]
      BY <1>4, <3>1, Added
    <3>3. sem' \in [Procs -> 0..Len(sems) + 1] /\ sem'[p] = Len(sems) + 1 /\ \A q \in Procs : q # p => sem'[q] = sem[q]
      BY <1>4, <3>1 DEF Opened
    <3>4. Opened'
      BY <1>2, <1>4, <3>1, <3>2, <3>3 DEF Opened
    <3>5. pc[p] \notin Within \cup Lost /\ pc'[p] \notin Within \cup Lost
      BY <1>5 DEF Opens
    <3>6. \A q \in Procs : pc'[q] \in Within => q # p /\ pc[q] \in Within /\ sem'[q] = sem[q] /\ sems'[sem'[q]] = 0
      BY <1>2, <1>3, <3>2, <3>3, <3>5 DEF OneWithin
    <3>7. ASSUME NEW k \in 1..Len(sems'), sems'[k] = 0
          PROVE  \E q \in Procs : sem'[q] = k /\ pc'[q] \in Within \cup Lost
      <4>1. k \in 1..Len(sems) /\ sems[k] = 0
        BY <1>4, <3>2, <3>7
      <4>2. PICK q \in Procs : sem[q] = k /\ pc[q] \in Within \cup Lost
        BY <4>1 DEF OneWithin
      <4> QED
        BY <1>2, <3>3, <3>5, <4>2
    <3> QED
      BY <3>4, <3>6, <3>7 DEF OneWithin
  <2> QED
    BY <2>1, <2>2
<1>6. CASE Takes(p)
  <2>1. /\ sem[p] \in 1..Len(sems) /\ sems[sem[p]] = 1 /\ sems' = [sems EXCEPT ![sem[p]] = 0]
        /\ sem' = sem /\ semName' = semName /\ pc[p] \notin Within /\ pc'[p] \in Within
    <3>1. sem[p] \in 1..Len(sems)
      BY <1>4, <1>6 DEF Takes, Opened
    <3>2. sems[sem[p]] \in {0, 1}
      BY <1>4, <3>1
    <3>3. /\ sems[sem[p]] > 0 /\ sems' = [sems EXCEPT ![sem[p]] = sems[sem[p]] - 1]
          /\ sem' = sem /\ semName' = semName /\ pc[p] \notin Within /\ pc'[p] \in Within
      BY <1>6 DEF Takes, Acquire, names
    <3>4. sems[sem[p]] = 1 /\ sems[sem[p]] - 1 = 0
      BY <3>2, <3>3
    <3> QED
      BY ONLY <3>1, <3>3, <3>4
  <2>2. /\ sems' \in Seq({0, 1}) /\ Len(sems') = Len(sems) /\ sems'[sem[p]] = 0
        /\ \A k \in 1..Len(sems) : k # sem[p] => sems'[k] = sems[k]
    BY <1>4, <2>1, Changed
  <2>3. Opened'
    BY <1>2, <1>6, <2>1, <2>2 DEF Opened, Takes, Within, Joining
  <2>4. \A q \in Procs : pc[q] \in Within => sem[q] # sem[p]
    BY <2>1 DEF OneWithin
  <2> QED
    BY <1>2, <1>3, <2>1, <2>2, <2>3, <2>4 DEF OneWithin
<1>7. CASE Posts(p)
  <2>1. /\ sem[p] \in 1..Len(sems) /\ sems[sem[p]] = 0 /\ sems' = [sems EXCEPT ![sem[p]] = 1]
        /\ sem' = sem /\ semName' = semName /\ pc[p] \in Within /\ pc'[p] \notin Within
    <3>1. /\ sems' = [sems EXCEPT ![sem[p]] = sems[sem[p]] + 1]
          /\ sem' = sem /\ semName' = semName /\ pc[p] \in Within /\ pc'[p] \notin Within
      BY <1>7 DEF Posts, Post
    <3>2. sem[p] \in 1..Len(sems) /\ sems[sem[p]] = 0
      BY <1>3, <3>1, Zenon DEF OneWithin
    <3>3. sems[sem[p]] + 1 = 1
      BY <3>2
    <3> QED
      BY ONLY <3>1, <3>2, <3>3
  <2>2. /\ sems' \in Seq({0, 1}) /\ Len(sems') = Len(sems) /\ sems'[sem[p]] = 1
        /\ \A k \in 1..Len(sems) : k # sem[p] => sems'[k] = sems[k]
    BY <1>4, <2>1, Changed
  <2>3. Opened'
    BY <1>2, <1>7, <2>1, <2>2 DEF Opened, Posts, Within, Joining
  <2>4. \A q \in Procs : q # p /\ pc[q] \in Within => sem[q] # sem[p]
    BY <2>1 DEF OneWithin
  <2> QED
    BY <1>2, <1>3, <2>1, <2>2, <2>3, <2>4 DEF OneWithin
<1>8. CASE Stays(p)
  <2>1. Opened'
    BY <1>2, <1>8 DEF Opened, Stays
  <2> QED
    BY <1>2, <1>3, <1>8, <2>1 DEF OneWithin, Stays
<1> QED
  BY <1>1, <1>5, <1>6, <1>7, <1>8

\* The semaphores are as the property of the integration says.
LEMMA SemFacts == Opened /\ OneWithin => SemHeldOrLost
<1> SUFFICES ASSUME Opened, OneWithin, NEW k \in DOMAIN sems
             PROVE  /\ Cardinality(Inside(k)) <= 1 - sems[k]
                    /\ sems[k] = 0 /\ Inside(k) = {} =>
                         \E p \in Procs : sem[p] = k /\ pc[p] \in {"failed", "killed", "expired"}
  BY Zenon DEF SemHeldOrLost
<1>1. k \in 1..Len(sems) /\ sems[k] \in {0, 1}
  BY DEF Opened
<1>2. \A p \in Procs : p \in Inside(k) <=> sem[p] = k /\ pc[p] \in Within
  BY DEF Inside, Within
<1>3. ASSUME Inside(k) # {}
      PROVE  Cardinality(Inside(k)) = 1 /\ sems[k] = 0
  <2>1. PICK p \in Procs : p \in Inside(k)
    BY <1>3 DEF Inside
  <2>2. Inside(k) = {p}
    BY <1>2, <2>1 DEF OneWithin, Inside
  <2> QED
    BY <1>2, <2>1, <2>2, FS_Singleton DEF OneWithin
<1>4. Inside(k) = {} => Cardinality(Inside(k)) = 0
  BY FS_EmptySet
<1>5. Cardinality(Inside(k)) <= 1 - sems[k]
  BY <1>1, <1>3, <1>4
<1>6. sems[k] = 0 => \E p \in Procs : sem[p] = k /\ pc[p] \in Within \cup Lost
  BY <1>1 DEF OneWithin
<1> QED
  BY <1>2, <1>5, <1>6 DEF Lost

\* As long as nobody has waited for a semaphore that was unlinked by then, all of them
\* have the semaphore of the name, so that there is one at most.
NamedWithin == ~stale => \A p \in Procs : pc[p] \in Active => sem[p] = semName

\* There is one active process at a time.
LEMMA OneActive ==
  ASSUME Opened, OneWithin, NamedWithin, ~stale, NEW p \in Procs, NEW q \in Procs,
         pc[p] \in Active, pc[q] \in Active
  PROVE  p = q /\ semName # 0
  BY DEF Opened, OneWithin, NamedWithin, Active, Within, Joining

\* Every step keeps the names of the semaphores.
LEMMA NameStep ==
  ASSUME Opened, OneWithin, NamedWithin, NEW p \in Procs, Step(p)
  PROVE  NamedWithin'
<1> SUFFICES ASSUME ~stale', NEW q \in Procs, pc'[q] \in Active
             PROVE  sem'[q] = semName'
  BY DEF NamedWithin
<1>1. /\ pc' = [pc EXCEPT ![p] = pc'[p]] /\ pc'[p] \in Places
      /\ Opens(p) \/ Takes(p) \/ Posts(p) \/ Stays(p)
  BY SemMoves
<1>2. /\ pc' \in [Procs -> Places] /\ \A r \in Procs : r # p => pc'[r] = pc[r]
  BY <1>1 DEF Opened
<1>3. \A r \in Procs : pc[r] \in Active /\ ~stale => sem[r] = semName /\ semName # 0 /\ pc[r] \in Within
  BY OneActive DEF NamedWithin, Active
<1>4. CASE Opens(p)
  <2>1. stale' = stale /\ q # p /\ pc[q] \in Active
    BY <1>2, <1>4 DEF Opens, OpenSem, Active
  <2>2. semName' = semName /\ sem' = [sem EXCEPT ![p] = semName']
    BY <1>3, <1>4, <2>1 DEF Opens, OpenSem
  <2> QED
    BY <1>3, <2>1, <2>2 DEF Opened
<1>5. CASE Takes(p)
  <2>1. stale' = (stale \/ sem[p] # semName) /\ sem' = sem /\ semName' = semName
    BY <1>5, Zenon DEF Takes, Acquire, names
  <2>2. ~stale /\ sem[p] = semName
    BY <2>1
  <2> QED
    BY <1>2, <1>3, <2>1, <2>2
<1>6. CASE Posts(p)
  BY <1>2, <1>3, <1>6 DEF Posts, Active
<1>7. CASE Stays(p)
  <2>1. CASE q = p
    BY <1>3, <1>7, <2>1 DEF Stays
  <2>2. CASE q # p
    <3>1. pc[q] \in Active /\ stale' = stale /\ sem' = sem
      BY <1>2, <1>7, <2>2 DEF Stays
    <3>2. pc[p] \notin Active
      BY <2>2, <3>1, OneActive
    <3> QED
      BY <1>3, <1>7, <3>1, <3>2 DEF Stays
  <2> QED
    BY <2>1, <2>2
<1> QED
  BY <1>1, <1>4, <1>5, <1>6, <1>7

-----------------------------------------------------------------------------
(* The integration: its shared memory *)

\* A shared memory object; where a process has the named one within the semaphore; where
\* it is one of the workers that the object counts; where it has opened one.
MemRecord == [sized : BOOLEAN, range : Ranges \cup {0}, workers : Int, tried : Nat,
              lock : Procs \cup {Free, Destroyed}]
Printing == {"print", "destroy", "unlink"}
Holding == {"size", "fill", "mutex", "check", "count", "load", "store", "unlock", "post",
            "leave", "leave_store"} \cup Printing
Working == {"mutex", "unlock", "post", "work", "report", "reopen", "reacquire", "leave", "leave_store", "expired"}
Mapped == Holding \cup Attached
Busy == {"work", "report"}

\* Who has shared memory has opened an object that was made.
Attaching ==
  /\ range \in [Procs -> Ranges] /\ temp \in [Procs -> Int]
  /\ mems \in Seq(MemRecord) /\ memName \in 0..Len(mems) /\ mem \in [Procs -> 0..Len(mems)]
  /\ \A p \in Procs : pc[p] \in Mapped => mem[p] # 0

\* A process has all its batches to do until it has joined, and none when it leaves.
Batched ==
  /\ batch \in [Procs -> 0..Batches]
  /\ \A p \in Procs :
       /\ pc[p] \notin Attached => batch[p] = Batches
       /\ pc[p] \in Busy => batch[p] # 0
       /\ pc[p] \in Attached \ Busy => batch[p] = 0

\* What a step of p writes to the objects: the workers and the batches of its own.
Writes(p, w, t) ==
  /\ mems' \in Seq(MemRecord) /\ Len(mems') = Len(mems)
  /\ \A m \in 1..Len(mems) :
       /\ mems'[m].workers = IF m = mem[p] THEN w ELSE mems[m].workers
       /\ mems'[m].tried = IF m = mem[p] THEN t ELSE mems[m].tried
Kept ==
  /\ mems' \in Seq(MemRecord) /\ Len(mems') = Len(mems)
  /\ \A m \in 1..Len(mems) : mems'[m].workers = mems[m].workers /\ mems'[m].tried = mems[m].tried

\* What a step of p is for the shared memory: it makes or finds an object, or takes the
\* name of one back; it writes to it; it adds a batch; or it only passes on.
Makes(p) ==
  /\ pc[p] = "create" /\ pc'[p] = "size" /\ memName = 0 /\ UNCHANGED batch
  /\ mems' = Append(mems, NewMem) /\ memName' = Len(mems) + 1 /\ mem' = [mem EXCEPT ![p] = Len(mems) + 1]
Finds(p) ==
  /\ pc[p] = "open" /\ pc'[p] = "check" /\ memName # 0 /\ UNCHANGED <<mems, memName, batch>>
  /\ mem' = [mem EXCEPT ![p] = memName]
Unnames(p) ==
  /\ <<pc[p], pc'[p]>> \in {<<"size", "failed">>, <<"unlink", "unlink_sem">>, <<"unlink", "expired">>}
  /\ (pc'[p] = "expired" => memName = 0) /\ memName' = 0 /\ UNCHANGED <<mems, mem, batch>>
Fills(p) == pc[p] = "fill" /\ pc'[p] = "mutex" /\ Writes(p, 1, 0) /\ UNCHANGED <<memName, mem, batch>>
Joins(p) ==
  /\ pc[p] = "store" /\ pc'[p] = "unlock" /\ Writes(p, temp[p] + 1, Mem(p).tried)
  /\ UNCHANGED <<memName, mem, batch>>
Leaves(p) ==
  /\ pc[p] = "leave_store" /\ pc'[p] = (IF temp[p] = 0 THEN "print" ELSE "post_last")
  /\ Writes(p, temp[p], Mem(p).tried) /\ UNCHANGED <<memName, mem, batch>>
Adds(p) ==
  /\ pc[p] = "report" /\ pc'[p] = (IF batch[p] > 1 THEN "work" ELSE "reopen")
  /\ Writes(p, Mem(p).workers, Mem(p).tried + 1) /\ UNCHANGED <<memName, mem>>
  /\ batch' = [batch EXCEPT ![p] = @ - 1]
Passes(p) ==
  /\ Kept /\ UNCHANGED <<memName, mem, batch>>
  /\ pc'[p] \in Working <=> pc[p] \in Working \/ <<pc[p], pc'[p]>> = <<"unlink_sem", "expired">>
  /\ (pc'[p] = "expired" /\ pc[p] = "unlink_sem" => semName = 0)
  /\ (pc'[p] \in Holding => pc[p] \in Holding \cup {"reacquire"}) /\ (pc'[p] \in Mapped => pc[p] \in Mapped)
  /\ (pc'[p] \in {"size", "fill"} => pc[p] = "size") /\ (pc'[p] \in Printing => pc[p] \in Printing)
  /\ (pc'[p] = "store" => temp'[p] = Mem(p).workers) /\ (pc'[p] = "leave_store" => temp'[p] = Mem(p).workers - 1)
  /\ (pc'[p] \notin Attached => pc[p] \notin Attached)
  /\ (pc'[p] \in Busy => pc[p] \in {"post", "work"})
  /\ (pc'[p] \in Attached \ Busy => pc[p] \in Attached \ Busy)

\* To change a record of an object leaves the others.
LEMMA RecordWrites ==
  ASSUME Attaching, NEW p \in Procs, mem[p] # 0, NEW r \in MemRecord, mems' = [mems EXCEPT ![mem[p]] = r]
  PROVE  Writes(p, r.workers, r.tried)
<1>1. mems \in Seq(MemRecord) /\ mem[p] \in 1..Len(mems)
  BY DEF Attaching
<1> QED
  BY <1>1, Changed DEF Writes

\* To change a lock or a size keeps the counts.
LEMMA RecordKept ==
  ASSUME Attaching, NEW p \in Procs, mem[p] # 0, NEW r \in MemRecord, mems' = [mems EXCEPT ![mem[p]] = r],
         r.workers = Mem(p).workers, r.tried = Mem(p).tried
  PROVE  Kept
<1>1. mems \in Seq(MemRecord) /\ mem[p] \in 1..Len(mems)
  BY DEF Attaching
<1> QED
  BY <1>1, Changed DEF Kept, Mem

\* What a record is when it is filled, when its workers change, and when a batch is added.
LEMMA FilledRecord ==
  ASSUME NEW m \in MemRecord, NEW g \in Ranges, NEW r, r = [m EXCEPT !.workers = 1, !.tried = 0, !.range = g]
  PROVE  r \in MemRecord /\ r.workers = 1 /\ r.tried = 0
<1>1. 1 \in Int /\ 0 \in Nat /\ g \in Ranges \cup {0}
  OBVIOUS
<1> QED
  BY <1>1, Zenon DEF MemRecord

LEMMA CountedRecord ==
  ASSUME NEW m \in MemRecord, NEW w \in Int, NEW r, r = [m EXCEPT !.workers = w]
  PROVE  r \in MemRecord /\ r.workers = w /\ r.tried = m.tried
  BY Zenon DEF MemRecord

LEMMA AddedRecord ==
  ASSUME NEW m \in MemRecord, NEW l \in Procs \cup {Free, Destroyed}, NEW r,
         r = [m EXCEPT !.tried = @ + 1, !.lock = l]
  PROVE  r \in MemRecord /\ r.workers = m.workers /\ r.tried = m.tried + 1
<1>1. m.tried \in Nat
  BY Zenon DEF MemRecord
<1>2. m.tried + 1 \in Nat
  BY <1>1
<1> QED
  BY <1>2, Zenon DEF MemRecord

\* Every step is one of these.
LEMMA MemMoves ==
  ASSUME Opened, Attaching, NEW p \in Procs, Step(p)
  PROVE  /\ temp' \in [Procs -> Int] /\ range' = range
         /\ \A q \in Procs : q # p => temp'[q] = temp[q]
         /\ \/ Makes(p) \/ Finds(p) \/ Unnames(p) \/ Fills(p)
            \/ Joins(p) \/ Leaves(p) \/ Adds(p) \/ Passes(p)
<1>1. /\ mems \in Seq(MemRecord) /\ temp \in [Procs -> Int] /\ pc \in [Procs -> Places]
      /\ range \in [Procs -> Ranges]
      /\ pc[p] \in Mapped => mem[p] # 0 /\ mem[p] \in 1..Len(mems) /\ Mem(p) \in MemRecord
  BY DEF Attaching, Opened, Mem
<1>0. pc[p] \in Mapped => /\ Mem(p).lock \in Procs \cup {Free, Destroyed}
                          /\ Unlocked(Mem(p), p) \in Procs \cup {Free, Destroyed}
  <2>1. Mem(p) \in MemRecord => Mem(p).lock \in Procs \cup {Free, Destroyed}
    BY DEF MemRecord
  <2> QED
    BY <1>1, <2>1, Zenon DEF Unlocked
<1>2. mems' = mems => Kept
  BY <1>1 DEF Kept
<1>3. range' = range
  BY Zenon DEF Step, MemInit, Finish, Start, Enter, Create, OpenExisting, Size, Fill, InitMutex, Check, Count,
     Load, Store, Unlock, Joined, Work, Report, Reopen, Reenter, Leave, LeaveStore, PrintResult, DestroyMutex,
     UnlinkMem, UnlinkSem, Finished, Goes
<1>4. ASSUME temp' = temp, ~Load(p), ~Leave(p)
      PROVE  Makes(p) \/ Finds(p) \/ Unnames(p) \/ Fills(p) \/ Joins(p) \/ Leaves(p) \/ Adds(p) \/ Passes(p)
  <2> USE DEF Goes, Keeps, names, Mapped, Holding, Printing, Working, Busy, Attached, OpenSem, Acquire, TimesOut, Post
  <2>1. CASE Start(p) \/ Reopen(p) \/ Enter(p) \/ Reenter(p)
    BY <1>1, <1>2, <1>3, <1>4, <2>1 DEF Start, Reopen, Enter, Reenter, Passes
  <2>2. CASE Create(p) \/ OpenExisting(p)
    BY <1>1, <1>2, <1>3, <1>4, <2>2 DEF Create, OpenExisting, Passes, Makes, Finds
  <2>3. CASE Size(p)
    <3>1. CASE pc'[p] = "failed"
      BY <1>1, <1>2, <1>4, <2>3, <3>1 DEF Size, Unnames
    <3>2. CASE pc'[p] # "failed"
      <4>1. /\ pc[p] = "size" /\ pc'[p] = "fill" /\ memName' = memName /\ mem' = mem /\ batch' = batch
            /\ mems' = [mems EXCEPT ![mem[p]].sized = TRUE]
        BY <1>1, <2>3, <3>2 DEF Size
      <4>2. Kept
        BY <1>1, <4>1, RecordKept DEF Mem, MemRecord
      <4> QED
        BY <4>1, <4>2 DEF Passes
    <3> QED
      BY <3>1, <3>2
  <2>4. CASE Fill(p)
    <3>1. /\ pc[p] = "fill" /\ pc'[p] = "mutex" /\ memName' = memName /\ mem' = mem /\ batch' = batch
          /\ mems' = [mems EXCEPT ![mem[p]] = [Mem(p) EXCEPT !.workers = 1, !.tried = 0, !.range = range[p]]]
      BY <1>1, <2>4 DEF Fill, Mem
    <3>2. Writes(p, 1, 0)
      <4>1. PICK r : r = [Mem(p) EXCEPT !.workers = 1, !.tried = 0, !.range = range[p]]
        OBVIOUS
      <4>2. r \in MemRecord /\ r.workers = 1 /\ r.tried = 0
        <5>1. range[p] \in Ranges /\ Mem(p) \in MemRecord
          BY <1>1, <3>1
        <5> QED
          BY ONLY <4>1, <5>1, FilledRecord, Zenon
      <4>3. Writes(p, r.workers, r.tried)
        BY <1>1, <3>1, <4>1, <4>2, RecordWrites
      <4> QED
        BY <4>2, <4>3
    <3> QED
      BY <3>1, <3>2 DEF Fills
  <2>5. CASE InitMutex(p) \/ Unlock(p) \/ Count(p) \/ Work(p) \/ DestroyMutex(p)
    <3>1. /\ <<pc[p], pc'[p]>> \in {<<"mutex", "post">>, <<"unlock", "post">>, <<"count", "load">>,
                                   <<"work", "report">>, <<"destroy", "unlink">>}
          /\ memName' = memName /\ mem' = mem /\ batch' = batch
      BY <1>1, <2>5 DEF InitMutex, Unlock, Count, Work, DestroyMutex
    <3>2. \E l \in Procs \cup {Free, Destroyed} : mems' = [mems EXCEPT ![mem[p]] = [Mem(p) EXCEPT !.lock = l]]
      <4>1. CASE InitMutex(p) \/ Unlock(p)
        BY <1>1, <1>0, <3>1, <4>1 DEF InitMutex, Unlock, Mem
      <4>2. CASE Count(p) \/ Work(p)
        BY <1>1, <1>0, <3>1, <4>2 DEF Count, Work, Lock, Mem
      <4>3. CASE DestroyMutex(p)
        BY <1>1, <1>0, <3>1, <4>3 DEF DestroyMutex, Mem
      <4> QED
        BY <2>5, <4>1, <4>2, <4>3
    <3>3. Kept
      <4>1. PICK l \in Procs \cup {Free, Destroyed} : mems' = [mems EXCEPT ![mem[p]] = [Mem(p) EXCEPT !.lock = l]]
        BY <3>2
      <4>2. PICK r : r = [Mem(p) EXCEPT !.lock = l]
        OBVIOUS
      <4>3. r \in MemRecord /\ r.workers = Mem(p).workers /\ r.tried = Mem(p).tried
        BY <1>1, <3>1, <4>2 DEF MemRecord
      <4> QED
        BY <1>1, <3>1, <4>1, <4>2, <4>3, RecordKept
    <3> QED
      BY <3>1, <3>3 DEF Passes
  <2>6. CASE Check(p) \/ Joined(p) \/ PrintResult(p) \/ UnlinkMem(p) \/ UnlinkSem(p) \/ Finished(p)
    BY <1>1, <1>2, <1>3, <1>4, <2>6 DEF Check, Joined, PrintResult, UnlinkMem, UnlinkSem, Finished, Passes, Unnames
  <2>7. CASE Store(p) \/ LeaveStore(p)
    <3>1. /\ \/ pc[p] = "store" /\ pc'[p] = "unlock" /\ mems' = [mems EXCEPT ![mem[p]].workers = temp[p] + 1]
             \/ /\ pc[p] = "leave_store" /\ pc'[p] = (IF temp[p] = 0 THEN "print" ELSE "post_last")
                /\ mems' = [mems EXCEPT ![mem[p]].workers = temp[p]]
          /\ memName' = memName /\ mem' = mem /\ batch' = batch
      BY <1>1, <2>7 DEF Store, LeaveStore
    <3>2. CASE pc[p] = "store"
      <4>1. Writes(p, temp[p] + 1, Mem(p).tried)
        <5>1. PICK r : r = [Mem(p) EXCEPT !.workers = temp[p] + 1]
          OBVIOUS
        <5>2. r \in MemRecord /\ r.workers = temp[p] + 1 /\ r.tried = Mem(p).tried /\ mems' = [mems EXCEPT ![mem[p]] = r]
          <6>1. temp[p] + 1 \in Int /\ Mem(p) \in MemRecord
            BY <1>1, <3>1, <3>2
          <6>2. mems' = [mems EXCEPT ![mem[p]] = r]
            BY <3>1, <3>2, <5>1 DEF Mem
          <6> QED
            BY ONLY <5>1, <6>1, <6>2, CountedRecord
        <5>3. Writes(p, r.workers, r.tried)
          BY <1>1, <3>1, <3>2, <5>2, RecordWrites
        <5> QED
          BY <5>2, <5>3
      <4> QED
        BY <3>1, <3>2, <4>1 DEF Joins
    <3>3. CASE pc[p] = "leave_store"
      <4>1. Writes(p, temp[p], Mem(p).tried)
        <5>1. PICK r : r = [Mem(p) EXCEPT !.workers = temp[p]]
          OBVIOUS
        <5>2. r \in MemRecord /\ r.workers = temp[p] /\ r.tried = Mem(p).tried /\ mems' = [mems EXCEPT ![mem[p]] = r]
          BY <1>1, <3>1, <3>3, <5>1 DEF MemRecord, Mem
        <5>3. Writes(p, r.workers, r.tried)
          BY <1>1, <3>1, <3>3, <5>2, RecordWrites
        <5> QED
          BY <5>2, <5>3
      <4> QED
        BY <3>1, <3>3, <4>1 DEF Leaves
    <3> QED
      BY <3>1, <3>2, <3>3
  <2>8. CASE Report(p)
    <3>1. /\ pc[p] = "report" /\ pc'[p] = (IF batch[p] > 1 THEN "work" ELSE "reopen")
          /\ memName' = memName /\ mem' = mem /\ batch' = [batch EXCEPT ![p] = @ - 1]
          /\ mems' = [mems EXCEPT ![mem[p]] = [Mem(p) EXCEPT !.tried = @ + 1, !.lock = Unlocked(Mem(p), p)]]
      <4>1. /\ pc[p] = "report" /\ pc' = [pc EXCEPT ![p] = IF batch[p] > 1 THEN "work" ELSE "reopen"]
            /\ memName' = memName /\ mem' = mem /\ batch' = [batch EXCEPT ![p] = @ - 1]
        BY <2>8 DEF Report
      <4>2. mems' = [mems EXCEPT ![mem[p]] = [Mem(p) EXCEPT !.tried = @ + 1, !.lock = Unlocked(Mem(p), p)]]
        BY ONLY <2>8, SMT DEF Report, Mem
      <4> QED
        BY <1>1, <4>1, <4>2, Zenon
    <3>2. PICK l : l = Unlocked(Mem(p), p)
      OBVIOUS
    <3>3. Writes(p, Mem(p).workers, Mem(p).tried + 1)
      <4>1. PICK r : r = [Mem(p) EXCEPT !.tried = @ + 1, !.lock = l]
        OBVIOUS
      <4>2. r \in MemRecord /\ r.workers = Mem(p).workers /\ r.tried = Mem(p).tried + 1
        <5>1. l \in Procs \cup {Free, Destroyed} /\ Mem(p) \in MemRecord
          BY <1>1, <1>0, <3>1, <3>2
        <5> QED
          BY ONLY <4>1, <5>1, AddedRecord, Zenon
      <4>3. Writes(p, r.workers, r.tried)
        BY <1>1, <3>1, <3>2, <4>1, <4>2, RecordWrites
      <4> QED
        BY <4>2, <4>3
    <3> QED
      BY <3>1, <3>3 DEF Adds
  <2> QED
    BY <2>1, <2>2, <2>3, <2>4, <2>5, <2>6, <2>7, <2>8, <1>4, Zenon DEF Step, MemInit, Finish
<1>5. CASE Load(p) \/ Leave(p)
  BY <1>1, <1>2, <1>3, <1>5, SMTT(30) DEF Load, Leave, Goes, Keeps, names, Mapped, Holding, Printing, Working, Busy, Attached,
     Passes, MemRecord
<1>6. temp' = temp \/ Load(p) \/ Leave(p)
  BY Zenon DEF Step, MemInit, Finish, Start, Enter, Create, OpenExisting, Size, Fill, InitMutex, Check, Count,
     Store, Unlock, Joined, Work, Report, Reopen, Reenter, LeaveStore, PrintResult, DestroyMutex,
     UnlinkMem, UnlinkSem, Finished, OpenSem, Acquire, TimesOut
<1> QED
  BY <1>1, <1>3, <1>4, <1>5, <1>6

\* What is shared holds at the start.
LEMMA MemInitial == Init => Attaching /\ Batched /\ NamedWithin
<1> SUFFICES ASSUME Init PROVE Attaching /\ Batched /\ NamedWithin
  OBVIOUS
<1>1. Attaching
  BY DEF Init, Attaching, Mapped, Holding, Attached, Printing
<1>2. Batched
  BY IntegralAssumption DEF IntegralAssumption, Init, Batched, Attached, Busy
<1>3. NamedWithin
  BY DEF Init, NamedWithin, Active, Within, Joining
<1> QED
  BY <1>1, <1>2, <1>3

\* Every step keeps what is opened and the batches.
LEMMA AttachStep ==
  ASSUME Opened, Attaching, Batched, NEW p \in Procs, Step(p)
  PROVE  Attaching' /\ Batched'
<1>1. /\ pc' = [pc EXCEPT ![p] = pc'[p]] /\ pc'[p] \in Places
  BY SemMoves
<1>2. /\ pc' \in [Procs -> Places] /\ \A q \in Procs : q # p => pc'[q] = pc[q]
  BY <1>1 DEF Opened
<1>3. /\ temp' \in [Procs -> Int] /\ range' = range
      /\ \/ Makes(p) \/ Finds(p) \/ Unnames(p) \/ Fills(p)
         \/ Joins(p) \/ Leaves(p) \/ Adds(p) \/ Passes(p)
  BY MemMoves
<1>4. /\ mems \in Seq(MemRecord) /\ Len(mems) \in Nat /\ memName \in 0..Len(mems)
      /\ mem \in [Procs -> 0..Len(mems)] /\ batch \in [Procs -> 0..Batches] /\ Batches \in Nat \ {0}
  BY IntegralAssumption DEF IntegralAssumption, Attaching, Batched
<1>5. CASE Makes(p)
  <2>1. NewMem \in MemRecord
    BY DEF NewMem, MemRecord
  <2>2. mems' \in Seq(MemRecord) /\ Len(mems') = Len(mems) + 1
    BY <1>4, <1>5, <2>1, Added DEF Makes
  <2>3. mem' \in [Procs -> 0..Len(mems) + 1] /\ memName' \in 0..Len(mems) + 1 /\ mem'[p] # 0
    BY <1>4, <1>5 DEF Makes
  <2>4. \A q \in Procs : q # p => mem'[q] = mem[q]
    BY <1>4, <1>5 DEF Makes
  <2>5. Attaching'
    BY <1>2, <1>3, <2>2, <2>3, <2>4 DEF Attaching
  <2>6. Batched'
    BY <1>2, <1>5 DEF Makes, Batched, Attached, Busy
  <2> QED
    BY <2>5, <2>6
<1>6. CASE Finds(p)
  <2>1. mem' \in [Procs -> 0..Len(mems)] /\ mem'[p] # 0 /\ \A q \in Procs : q # p => mem'[q] = mem[q]
    BY <1>4, <1>6 DEF Finds
  <2>2. Attaching'
    BY <1>2, <1>3, <1>6, <2>1 DEF Attaching, Finds
  <2>3. Batched'
    BY <1>2, <1>6 DEF Finds, Batched, Attached, Busy
  <2> QED
    BY <2>2, <2>3
<1>7. CASE Unnames(p) \/ Fills(p) \/ Joins(p) \/ Leaves(p) \/ Adds(p) \/ Passes(p)
  <2>1. /\ mems' \in Seq(MemRecord) /\ Len(mems') = Len(mems) /\ mem' = mem /\ memName' \in {0, memName}
        /\ pc'[p] \in Mapped => pc[p] \in Mapped
    <3>1. mem' = mem /\ memName' \in {0, memName}
      BY <1>7 DEF Unnames, Fills, Joins, Leaves, Adds, Passes
    <3>2. pc'[p] \in Mapped => pc[p] \in Mapped
      BY <1>7 DEF Unnames, Fills, Joins, Leaves, Adds, Passes, Mapped, Holding, Attached, Printing
    <3>3. mems' \in Seq(MemRecord) /\ Len(mems') = Len(mems)
      <4>1. CASE Unnames(p)
        BY <1>4, <4>1 DEF Unnames
      <4>2. CASE ~Unnames(p)
        BY <1>7, <4>2, Zenon DEF Fills, Joins, Leaves, Adds, Passes, Writes, Kept
      <4> QED
        BY <4>1, <4>2
    <3> QED
      BY <3>1, <3>2, <3>3
  <2>2. Attaching'
    <3>1. memName' \in 0..Len(mems) /\ mem' \in [Procs -> 0..Len(mems)]
      BY <1>4, <2>1
    <3>2. \A q \in Procs : pc'[q] \in Mapped => mem'[q] # 0
      BY <1>2, <2>1, Zenon DEF Attaching
    <3>3. range' \in [Procs -> Ranges] /\ temp' \in [Procs -> Int]
      BY <1>3, Zenon DEF Attaching
    <3> QED
      BY <2>1, <3>1, <3>2, <3>3, Zenon DEF Attaching
  <2>3. CASE Adds(p)
    <3>1. batch[p] \in 1..Batches
      BY <1>4, <2>3 DEF Adds, Batched, Busy
    <3>2. /\ batch' \in [Procs -> 0..Batches] /\ batch'[p] = batch[p] - 1
          /\ \A q \in Procs : q # p => batch'[q] = batch[q]
      BY <1>4, <2>3, <3>1 DEF Adds
    <3> QED
      BY <1>2, <1>4, <2>2, <2>3, <3>1, <3>2 DEF Adds, Batched, Attached, Busy
  <2>4. CASE ~Adds(p)
    <3>1. batch' = batch
      BY <1>7, <2>4 DEF Unnames, Fills, Joins, Leaves, Passes
    <3>2. /\ pc'[p] \notin Attached => batch[p] = Batches
          /\ pc'[p] \in Busy => batch[p] # 0
          /\ pc'[p] \in Attached \ Busy => batch[p] = 0
      BY <1>4, <1>7, <2>4 DEF Unnames, Fills, Joins, Leaves, Passes, Batched, Attached, Busy
    <3> QED
      BY <1>2, <1>4, <2>2, <3>1, <3>2 DEF Batched
  <2> QED
    BY <2>3, <2>4
<1> QED
  BY <1>3, <1>5, <1>6, <1>7

Workers == {p \in Procs : pc[p] \in Working}

\* Those who hold or work on shared memory have the named object, which counts its workers
\* right; nobody else has one that is being made; who writes the count is alone since it
\* read it; and who prints has seen all workers leave.
Meeting ==
  /\ \A p \in Procs : pc[p] \in Holding \cup Working => mem[p] = memName
  /\ memName # 0 => mems[memName].workers = Cardinality(Workers)
  /\ \A p, q \in Procs : pc[p] \in {"size", "fill"} /\ mem[q] = mem[p] => q = p
  /\ \A p \in Procs : pc[p] = "store" => temp[p] = Mem(p).workers
  /\ \A p \in Procs : pc[p] = "leave_store" => temp[p] = Mem(p).workers - 1
  /\ \A p \in Procs : pc[p] \in Printing => Workers = {}

\* Whoever holds shared memory is active, and then nobody else is.
LEMMA OthersRest ==
  ASSUME Opened, OneWithin, NamedWithin, ~stale, NEW p \in Procs, pc[p] \in Active
  PROVE  \A q \in Procs : q # p => pc[q] \notin Holding \cup {"create", "open", "unlink_sem"}
<1>1. Holding \cup {"create", "open", "unlink_sem"} \subseteq Active
  BY DEF Holding, Printing, Active, Within, Joining
<1> QED
  BY <1>1, OneActive

\* Workers come and go one at a time.
LEMMA WorkersMove ==
  ASSUME NEW p \in Procs, \A q \in Procs \ {p} : pc'[q] = pc[q]
  PROVE  /\ IsFiniteSet(Workers) /\ Cardinality(Workers) \in Nat /\ (Cardinality(Workers) = 0 <=> Workers = {})
         /\ (pc[p] \in Working <=> pc'[p] \in Working) => Workers' = Workers
         /\ pc[p] \notin Working /\ pc'[p] \in Working => Cardinality(Workers') = Cardinality(Workers) + 1
         /\ pc[p] \in Working /\ pc'[p] \notin Working =>
              Cardinality(Workers') = Cardinality(Workers) - 1 /\ (Cardinality(Workers) = 1 => Workers' = {})
<1>1. IsFiniteSet(Procs)
  BY IntegralAssumption DEF IntegralAssumption
<1>2. Workers \subseteq Procs /\ Workers' \subseteq Procs
  BY DEF Workers
<1>3. IsFiniteSet(Workers) /\ IsFiniteSet(Workers')
  BY <1>1, <1>2, FS_Subset
<1>4. Cardinality(Workers) \in Nat /\ (Cardinality(Workers) = 0 <=> Workers = {})
  BY <1>3, FS_CardinalityType, FS_EmptySet
<1>5. Cardinality(Workers') \in Nat /\ (Cardinality(Workers') = 0 <=> Workers' = {})
  BY <1>3, FS_CardinalityType, FS_EmptySet
<1>6. (pc[p] \in Working <=> pc'[p] \in Working) => Workers' = Workers
  BY DEF Workers
<1>7. ASSUME pc[p] \notin Working, pc'[p] \in Working
      PROVE  Cardinality(Workers') = Cardinality(Workers) + 1
  <2>1. Workers' = Workers \cup {p} /\ p \notin Workers
    BY <1>7 DEF Workers
  <2> QED
    BY <1>3, <2>1, FS_AddElement
<1>8. ASSUME pc[p] \in Working, pc'[p] \notin Working
      PROVE  Cardinality(Workers') = Cardinality(Workers) - 1
  <2>1. Workers' = Workers \ {p} /\ p \in Workers
    BY <1>8 DEF Workers
  <2> QED
    BY <1>3, <2>1, FS_RemoveElement
<1> QED
  BY <1>3, <1>4, <1>5, <1>6, <1>7, <1>8

\* To make an object, to find one and to take a name back keep the meeting.
LEMMA NamesMeet ==
  ASSUME Opened, OneWithin, NamedWithin, Attaching, Meeting, ~stale, NEW p \in Procs,
         \A q \in Procs \ {p} : pc'[q] = pc[q], \A q \in Procs : q # p => temp'[q] = temp[q],
         Makes(p) \/ Finds(p) \/ Unnames(p)
  PROVE  Meeting'
<1>1. pc[p] \in Active
  BY DEF Makes, Finds, Unnames, Active, Within, Joining
<1>2. /\ \A q \in Procs : q # p => pc[q] \notin Holding \cup {"create", "open", "unlink_sem"}
      /\ \A q \in Procs : q # p => pc'[q] \notin Holding
  BY <1>1, OthersRest
<1>3. /\ mems \in Seq(MemRecord) /\ Len(mems) \in Nat /\ memName \in 0..Len(mems)
      /\ mem \in [Procs -> 0..Len(mems)] /\ \A q \in Procs : pc[q] \in Holding \cup Working => mem[q] # 0
  BY DEF Attaching, Mapped, Working, Attached, Holding
<1>4. Printing \subseteq Holding /\ {"size", "fill", "store", "leave_store"} \subseteq Holding
  BY DEF Printing, Holding
<1>5. Workers' = Workers
  <2>1. pc[p] \in Working <=> pc'[p] \in Working
    BY <1>3 DEF Makes, Finds, Unnames, Working, Meeting, Holding, Printing
  <2> QED
    BY <2>1, WorkersMove
<1>6. CASE Makes(p)
  <2>1. Workers = {}
    BY <1>3, <1>6 DEF Makes, Workers, Meeting
  <2>2. mems'[Len(mems) + 1].workers = 0 /\ memName' = Len(mems) + 1
    BY <1>3, <1>6 DEF Makes, NewMem
  <2>3. mem'[p] = memName' /\ \A q \in Procs : q # p => mem'[q] = mem[q] /\ mem'[q] # memName'
    BY <1>3, <1>6 DEF Makes
  <2>4. pc'[p] = "size" /\ "size" \notin Printing \cup {"store", "leave_store"} \cup Working
    BY <1>6 DEF Makes, Printing, Working
  <2>5. Cardinality(Workers') = 0
    BY <1>5, <2>1, FS_EmptySet
  <2>6. \A q \in Procs : pc'[q] \notin Working
    BY <1>5, <2>1, <2>4 DEF Workers
  <2> QED
    BY <1>2, <1>4, <2>2, <2>3, <2>4, <2>5, <2>6 DEF Meeting
<1>7. CASE Finds(p)
  <2>1. /\ mems' = mems /\ memName' = memName /\ pc'[p] = "check"
        /\ mem'[p] = memName /\ \A q \in Procs : q # p => mem'[q] = mem[q]
    BY <1>3, <1>7 DEF Finds
  <2>2. "check" \notin Printing \cup {"size", "fill", "store", "leave_store"}
    BY DEF Printing
  <2> QED
    BY <1>2, <1>4, <1>5, <2>1, <2>2 DEF Meeting
<1>8. CASE Unnames(p)
  <2>1. mems' = mems /\ memName' = 0 /\ mem' = mem
    BY <1>8 DEF Unnames
  <2>2. Workers = {}
    <3>1. CASE pc[p] = "size"
      BY <1>3, <3>1 DEF Workers, Meeting, Working, Holding
    <3>2. CASE pc[p] = "unlink"
      BY <3>2 DEF Meeting, Printing
    <3> QED
      BY <1>8, <3>1, <3>2 DEF Unnames
  <2>3. pc'[p] \notin Holding
    BY <1>8 DEF Unnames, Holding, Printing
  <2>4. \A q \in Procs : pc'[q] \notin Working
    BY <1>5, <2>2 DEF Workers
  <2> QED
    BY <1>2, <1>4, <2>1, <2>3, <2>4 DEF Meeting
<1> QED
  BY <1>6, <1>7, <1>8

\* To fill an object, to join and to leave keep the meeting.
LEMMA CountsMeet ==
  ASSUME Opened, OneWithin, NamedWithin, Attaching, Meeting, ~stale, NEW p \in Procs,
         \A q \in Procs \ {p} : pc'[q] = pc[q], \A q \in Procs : q # p => temp'[q] = temp[q],
         Fills(p) \/ Joins(p) \/ Leaves(p)
  PROVE  Meeting'
<1>1. pc[p] \in Active /\ pc[p] \in Holding
  BY DEF Fills, Joins, Leaves, Active, Within, Joining, Holding
<1>2. /\ \A q \in Procs : q # p => pc[q] \notin Holding
      /\ \A q \in Procs : q # p => pc'[q] \notin Holding
  BY <1>1, OthersRest
<1>3. /\ memName \in 1..Len(mems) /\ mem[p] = memName /\ Mem(p).workers = mems[memName].workers
      /\ Len(mems) \in Nat /\ temp[p] \in Int
  <2>1. mem[p] # 0 /\ mem[p] \in 0..Len(mems) /\ temp[p] \in Int /\ mems \in Seq(MemRecord)
    BY <1>1 DEF Attaching, Mapped
  <2> QED
    BY <1>1, <2>1 DEF Meeting, Mem
<1>4. Printing \subseteq Holding /\ {"size", "fill", "store", "leave_store"} \subseteq Holding
  BY DEF Printing, Holding
<1>5. memName' = memName /\ mem' = mem
  BY DEF Fills, Joins, Leaves
<1>6. pc'[p] \notin {"size", "fill", "store", "leave_store"}
  BY DEF Fills, Joins, Leaves
<1>7. /\ mems[memName].workers = Cardinality(Workers)
      /\ \A q \in Procs : pc[q] \in Working => mem[q] = memName
  BY <1>3 DEF Meeting
<1>8. /\ mems'[memName].workers = Cardinality(Workers')
      /\ pc'[p] \in Printing => Workers' = {}
  <2>1. CASE Fills(p)
    <3>1. pc[p] = "fill" /\ pc'[p] = "mutex" /\ "fill" \notin Working /\ "mutex" \in Working /\ "mutex" \notin Printing
      BY <2>1 DEF Fills, Working, Printing
    <3>2. Workers = {}
      BY <1>3, <1>7, <3>1 DEF Workers, Meeting
    <3>3. Cardinality(Workers') = 1
      BY <3>1, <3>2, WorkersMove, FS_EmptySet
    <3>4. mems'[memName].workers = 1
      BY <1>3, <2>1 DEF Fills, Writes
    <3> QED
      BY <3>1, <3>3, <3>4
  <2>2. CASE Joins(p)
    <3>1. pc[p] = "store" /\ pc'[p] = "unlock" /\ "store" \notin Working /\ "unlock" \in Working /\ "unlock" \notin Printing
      BY <2>2 DEF Joins, Working, Printing
    <3>2. Cardinality(Workers') = Cardinality(Workers) + 1
      BY <3>1, WorkersMove
    <3>3. temp[p] = Cardinality(Workers)
      BY <1>3, <1>7, <3>1 DEF Meeting
    <3>4. mems'[memName].workers = temp[p] + 1
      BY <1>3, <2>2 DEF Joins, Writes
    <3> QED
      BY <3>1, <3>2, <3>3, <3>4
  <2>3. CASE Leaves(p)
    <3>1. /\ pc[p] = "leave_store" /\ pc'[p] = (IF temp[p] = 0 THEN "print" ELSE "post_last")
          /\ "leave_store" \in Working /\ {"print", "post_last"} \cap Working = {} /\ "post_last" \notin Printing
      BY <2>3 DEF Leaves, Working, Printing
    <3>2. /\ Cardinality(Workers') = Cardinality(Workers) - 1
          /\ Cardinality(Workers) = 1 => Workers' = {}
      BY <3>1, WorkersMove
    <3>3. temp[p] = Cardinality(Workers) - 1 /\ Cardinality(Workers) \in Nat
      BY <1>3, <1>7, <3>1, WorkersMove DEF Meeting
    <3>4. mems'[memName].workers = temp[p]
      BY <1>3, <2>3 DEF Leaves, Writes
    <3> QED
      BY <3>1, <3>2, <3>3, <3>4
  <2> QED
    BY <2>1, <2>2, <2>3
<1>9. \A q \in Procs : pc'[q] \in Holding \cup Working => mem'[q] = memName
  BY <1>3, <1>5, <1>7, <1>2
<1> QED
  BY <1>2, <1>4, <1>5, <1>6, <1>8, <1>9 DEF Meeting

\* To add a batch and to pass on keep the meeting.
LEMMA OthersMeet ==
  ASSUME Opened, OneWithin, NamedWithin, Attaching, Meeting, ~stale, NEW p \in Procs,
         \A q \in Procs \ {p} : pc'[q] = pc[q], \A q \in Procs : q # p => temp'[q] = temp[q],
         Adds(p) \/ Passes(p)
  PROVE  Meeting'
<1>1. memName' = memName /\ mem' = mem /\ Len(mems) \in Nat /\ memName \in 0..Len(mems)
  BY DEF Adds, Passes, Attaching
<1>2. \A m \in 1..Len(mems) : mems'[m].workers = mems[m].workers
  BY Zenon DEF Adds, Passes, Writes, Kept, Mem
<1>3. (pc[p] \in Working <=> pc'[p] \in Working)
  <2>1. CASE Adds(p)
    BY <2>1 DEF Adds, Working
  <2>2. CASE Passes(p)
    <3>1. <<pc[p], pc'[p]>> # <<"unlink_sem", "expired">>
      <4>1. SUFFICES ASSUME pc[p] = "unlink_sem", pc'[p] = "expired" PROVE FALSE
        OBVIOUS
      <4>2. semName = 0
        BY <2>2, <4>1, Zenon DEF Passes
      <4>3. pc[p] \in Active
        BY <4>1 DEF Active, Within
      <4> QED
        BY <4>2, <4>3, OneActive
    <3> QED
      BY <2>2, <3>1, Zenon DEF Passes
  <2> QED
    BY <2>1, <2>2
<1>4. Workers' = Workers
  BY <1>3, WorkersMove
<1>5. \A q \in Procs : pc[q] \in Mapped => mem[q] \in 1..Len(mems)
  BY <1>1 DEF Attaching
<1>6. /\ pc'[p] \in Holding => pc[p] \in Holding \cup Working
      /\ pc'[p] \in {"size", "fill"} => pc[p] = "size"
      /\ pc'[p] \in Printing => pc[p] \in Printing
      /\ pc'[p] = "store" => temp'[p] = Mem(p).workers
      /\ pc'[p] = "leave_store" => temp'[p] = Mem(p).workers - 1
      /\ pc'[p] \in {"store", "leave_store"} => pc[p] \in Mapped
  BY DEF Adds, Passes, Working, Printing, Holding, Mapped, Attached
<1>7. \A q \in Procs : pc'[q] \in Holding \cup Working => mem'[q] = memName
  BY <1>1, <1>3, <1>6 DEF Meeting
<1>8. ASSUME NEW q \in Procs
      PROVE  /\ pc'[q] = "store" => temp'[q] = mems'[mem'[q]].workers
             /\ pc'[q] = "leave_store" => temp'[q] = mems'[mem'[q]].workers - 1
  <2>1. pc'[q] \in {"store", "leave_store"} => pc[q] \in Mapped
    BY <1>6 DEF Mapped, Holding
  <2>2. pc'[q] \in {"store", "leave_store"} => mems'[mem'[q]].workers = Mem(q).workers
    BY <1>1, <1>2, <1>5, <2>1, Zenon DEF Mem
  <2> QED
    BY <1>6, <2>2 DEF Meeting
<1>9. memName' # 0 => mems'[memName'].workers = Cardinality(Workers')
  BY <1>1, <1>2, <1>4 DEF Meeting
<1>10. \A q \in Procs : pc'[q] \in {"size", "fill"} => pc[q] \in {"size", "fill"}
  BY <1>6
<1>11. \A q \in Procs : pc'[q] \in Printing => pc[q] \in Printing
  BY <1>6
<1> QED
  BY <1>1, <1>4, <1>7, <1>8, <1>9, <1>10, <1>11, Zenon DEF Meeting, Mem

\* The batches that the processes with object m have added to it.
BatchesOf(m) == {j \in Procs \X (1..Batches) : mem[j[1]] = m /\ j[2] > batch[j[1]]}

\* Each object has counted them.
Tried == \A m \in 1..Len(mems) : mems[m].tried = Cardinality(BatchesOf(m))

\* They are finitely many.
LEMMA BatchesFinite == ASSUME NEW m PROVE IsFiniteSet(BatchesOf(m))
<1>1. IsFiniteSet(Procs) /\ IsFiniteSet(1..Batches)
  BY IntegralAssumption, FS_Interval DEF IntegralAssumption
<1>2. IsFiniteSet(Procs \X (1..Batches))
  BY <1>1, FS_Product, Zenon
<1>3. BatchesOf(m) \subseteq Procs \X (1..Batches)
  BY DEF BatchesOf
<1> QED
  BY <1>2, <1>3, FS_Subset

\* Every step keeps the count of the batches.
LEMMA TriedStep ==
  ASSUME Opened, OneWithin, NamedWithin, Attaching, Batched, Meeting, Tried, ~stale, NEW p \in Procs,
         Makes(p) \/ Finds(p) \/ Unnames(p) \/ Fills(p) \/ Joins(p) \/ Leaves(p) \/ Adds(p) \/ Passes(p)
  PROVE  Tried'
<1>1. /\ mems \in Seq(MemRecord) /\ Len(mems) \in Nat /\ memName \in 0..Len(mems)
      /\ mem \in [Procs -> 0..Len(mems)] /\ batch \in [Procs -> 0..Batches] /\ Batches \in Nat \ {0}
  BY IntegralAssumption DEF IntegralAssumption, Attaching, Batched
<1>2. pc[p] \notin Attached => \A k \in 1..Batches : ~(k > batch[p])
  BY <1>1 DEF Batched
<1>3. CASE Makes(p)
  <2>1. /\ Len(mems') = Len(mems) + 1 /\ mems'[Len(mems) + 1].tried = 0
        /\ \A m \in 1..Len(mems) : mems'[m] = mems[m]
    BY <1>1, <1>3 DEF Makes, NewMem
  <2>2. /\ batch' = batch /\ mem'[p] = Len(mems) + 1 /\ \A q \in Procs : q # p => mem'[q] = mem[q]
        /\ pc[p] \notin Attached
    BY <1>1, <1>3 DEF Makes, Attached
  <2>3. \A m \in 1..Len(mems) : BatchesOf(m)' = BatchesOf(m)
    BY <1>1, <1>2, <2>2 DEF BatchesOf
  <2>4. \A m : m = Len(mems) + 1 => BatchesOf(m)' = {}
    BY <1>1, <1>2, <2>2 DEF BatchesOf
  <2>5. Cardinality({}) = 0
    BY FS_EmptySet
  <2>6. ASSUME NEW m \in 1..Len(mems')
        PROVE  mems'[m].tried = Cardinality(BatchesOf(m)')
    <3>1. CASE m \in 1..Len(mems)
      BY <2>1, <2>3, <3>1 DEF Tried
    <3>2. CASE m = Len(mems) + 1
      BY <2>1, <2>4, <2>5, <3>2
    <3> QED
      BY <1>1, <2>1, <3>1, <3>2
  <2> QED
    BY <2>6 DEF Tried
<1>4. CASE Finds(p)
  <2>1. /\ mems' = mems /\ batch' = batch /\ \A q \in Procs : q # p => mem'[q] = mem[q]
        /\ pc[p] \notin Attached
    BY <1>1, <1>4 DEF Finds, Attached
  <2>2. \A m \in 1..Len(mems) : BatchesOf(m)' = BatchesOf(m)
    BY <1>1, <1>2, <2>1 DEF BatchesOf
  <2> QED
    BY <2>1, <2>2 DEF Tried
<1>5. CASE Unnames(p) \/ Joins(p) \/ Leaves(p) \/ Passes(p)
  <2>1. mem' = mem /\ batch' = batch
    BY <1>5 DEF Unnames, Joins, Leaves, Passes
  <2>2. Len(mems') = Len(mems) /\ \A m \in 1..Len(mems) : mems'[m].tried = mems[m].tried
    BY <1>5, Zenon DEF Unnames, Joins, Leaves, Passes, Writes, Kept, Mem
  <2>3. \A m : BatchesOf(m)' = BatchesOf(m)
    BY <2>1 DEF BatchesOf
  <2> QED
    BY <2>2, <2>3 DEF Tried
<1>6. CASE Fills(p)
  <2>1. /\ mem' = mem /\ batch' = batch /\ pc[p] = "fill" /\ pc[p] \notin Attached
        /\ Len(mems') = Len(mems)
        /\ \A m \in 1..Len(mems) : mems'[m].tried = IF m = mem[p] THEN 0 ELSE mems[m].tried
    BY <1>6 DEF Fills, Writes, Attached
  <2>2. \A m : BatchesOf(m)' = BatchesOf(m)
    BY <2>1 DEF BatchesOf
  <2>3. \A q \in Procs : mem[q] = mem[p] => q = p
    BY <2>1 DEF Meeting
  <2>4. BatchesOf(mem[p]) = {}
    BY <1>2, <2>1, <2>3 DEF BatchesOf
  <2>5. Cardinality({}) = 0
    BY FS_EmptySet
  <2>6. ASSUME NEW m \in 1..Len(mems)
        PROVE  mems'[m].tried = Cardinality(BatchesOf(m)')
    BY <2>1, <2>2, <2>4, <2>5 DEF Tried
  <2> QED
    BY <2>1, <2>6 DEF Tried
<1>7. CASE Adds(p)
  <2>1. /\ mem' = mem /\ batch' = [batch EXCEPT ![p] = @ - 1] /\ pc[p] = "report" /\ Len(mems') = Len(mems)
        /\ \A m \in 1..Len(mems) : mems'[m].tried = IF m = mem[p] THEN Mem(p).tried + 1 ELSE mems[m].tried
    BY <1>7 DEF Adds, Writes
  <2>2. batch[p] \in 1..Batches /\ mem[p] \in 1..Len(mems)
    BY <1>1, <2>1 DEF Batched, Attaching, Busy, Mapped, Attached
  <2>3. \A m : m # mem[p] => BatchesOf(m)' = BatchesOf(m)
    BY <1>1, <2>1 DEF BatchesOf
  <2>4. <<p, batch[p]>> \notin BatchesOf(mem[p]) /\ BatchesOf(mem[p])' = BatchesOf(mem[p]) \cup {<<p, batch[p]>>}
    BY <1>1, <2>1, <2>2 DEF BatchesOf
  <2>5. Cardinality(BatchesOf(mem[p])') = Cardinality(BatchesOf(mem[p])) + 1
    BY <2>4, BatchesFinite, FS_AddElement
  <2>6. ASSUME NEW m \in 1..Len(mems)
        PROVE  mems'[m].tried = Cardinality(BatchesOf(m)')
    BY <2>1, <2>2, <2>3, <2>5 DEF Tried, Mem
  <2> QED
    BY <2>1, <2>6 DEF Tried
<1> QED
  BY <1>3, <1>4, <1>5, <1>6, <1>7

\* The invariant of the integration.
IntegralInv ==
  /\ Opened /\ OneWithin /\ NamedWithin /\ Attaching /\ Batched
  /\ ~stale => Meeting /\ Tried

\* It holds at the start.
LEMMA IntegralInit == Init => IntegralInv
<1> SUFFICES ASSUME Init PROVE IntegralInv
  OBVIOUS
<1>1. Opened /\ OneWithin /\ NamedWithin /\ Attaching /\ Batched
  BY SemInit, MemInitial
<1>2. Meeting
  BY DEF Init, Meeting, Holding, Working, Printing
<1>3. Tried
  BY DEF Init, Tried
<1> QED
  BY <1>1, <1>2, <1>3 DEF IntegralInv

\* Every step of a process keeps it.
LEMMA IntegralStep ==
  ASSUME IntegralInv, NEW p \in Procs, Step(p)
  PROVE  IntegralInv'
<1>1. Opened /\ OneWithin /\ NamedWithin /\ Attaching /\ Batched
  BY DEF IntegralInv
<1>2. (Opened /\ OneWithin /\ NamedWithin /\ Attaching /\ Batched)'
  BY <1>1, SemStep, NameStep, AttachStep
<1>3. ASSUME ~stale'
      PROVE  Meeting' /\ Tried'
  <2>1. /\ pc' = [pc EXCEPT ![p] = pc'[p]]
        /\ Opens(p) \/ Takes(p) \/ Posts(p) \/ Stays(p)
    BY <1>1, SemMoves
  <2>2. \A q \in Procs \ {p} : pc'[q] = pc[q]
    BY <1>1, <2>1 DEF Opened
  <2>3. ~stale
    BY <1>3, <2>1 DEF Opens, OpenSem, Takes, Acquire, Posts, Stays
  <2>4. Meeting /\ Tried
    BY <2>3 DEF IntegralInv
  <2>5. /\ \A q \in Procs : q # p => temp'[q] = temp[q]
        /\ \/ Makes(p) \/ Finds(p) \/ Unnames(p) \/ Fills(p)
           \/ Joins(p) \/ Leaves(p) \/ Adds(p) \/ Passes(p)
    BY <1>1, MemMoves
  <2>6. Tried'
    BY <1>1, <2>3, <2>4, <2>5, TriedStep
  <2>7. Meeting'
    BY <1>1, <2>2, <2>3, <2>4, <2>5, NamesMeet, CountsMeet, OthersMeet
  <2> QED
    BY <2>6, <2>7
<1> QED
  BY <1>2, <1>3 DEF IntegralInv

\* Nothing else touches the integration.
LEMMA IntegralFrame == IntegralInv /\ UNCHANGED vars => IntegralInv'
<1> SUFFICES ASSUME IntegralInv, UNCHANGED vars PROVE IntegralInv'
  OBVIOUS
<1>1. UNCHANGED <<pc, range, batch, temp, sem, mem, sems, mems, semName, memName, stale>>
  BY DEF vars
<1>2. (Opened /\ OneWithin /\ NamedWithin)'
  BY <1>1 DEF IntegralInv, Opened, OneWithin, NamedWithin
<1>3. (Attaching /\ Batched)'
  BY <1>1 DEF IntegralInv, Attaching, Batched
<1>4. ~stale' => Meeting' /\ Tried'
  <2>1. Workers' = Workers /\ \A m : BatchesOf(m)' = BatchesOf(m)
    BY <1>1 DEF Workers, BatchesOf
  <2> QED
    BY <1>1, <2>1 DEF IntegralInv, Meeting, Tried, Mem
<1> QED
  BY <1>2, <1>3, <1>4 DEF IntegralInv

\* Who prints sees that all have left, with all their batches.
LEMMA ResultFacts == IntegralInv => ResultIsComplete
<1> SUFFICES ASSUME IntegralInv, ~stale, NEW p \in Procs, pc[p] \in {"print", "destroy", "unlink"}
             PROVE  /\ \A q \in Members(mem[p]) : pc[q] \in Left
                    /\ Mem(p).tried = Batches * Cardinality(Members(mem[p]))
  BY Zenon DEF ResultIsComplete
<1>1. Meeting /\ Tried /\ Attaching /\ Batched /\ Opened
  BY DEF IntegralInv
<1>2. Workers = {} /\ mem[p] \in 1..Len(mems)
  BY <1>1 DEF Meeting, Attaching, Printing, Mapped, Attached
<1>3. \A q \in Members(mem[p]) : q \in Procs /\ pc[q] \in Left /\ batch[q] = 0
  <2>1. \A q \in Procs : pc[q] \in Attached /\ pc[q] \notin Working => pc[q] \in Left /\ pc[q] \notin Busy
    BY DEF Attached, Working, Left, Busy
  <2> QED
    BY <1>1, <1>2, <2>1 DEF Members, Workers, Batched
<1>4. BatchesOf(mem[p]) = Members(mem[p]) \X (1..Batches)
  <2>1. ASSUME NEW q \in Procs, NEW k \in 1..Batches
        PROVE  mem[q] = mem[p] /\ k > batch[q] <=> q \in Members(mem[p])
    <3>1. pc[q] \notin Attached => batch[q] = Batches
      BY <1>1 DEF Batched
    <3>2. k \in 1..Batches /\ Batches \in Nat => k > 0 /\ ~(k > Batches)
      OBVIOUS
    <3>3. Batches \in Nat
      BY IntegralAssumption DEF IntegralAssumption
    <3>4. CASE pc[q] \in Attached /\ mem[q] = mem[p]
      <4>1. q \in Members(mem[p])
        BY <3>4 DEF Members
      <4> QED
        BY <1>3, <3>2, <3>3, <3>4, <4>1, Zenon
    <3>5. CASE ~(pc[q] \in Attached /\ mem[q] = mem[p])
      <4>1. q \notin Members(mem[p])
        BY <3>5 DEF Members
      <4> QED
        BY <3>1, <3>2, <3>3, <3>5, <4>1, Zenon
    <3> QED
      BY <3>4, <3>5
  <2>2. Members(mem[p]) \subseteq Procs
    BY DEF Members
  <2> QED
    BY <2>1, <2>2 DEF BatchesOf
<1>5. Cardinality(Members(mem[p]) \X (1..Batches)) = Cardinality(Members(mem[p])) * Batches
  <2>1. IsFiniteSet(Members(mem[p]))
    BY IntegralAssumption, FS_Subset DEF IntegralAssumption, Members
  <2>2. IsFiniteSet(1..Batches) /\ Cardinality(1..Batches) = Batches
    BY IntegralAssumption, FS_Interval DEF IntegralAssumption
  <2> QED
    BY <2>1, <2>2, FS_Product, Zenon
<1>6. Cardinality(Members(mem[p])) \in Nat
  BY IntegralAssumption, FS_Subset, FS_CardinalityType DEF IntegralAssumption, Members
<1>7. Mem(p).tried = Cardinality(Members(mem[p])) * Batches
  BY <1>1, <1>2, <1>4, <1>5, Zenon DEF Tried, Mem
<1>8. Cardinality(Members(mem[p])) * Batches = Batches * Cardinality(Members(mem[p]))
  BY <1>6, IntegralAssumption DEF IntegralAssumption
<1> QED
  BY <1>3, <1>7, <1>8, Zenon

-----------------------------------------------------------------------------
(* The points of secondexamp.c *)

MemoryRecord == [initialised : BOOLEAN, counter : Int, samples : Nat, kind : {"plain", "robust", "destroyed"},
                 holder : SUBSET M!Runners, early : BOOLEAN]

\* Where a process has not added a batch yet; where it has more to add; where it has the
\* mutex; where it has had it; where it has counted itself in.
Fresh == {"start", "open", "try", "init", "set", "mutex", "post", "lock", "count", "unlock"}
Adding == {"lock_work", "add"}
Inner == {"count", "unlock", "add", "leave", "print"}
Beyond == Inner \cup {"lock_work", "lock_leave", "destroy", "unlink_sem", "unlink_mem", "done"}
CountedAt == {"unlock", "lock_work", "add", "lock_leave", "leave"}

PointTypes ==
  /\ at \in [M!Runners -> M!Places] /\ turn \in [M!Runners -> 0..Turns]
  /\ memories \in Seq(MemoryRecord) /\ memFile \in 0..Len(memories)
  /\ memOf \in [M!Runners -> 0..Len(memories)]
  /\ \A p \in M!Runners :
       /\ at[p] \notin {"start", "open", "killed"} => memOf[p] # 0
       /\ at[p] \in {"start", "open"} => memOf[p] = 0
       /\ at[p] \in Fresh => turn[p] = Turns
       /\ at[p] \in Adding => turn[p] # 0

\* An object whose mutex nobody has used too early: it is initialised by one, before
\* anybody has its mutex; one at a time has that; its counter and its samples count the
\* processes and their batches, and nobody works when the result is printed.
Reliable(m) ==
  /\ \A p \in M!Runners : memOf[p] = m /\ at[p] \in Inner => memories[m].holder = {p}
  /\ memories[m].kind # "plain" => memories[m].initialised
  /\ memories[m].kind = "plain" => \A p \in M!Runners : memOf[p] = m => at[p] \notin Beyond /\ turn[p] = Turns
  /\ \A p \in M!Runners : memOf[p] = m /\ at[p] = "mutex" => memories[m].kind = "plain" /\ memories[m].initialised
  /\ \A p, q \in M!Runners : memOf[p] = m /\ at[p] = "mutex" /\ memOf[q] = m /\ at[q] = "mutex" => p = q
  /\ memories[m].counter >= Cardinality(M!Counted(m))
  /\ memories[m].samples = Cardinality(M!Reported(m))
  /\ \A p \in M!Runners : memOf[p] = m /\ at[p] = "print" => M!Counted(m) = {}

PointInv == PointTypes /\ \A m \in 1..Len(memories) : ~memories[m].early => Reliable(m)

\* What a step of p writes to its object.
Becomes(p, i, c, s, k, h, e) ==
  /\ memories' \in Seq(MemoryRecord) /\ Len(memories') = Len(memories)
  /\ \A m \in 1..Len(memories) : m # memOf[p] => memories'[m] = memories[m]
  /\ memories'[memOf[p]] = [initialised |-> i, counter |-> c, samples |-> s, kind |-> k, holder |-> h, early |-> e]

\* The holder when p has released the mutex.
HolderAfter(p) == IF M!Mem(p).kind = "robust" THEN M!Mem(p).holder \ {p} ELSE M!Mem(p).holder

\* What a step of p that writes to its object is.
Prepares(p) ==
  /\ UNCHANGED turn
  /\ \/ /\ at[p] = "set" /\ at'[p] = "mutex"
        /\ Becomes(p, TRUE, 0, 0, M!Mem(p).kind, M!Mem(p).holder, (M!Mem(p).early \/ M!Mem(p).initialised))
     \/ /\ at[p] = "mutex" /\ at'[p] = "post"
        /\ Becomes(p, M!Mem(p).initialised, M!Mem(p).counter, M!Mem(p).samples, "robust", {}, M!Mem(p).early)
Acquires(p) ==
  /\ <<at[p], at'[p]>> \in {<<"lock", "count">>, <<"lock_work", "add">>, <<"lock_leave", "leave">>}
  /\ M!Mem(p).holder = {} \/ \A q \in M!Mem(p).holder : at[q] \in M!Ended
  /\ Becomes(p, M!Mem(p).initialised, M!Mem(p).counter, M!Mem(p).samples, M!Mem(p).kind, {p},
             (M!Mem(p).early \/ M!Mem(p).kind = "plain"))
  /\ UNCHANGED turn
CountsIn(p) ==
  /\ at[p] = "count" /\ at'[p] = "unlock" /\ UNCHANGED turn
  /\ Becomes(p, M!Mem(p).initialised, M!Mem(p).counter + 1, M!Mem(p).samples, M!Mem(p).kind, M!Mem(p).holder,
             M!Mem(p).early)
Releases(p) ==
  /\ <<at[p], at'[p]>> \in {<<"unlock", "lock_work">>, <<"print", "destroy">>} /\ UNCHANGED turn
  /\ Becomes(p, M!Mem(p).initialised, M!Mem(p).counter, M!Mem(p).samples, M!Mem(p).kind, HolderAfter(p),
             M!Mem(p).early)
AddsBatch(p) ==
  /\ at[p] = "add" /\ at'[p] = (IF turn[p] > 1 THEN "lock_work" ELSE "lock_leave")
  /\ turn' = [turn EXCEPT ![p] = @ - 1]
  /\ Becomes(p, M!Mem(p).initialised, M!Mem(p).counter, M!Mem(p).samples + 1, M!Mem(p).kind, HolderAfter(p),
             M!Mem(p).early)
CountsOut(p) ==
  /\ at[p] = "leave" /\ at'[p] = (IF M!Mem(p).counter = 1 THEN "print" ELSE "done") /\ UNCHANGED turn
  /\ Becomes(p, M!Mem(p).initialised, M!Mem(p).counter - 1, M!Mem(p).samples, M!Mem(p).kind,
             IF M!Mem(p).counter = 1 THEN M!Mem(p).holder ELSE HolderAfter(p), M!Mem(p).early)
Destroys(p) ==
  /\ at[p] = "destroy" /\ at'[p] = "unlink_sem" /\ UNCHANGED turn
  /\ Becomes(p, M!Mem(p).initialised, M!Mem(p).counter, M!Mem(p).samples, "destroyed", M!Mem(p).holder,
             M!Mem(p).early)
Walks(p) ==
  /\ UNCHANGED <<turn, memories>> /\ at'[p] \notin Inner \cup {"mutex", "start", "open"}
  /\ (at'[p] \in Fresh => at[p] \in Fresh) /\ at'[p] \notin Adding
  /\ at'[p] = "killed" \/ at[p] \notin {"start", "open", "killed"}
  /\ (at'[p] \in Beyond => at[p] \in Beyond)
  /\ (at'[p] = "lock_leave" => at[p] = "lock_work")
  /\ (at'[p] # "lock_leave" => at'[p] \notin {"unlock", "lock_work", "add", "lock_leave", "leave"})

\* To change the fields of an object leaves the others.
LEMMA ObjectBecomes ==
  ASSUME PointTypes, NEW p \in M!Runners, memOf[p] # 0, NEW r \in MemoryRecord, M!Writes(p, r)
  PROVE  Becomes(p, r.initialised, r.counter, r.samples, r.kind, r.holder, r.early)
<1>1. memories \in Seq(MemoryRecord) /\ memOf[p] \in 1..Len(memories) /\ memories' = [memories EXCEPT ![memOf[p]] = r]
  BY DEF PointTypes, M!Writes
<1>2. r = [initialised |-> r.initialised, counter |-> r.counter, samples |-> r.samples, kind |-> r.kind,
           holder |-> r.holder, early |-> r.early]
  BY DEF MemoryRecord
<1>3. /\ memories' \in Seq(MemoryRecord) /\ Len(memories') = Len(memories) /\ memories'[memOf[p]] = r
      /\ \A j \in 1..Len(memories) : j # memOf[p] => memories'[j] = memories[j]
  BY <1>1, Changed
<1> QED
  BY <1>2, <1>3, Zenon DEF Becomes

\* The object of a process, before and after the mutex is taken or released.
LEMMA ObjectOf ==
  ASSUME PointTypes, NEW p \in M!Runners, memOf[p] # 0
  PROVE  /\ M!Mem(p) \in MemoryRecord /\ HolderAfter(p) \in SUBSET M!Runners
         /\ M!Released(p) = [M!Mem(p) EXCEPT !.holder = HolderAfter(p)]
<1>1. M!Mem(p) \in MemoryRecord
  BY DEF PointTypes, M!Mem
<1>2. HolderAfter(p) \in SUBSET M!Runners
  BY <1>1 DEF HolderAfter, MemoryRecord
<1> QED
  BY <1>1, <1>2, Zenon DEF M!Released, HolderAfter

\* Every step of a process at its object is one of these.
LEMMA PointMoves ==
  ASSUME PointTypes, NEW p \in M!Runners, M!Runner(p) \/ M!Kill(p), ~M!OpenSem(p), ~M!OpenMem(p)
  PROVE  /\ at' = [at EXCEPT ![p] = at'[p]] /\ at'[p] \in M!Places
         /\ memOf' = memOf /\ memFile' \in {0, memFile}
         /\ \/ Prepares(p) \/ Acquires(p) \/ CountsIn(p) \/ Releases(p) \/ AddsBatch(p) \/ CountsOut(p)
            \/ Destroys(p) \/ Walks(p)
<1>1. at \in [M!Runners -> M!Places] /\ turn \in [M!Runners -> 0..Turns]
  BY DEF PointTypes
<1>2. at[p] \notin {"start", "open", "killed"} =>
        /\ memOf[p] # 0 /\ M!Mem(p) \in MemoryRecord /\ HolderAfter(p) \in SUBSET M!Runners
        /\ M!Released(p) = [M!Mem(p) EXCEPT !.holder = HolderAfter(p)]
  BY ObjectOf, Zenon DEF PointTypes
<1> USE DEF M!Goes, M!Places, M!Ended, M!Locking, M!KeepsFiles
<1>3. CASE M!TryWait(p) \/ M!Post(p) \/ M!Flagged(p) \/ M!Unlink(p) \/ M!Kill(p)
  BY <1>1, <1>3 DEF M!TryWait, M!Post, M!Flagged, M!Unlink, M!Kill, Walks, Inner, Fresh, Adding, Beyond
<1>4. CASE M!Initialise(p)
  <2>1. CASE at[p] = "init"
    BY <1>1, <1>4, <2>1 DEF M!Initialise, Walks, Inner, Fresh, Adding, Beyond
  <2>2. CASE at[p] = "set"
    <3>1. at'[p] = "mutex" /\ turn' = turn /\ memOf' = memOf /\ memFile' = memFile
      BY <1>1, <1>4, <2>2 DEF M!Initialise
    <3>2. PICK r : r = [M!Mem(p) EXCEPT !.initialised = TRUE, !.counter = 0, !.samples = 0,
                                        !.early = @ \/ M!Mem(p).initialised]
      OBVIOUS
    <3>3. M!Writes(p, r)
      BY <1>4, <2>2, <3>2 DEF M!Initialise
    <3>4. M!Mem(p) \in MemoryRecord /\ memOf[p] # 0 /\ 0 \in Int /\ 0 \in Nat
      BY <1>2, <2>2
    <3>5. /\ r \in MemoryRecord /\ r.initialised = TRUE /\ r.counter = 0 /\ r.samples = 0
          /\ r.kind = M!Mem(p).kind /\ r.holder = M!Mem(p).holder /\ r.early = (M!Mem(p).early \/ M!Mem(p).initialised)
      BY ONLY <3>2, <3>4, Zenon DEF MemoryRecord
    <3>6. Becomes(p, r.initialised, r.counter, r.samples, r.kind, r.holder, r.early)
      BY <3>3, <3>4, <3>5, ObjectBecomes
    <3> QED
      BY <1>1, <1>4, <2>2, <3>1, <3>5, <3>6 DEF Prepares, M!Initialise
  <2> QED
    BY <1>4, <2>1, <2>2 DEF M!Initialise
<1>5. CASE M!InitMutex(p)
  <2>1. /\ at[p] = "mutex" /\ at'[p] = "post" /\ memOf' = memOf /\ memFile' = memFile
        /\ turn' = turn /\ at' = [at EXCEPT ![p] = at'[p]] /\ at'[p] \in M!Places
    BY <1>1, <1>5 DEF M!InitMutex
  <2>2. PICK r : r = [M!Mem(p) EXCEPT !.kind = "robust", !.holder = {}]
    OBVIOUS
  <2>3. M!Writes(p, r)
    BY <1>2, <1>5, <2>1, <2>2, Zenon DEF M!InitMutex
  <2>4. M!Mem(p) \in MemoryRecord /\ HolderAfter(p) \in SUBSET M!Runners /\ memOf[p] # 0
    BY <1>2, <2>1
  <2>5. /\ r \in MemoryRecord /\ r.initialised = M!Mem(p).initialised /\ r.counter = M!Mem(p).counter /\ r.samples = M!Mem(p).samples
        /\ r.kind = "robust" /\ r.holder = {} /\ r.early = M!Mem(p).early
    BY ONLY <2>2, <2>4, Zenon DEF MemoryRecord
  <2>6. Becomes(p, r.initialised, r.counter, r.samples, r.kind, r.holder, r.early)
    BY <2>3, <2>4, <2>5, ObjectBecomes
  <2> QED
    BY <2>1, <2>5, <2>6, Zenon DEF Prepares
<1>6. CASE M!Enter(p) \/ M!Work(p) \/ M!Leaving(p)
  <2>1. CASE at'[p] = "failed"
    BY <1>1, <1>6, <2>1 DEF M!Enter, M!Work, M!Leaving, M!LockTo, M!LockFails, Walks, Inner, Fresh, Adding, Beyond
  <2>2. CASE at'[p] # "failed"
    <3>1. /\ <<at[p], at'[p]>> \in {<<"lock", "count">>, <<"lock_work", "add">>, <<"lock_leave", "leave">>}
          /\ turn' = turn /\ memOf' = memOf /\ memFile' = memFile /\ M!Locked(p)
      BY <1>1, <1>6, <2>2 DEF M!Enter, M!Work, M!Leaving, M!LockTo, M!LockFails
    <3>2. PICK r : r = [M!Mem(p) EXCEPT !.holder = {p}, !.early = @ \/ M!Mem(p).kind = "plain"]
      OBVIOUS
    <3>3. M!Writes(p, r) /\ (M!Mem(p).holder = {} \/ \A q \in M!Mem(p).holder : at[q] \in M!Ended)
      BY <3>1, <3>2, Zenon DEF M!Locked
    <3>4. M!Mem(p) \in MemoryRecord /\ memOf[p] # 0 /\ {p} \in SUBSET M!Runners
      BY <1>2, <3>1
    <3>5. /\ r \in MemoryRecord /\ r.initialised = M!Mem(p).initialised /\ r.counter = M!Mem(p).counter
          /\ r.samples = M!Mem(p).samples /\ r.kind = M!Mem(p).kind /\ r.holder = {p}
          /\ r.early = (M!Mem(p).early \/ M!Mem(p).kind = "plain")
      BY ONLY <3>2, <3>4, Zenon DEF MemoryRecord
    <3>6. Becomes(p, r.initialised, r.counter, r.samples, r.kind, r.holder, r.early)
      BY <3>3, <3>4, <3>5, ObjectBecomes
    <3>7. at' = [at EXCEPT ![p] = at'[p]] /\ at'[p] \in M!Places
      BY <1>1, <1>6 DEF M!Enter, M!Work, M!Leaving, M!LockTo
    <3> QED
      BY <3>1, <3>3, <3>5, <3>6, <3>7 DEF Acquires
  <2> QED
    BY <2>1, <2>2
<1>7. CASE M!Count(p)
  <2>1. /\ at[p] = "count" /\ at'[p] = "unlock" /\ memOf' = memOf /\ memFile' = memFile
        /\ turn' = turn /\ at' = [at EXCEPT ![p] = at'[p]] /\ at'[p] \in M!Places
    BY <1>1, <1>7 DEF M!Count
  <2>2. PICK r : r = [M!Mem(p) EXCEPT !.counter = @ + 1]
    OBVIOUS
  <2>3. M!Writes(p, r)
    BY <1>2, <1>7, <2>1, <2>2, Zenon DEF M!Count
  <2>4. M!Mem(p) \in MemoryRecord /\ HolderAfter(p) \in SUBSET M!Runners /\ memOf[p] # 0
    BY <1>2, <2>1
  <2>5. /\ r \in MemoryRecord /\ r.initialised = M!Mem(p).initialised /\ r.counter = M!Mem(p).counter + 1 /\ r.samples = M!Mem(p).samples
        /\ r.kind = M!Mem(p).kind /\ r.holder = M!Mem(p).holder /\ r.early = M!Mem(p).early
    <3>1. M!Mem(p).counter + 1 \in Int
      BY <2>4 DEF MemoryRecord
    <3> QED
      BY ONLY <2>2, <2>4, <3>1, Zenon DEF MemoryRecord
  <2>6. Becomes(p, r.initialised, r.counter, r.samples, r.kind, r.holder, r.early)
    BY <2>3, <2>4, <2>5, ObjectBecomes
  <2> QED
    BY <2>1, <2>5, <2>6, Zenon DEF CountsIn
<1>8. CASE M!Unlock(p) \/ M!PrintFinal(p)
  <2>1. /\ <<at[p], at'[p]>> \in {<<"unlock", "lock_work">>, <<"print", "destroy">>} /\ memOf' = memOf /\ memFile' = memFile
        /\ turn' = turn /\ at' = [at EXCEPT ![p] = at'[p]] /\ at'[p] \in M!Places
    BY <1>1, <1>8 DEF M!Unlock, M!PrintFinal
  <2>2. PICK r : r = [M!Mem(p) EXCEPT !.holder = HolderAfter(p)]
    OBVIOUS
  <2>3. M!Writes(p, r)
    BY <1>2, <1>8, <2>1, <2>2, Zenon DEF M!Unlock, M!PrintFinal
  <2>4. M!Mem(p) \in MemoryRecord /\ HolderAfter(p) \in SUBSET M!Runners /\ memOf[p] # 0
    BY <1>2, <2>1
  <2>5. /\ r \in MemoryRecord /\ r.initialised = M!Mem(p).initialised /\ r.counter = M!Mem(p).counter /\ r.samples = M!Mem(p).samples
        /\ r.kind = M!Mem(p).kind /\ r.holder = HolderAfter(p) /\ r.early = M!Mem(p).early
    BY ONLY <2>2, <2>4, Zenon DEF MemoryRecord
  <2>6. Becomes(p, r.initialised, r.counter, r.samples, r.kind, r.holder, r.early)
    BY <2>3, <2>4, <2>5, ObjectBecomes
  <2> QED
    BY <2>1, <2>5, <2>6, Zenon DEF Releases
<1>9. CASE M!Add(p)
  <2>1. /\ at[p] = "add" /\ at'[p] = (IF turn[p] > 1 THEN "lock_work" ELSE "lock_leave") /\ memOf' = memOf /\ memFile' = memFile
        /\ turn' = [turn EXCEPT ![p] = @ - 1] /\ at' = [at EXCEPT ![p] = at'[p]] /\ at'[p] \in M!Places
    BY <1>1, <1>9 DEF M!Add
  <2>2. PICK r : r = [M!Mem(p) EXCEPT !.holder = HolderAfter(p), !.samples = @ + 1]
    OBVIOUS
  <2>3. M!Writes(p, r)
    BY <1>2, <1>9, <2>1, <2>2, Zenon DEF M!Add
  <2>4. M!Mem(p) \in MemoryRecord /\ HolderAfter(p) \in SUBSET M!Runners /\ memOf[p] # 0
    BY <1>2, <2>1
  <2>5. /\ r \in MemoryRecord /\ r.initialised = M!Mem(p).initialised /\ r.counter = M!Mem(p).counter /\ r.samples = M!Mem(p).samples + 1
        /\ r.kind = M!Mem(p).kind /\ r.holder = HolderAfter(p) /\ r.early = M!Mem(p).early
    <3>1. M!Mem(p).samples + 1 \in Nat
      BY <2>4 DEF MemoryRecord
    <3> QED
      BY ONLY <2>2, <2>4, <3>1, Zenon DEF MemoryRecord
  <2>6. Becomes(p, r.initialised, r.counter, r.samples, r.kind, r.holder, r.early)
    BY <2>3, <2>4, <2>5, ObjectBecomes
  <2> QED
    BY <2>1, <2>5, <2>6, Zenon DEF AddsBatch
<1>10. CASE M!Leave(p)
  <2>1. /\ at[p] = "leave" /\ at'[p] = (IF M!Mem(p).counter = 1 THEN "print" ELSE "done") /\ memOf' = memOf /\ memFile' = memFile
        /\ turn' = turn /\ at' = [at EXCEPT ![p] = at'[p]] /\ at'[p] \in M!Places
    BY <1>1, <1>10 DEF M!Leave
  <2>0. PICK h : h = (IF M!Mem(p).counter = 1 THEN M!Mem(p).holder ELSE HolderAfter(p))
    OBVIOUS
  <2>2. PICK r : r = [M!Mem(p) EXCEPT !.holder = h, !.counter = @ - 1]
    OBVIOUS
  <2>3. M!Writes(p, r)
    BY <1>2, <1>10, <2>0, <2>1, <2>2 DEF M!Leave
  <2>4. M!Mem(p) \in MemoryRecord /\ HolderAfter(p) \in SUBSET M!Runners /\ memOf[p] # 0
    BY <1>2, <2>1
  <2>5. /\ r \in MemoryRecord /\ r.initialised = M!Mem(p).initialised /\ r.counter = M!Mem(p).counter - 1 /\ r.samples = M!Mem(p).samples
        /\ r.kind = M!Mem(p).kind /\ r.holder = h /\ r.early = M!Mem(p).early
    <3>1. M!Mem(p).counter - 1 \in Int /\ h \in SUBSET M!Runners
      BY <2>0, <2>4 DEF MemoryRecord
    <3> QED
      BY ONLY <2>2, <2>4, <3>1, Zenon DEF MemoryRecord
  <2>6. Becomes(p, r.initialised, r.counter, r.samples, r.kind, r.holder, r.early)
    BY <2>3, <2>4, <2>5, ObjectBecomes
  <2> QED
    BY <2>0, <2>1, <2>5, <2>6, Zenon DEF CountsOut
<1>11. CASE M!Destroy(p)
  <2>1. /\ at[p] = "destroy" /\ at'[p] = "unlink_sem" /\ memOf' = memOf /\ memFile' = memFile
        /\ turn' = turn /\ at' = [at EXCEPT ![p] = at'[p]] /\ at'[p] \in M!Places
    BY <1>1, <1>11 DEF M!Destroy
  <2>2. PICK r : r = [M!Mem(p) EXCEPT !.kind = "destroyed"]
    OBVIOUS
  <2>3. M!Writes(p, r)
    BY <1>2, <1>11, <2>1, <2>2, Zenon DEF M!Destroy
  <2>4. M!Mem(p) \in MemoryRecord /\ HolderAfter(p) \in SUBSET M!Runners /\ memOf[p] # 0
    BY <1>2, <2>1
  <2>5. /\ r \in MemoryRecord /\ r.initialised = M!Mem(p).initialised /\ r.counter = M!Mem(p).counter /\ r.samples = M!Mem(p).samples
        /\ r.kind = "destroyed" /\ r.holder = M!Mem(p).holder /\ r.early = M!Mem(p).early
    BY ONLY <2>2, <2>4, Zenon DEF MemoryRecord
  <2>6. Becomes(p, r.initialised, r.counter, r.samples, r.kind, r.holder, r.early)
    BY <2>3, <2>4, <2>5, ObjectBecomes
  <2> QED
    BY <2>1, <2>5, <2>6, Zenon DEF Destroys
<1> QED
  BY <1>3, <1>4, <1>5, <1>6, <1>7, <1>8, <1>9, <1>10, <1>11, Zenon DEF M!Runner

\* What is opened and what is still to do holds at the start.
LEMMA PointInit == M!Init => PointInv
<1> SUFFICES ASSUME M!Init PROVE PointInv
  OBVIOUS
<1>1. PointTypes
  BY MemoryAssumption DEF MemoryAssumption, M!Init, PointTypes, M!Places, Fresh, Adding
<1> QED
  BY <1>1 DEF M!Init, PointInv

\* Every step keeps what is opened and what is still to do.
LEMMA PointTypesStep ==
  ASSUME PointTypes, NEW p \in M!Runners, M!Runner(p) \/ M!Kill(p)
  PROVE  PointTypes'
<1>1. /\ at \in [M!Runners -> M!Places] /\ turn \in [M!Runners -> 0..Turns] /\ Turns \in Nat \ {0}
      /\ memories \in Seq(MemoryRecord) /\ memFile \in 0..Len(memories) /\ Len(memories) \in Nat
      /\ memOf \in [M!Runners -> 0..Len(memories)]
  BY MemoryAssumption DEF MemoryAssumption, PointTypes
<1>2. CASE M!OpenSem(p)
  <2>1. /\ at' = [at EXCEPT ![p] = "open"] /\ at[p] = "start" /\ UNCHANGED <<turn, memOf, memories, memFile>>
    BY <1>2 DEF M!OpenSem, M!Goes
  <2>2. at' \in [M!Runners -> M!Places] /\ at'[p] = "open" /\ \A q \in M!Runners : q # p => at'[q] = at[q]
    BY <1>1, <2>1 DEF M!Places
  <2>3. \A q \in M!Runners : at[q] \in {"start", "open"} => memOf[q] = 0
    BY DEF PointTypes
  <2> QED
    BY <2>1, <2>2, <2>3 DEF PointTypes, Fresh, Adding
<1>3. CASE M!OpenMem(p)
  <2>1. /\ at' = [at EXCEPT ![p] = "try"] /\ at[p] = "open" /\ turn' = turn /\ memOf' = [memOf EXCEPT ![p] = memFile']
    BY <1>3 DEF M!OpenMem, M!Goes
  <2>2. at' \in [M!Runners -> M!Places] /\ at'[p] = "try" /\ \A q \in M!Runners : q # p => at'[q] = at[q]
    BY <1>1, <2>1 DEF M!Places
  <2>3. /\ memories' \in Seq(MemoryRecord) /\ memFile' \in 1..Len(memories')
        /\ Len(memories') \in Nat /\ Len(memories) <= Len(memories')
    <3>1. CASE memFile # 0
      BY <1>1, <1>3, <3>1 DEF M!OpenMem
    <3>2. CASE memFile = 0
      <4>1. memories' = Append(memories, M!NewMemory) /\ memFile' = Len(memories) + 1
        BY <1>3, <3>2 DEF M!OpenMem
      <4>2. M!NewMemory \in MemoryRecord
        BY DEF M!NewMemory, MemoryRecord
      <4> QED
        BY <1>1, <4>1, <4>2, Added
    <3> QED
      BY <3>1, <3>2
  <2>4. /\ memOf' \in [M!Runners -> 0..Len(memories')] /\ memOf'[p] # 0
        /\ \A q \in M!Runners : q # p => memOf'[q] = memOf[q]
    BY <1>1, <2>1, <2>3
  <2>5. turn[p] = Turns
    BY <2>1 DEF PointTypes, Fresh
  <2>6. memFile' \in 0..Len(memories')
    BY <2>3
  <2> QED
    BY <1>1, <2>1, <2>2, <2>3, <2>4, <2>5, <2>6 DEF PointTypes, Adding
<1>4. CASE ~M!OpenSem(p) /\ ~M!OpenMem(p)
  <2>1. /\ at' = [at EXCEPT ![p] = at'[p]] /\ at'[p] \in M!Places
        /\ memOf' = memOf /\ memFile' \in {0, memFile}
        /\ \/ Prepares(p) \/ Acquires(p) \/ CountsIn(p) \/ Releases(p) \/ AddsBatch(p) \/ CountsOut(p)
           \/ Destroys(p) \/ Walks(p)
    BY <1>4, PointMoves
  <2>2. at' \in [M!Runners -> M!Places] /\ \A q \in M!Runners : q # p => at'[q] = at[q]
    BY <1>1, <2>1
  <2>3. memories' \in Seq(MemoryRecord) /\ Len(memories') = Len(memories)
    <3>1. CASE Walks(p)
      BY <1>1, <3>1, Zenon DEF Walks
    <3>2. CASE ~Walks(p)
      BY <2>1, <3>2, Zenon DEF Prepares, Acquires, CountsIn, Releases, AddsBatch, CountsOut, Destroys, Becomes
    <3> QED
      BY <3>1, <3>2
  <2>4. memFile' \in 0..Len(memories) /\ memOf' \in [M!Runners -> 0..Len(memories)]
    BY <1>1, <2>1
  <2>5. /\ turn' \in [M!Runners -> 0..Turns] /\ \A q \in M!Runners : q # p => turn'[q] = turn[q]
        /\ at'[p] \in Fresh => turn'[p] = Turns
        /\ at'[p] \in Adding => turn'[p] # 0
    <3>1. CASE AddsBatch(p)
      <4>1. turn[p] \in 0..Turns /\ turn[p] # 0
        BY <1>1, <3>1 DEF AddsBatch, PointTypes, Adding
      <4>2. turn[p] - 1 \in 0..Turns /\ (turn[p] > 1 => turn[p] - 1 # 0)
        BY <1>1, <4>1
      <4>3. turn' = [turn EXCEPT ![p] = turn[p] - 1] /\ at'[p] = IF turn[p] > 1 THEN "lock_work" ELSE "lock_leave"
        BY <3>1 DEF AddsBatch
      <4> QED
        BY <1>1, <4>2, <4>3 DEF Fresh, Adding
    <3>2. CASE ~AddsBatch(p)
      <4>1. turn' = turn
        BY <2>1, <3>2 DEF Prepares, Acquires, CountsIn, Releases, CountsOut, Destroys, Walks
      <4>2. (at[p] \in Fresh => turn[p] = Turns) /\ (at[p] \in Adding => turn[p] # 0) /\ Turns # 0
        BY <1>1 DEF PointTypes
      <4>3. /\ at'[p] \in Fresh => at[p] \in Fresh
            /\ at'[p] \in Adding => at[p] \in Fresh \cup Adding
        BY <2>1, <3>2 DEF Prepares, Acquires, CountsIn, Releases, CountsOut, Destroys, Walks, Fresh, Adding
      <4> QED
        BY <1>1, <4>1, <4>2, <4>3
    <3> QED
      BY <3>1, <3>2
  <2>6. /\ at'[p] \notin {"start", "open", "killed"} => memOf[p] # 0
        /\ at'[p] \notin {"start", "open"}
    <3>1. at[p] \in {"start", "open", "killed"} => at'[p] = "killed"
      BY <2>1 DEF Prepares, Acquires, CountsIn, Releases, AddsBatch, CountsOut, Destroys, Walks
    <3>2. at'[p] \notin {"start", "open"}
      BY <2>1 DEF Prepares, Acquires, CountsIn, Releases, AddsBatch, CountsOut, Destroys, Walks
    <3> QED
      BY <3>1, <3>2 DEF PointTypes
  <2>7. ASSUME NEW q \in M!Runners
        PROVE  /\ at'[q] \notin {"start", "open", "killed"} => memOf'[q] # 0
               /\ at'[q] \in {"start", "open"} => memOf'[q] = 0
               /\ at'[q] \in Fresh => turn'[q] = Turns
               /\ at'[q] \in Adding => turn'[q] # 0
    <3>1. CASE q = p
      BY <2>1, <2>5, <2>6, <3>1, Zenon
    <3>2. CASE q # p
      BY <2>1, <2>2, <2>5, <3>2, Zenon DEF PointTypes
    <3> QED
      BY <3>1, <3>2
  <2> QED
    BY <2>2, <2>3, <2>4, <2>5, <2>7, Zenon DEF PointTypes
<1> QED
  BY <1>2, <1>3, <1>4

\* An object that a step does not touch stays reliable.
LEMMA ReliableElsewhere ==
  ASSUME NEW p \in M!Runners, NEW m, Reliable(m), memOf[p] # m, memOf'[p] # m, memories'[m] = memories[m],
         \A q \in M!Runners : q # p => at'[q] = at[q] /\ turn'[q] = turn[q] /\ memOf'[q] = memOf[q]
  PROVE  Reliable(m)'
<1>1. M!Counted(m)' = M!Counted(m)
  BY DEF M!Counted
<1>2. M!Reported(m)' = M!Reported(m)
  BY DEF M!Reported
<1>3. \A q \in M!Runners : memOf'[q] = m => q # p /\ at'[q] = at[q] /\ turn'[q] = turn[q] /\ memOf[q] = m
  OBVIOUS
<1>4. M!Runners' = M!Runners
  BY DEF M!Runners
<1> QED
  BY ONLY Reliable(m), memories'[m] = memories[m], <1>1, <1>2, <1>3, <1>4 DEF Reliable

\* The counted processes and the reported batches are finitely many, and change by one.
LEMMA CountedMove ==
  ASSUME PointTypes, NEW p \in M!Runners, NEW m, memOf[p] = m, memOf' = memOf,
         \A q \in M!Runners : q # p => at'[q] = at[q]
  PROVE  /\ IsFiniteSet(M!Counted(m)) /\ Cardinality(M!Counted(m)) \in Nat
         /\ Cardinality(M!Counted(m)) = 0 <=> M!Counted(m) = {}
         /\ (at[p] \in CountedAt <=> at'[p] \in CountedAt) => M!Counted(m)' = M!Counted(m)
         /\ at[p] \notin CountedAt /\ at'[p] \in CountedAt => Cardinality(M!Counted(m)') = Cardinality(M!Counted(m)) + 1
         /\ at[p] \in CountedAt /\ at'[p] \notin CountedAt =>
              /\ Cardinality(M!Counted(m)') = Cardinality(M!Counted(m)) - 1
              /\ Cardinality(M!Counted(m)) = 1 => M!Counted(m)' = {}
              /\ M!Counted(m) # {}
<1>1. IsFiniteSet(M!Runners)
  BY MemoryAssumption, FS_Interval DEF MemoryAssumption, M!Runners
<1>2. M!Counted(m) \subseteq M!Runners /\ M!Counted(m)' \subseteq M!Runners
  BY DEF M!Counted, M!Runners
<1>3. IsFiniteSet(M!Counted(m)) /\ IsFiniteSet(M!Counted(m)')
  BY <1>1, <1>2, FS_Subset
<1>4. Cardinality(M!Counted(m)) \in Nat /\ (Cardinality(M!Counted(m)) = 0 <=> M!Counted(m) = {})
  BY <1>3, FS_CardinalityType, FS_EmptySet
<1>5. Cardinality(M!Counted(m)') \in Nat /\ (Cardinality(M!Counted(m)') = 0 <=> M!Counted(m)' = {})
  BY <1>3, FS_CardinalityType, FS_EmptySet
<1>6. M!Runners' = M!Runners
  BY DEF M!Runners
<1>7. (at[p] \in CountedAt <=> at'[p] \in CountedAt) => M!Counted(m)' = M!Counted(m)
  BY <1>6 DEF M!Counted, CountedAt
<1>8. ASSUME at[p] \notin CountedAt, at'[p] \in CountedAt
      PROVE  Cardinality(M!Counted(m)') = Cardinality(M!Counted(m)) + 1
  <2>1. M!Counted(m)' = M!Counted(m) \cup {p} /\ p \notin M!Counted(m)
    BY <1>6, <1>8 DEF M!Counted, CountedAt
  <2> QED
    BY <1>3, <2>1, FS_AddElement
<1>9. ASSUME at[p] \in CountedAt, at'[p] \notin CountedAt
      PROVE  Cardinality(M!Counted(m)') = Cardinality(M!Counted(m)) - 1 /\ M!Counted(m) # {}
  <2>1. M!Counted(m)' = M!Counted(m) \ {p} /\ p \in M!Counted(m)
    BY <1>6, <1>9 DEF M!Counted, CountedAt
  <2> QED
    BY <1>3, <2>1, FS_RemoveElement
<1> QED
  BY <1>3, <1>4, <1>5, <1>7, <1>8, <1>9

\* The batches of an object grow by the one that p adds.
LEMMA ReportedMove ==
  ASSUME PointTypes, NEW p \in M!Runners, NEW m, memOf[p] = m, memOf' = memOf
  PROVE  /\ turn' = turn => M!Reported(m)' = M!Reported(m)
         /\ turn[p] # 0 /\ turn' = [turn EXCEPT ![p] = @ - 1] =>
              Cardinality(M!Reported(m)') = Cardinality(M!Reported(m)) + 1
<1>1. turn' = turn => M!Reported(m)' = M!Reported(m)
  BY DEF M!Reported, M!Runners
<1>2. ASSUME turn[p] # 0, turn' = [turn EXCEPT ![p] = @ - 1]
      PROVE  Cardinality(M!Reported(m)') = Cardinality(M!Reported(m)) + 1
  <2>1. turn[p] \in 1..Turns /\ turn \in [M!Runners -> 0..Turns] /\ Turns \in Nat \ {0} /\ M!Runners' = M!Runners
    BY <1>2, MemoryAssumption DEF MemoryAssumption, PointTypes, M!Runners
  <2>2. M!Reported(m)' = M!Reported(m) \cup {<<p, turn[p]>>} /\ <<p, turn[p]>> \notin M!Reported(m)
    BY <1>2, <2>1 DEF M!Reported
  <2>3. IsFiniteSet(M!Reported(m))
    <3>1. IsFiniteSet(M!Runners) /\ IsFiniteSet(1..Turns)
      BY MemoryAssumption, FS_Interval DEF MemoryAssumption, M!Runners
    <3>2. IsFiniteSet(M!Runners \X (1..Turns))
      BY <3>1, FS_Product, Zenon
    <3>3. M!Reported(m) \subseteq M!Runners \X (1..Turns)
      BY DEF M!Reported
    <3> QED
      BY <3>2, <3>3, FS_Subset
  <2> QED
    BY <2>2, <2>3, FS_AddElement
<1> QED
  BY <1>1, <1>2

\* Before the mutex of an object is made nobody has added a batch to it.
LEMMA NothingReported ==
  ASSUME PointTypes, NEW m, \A p \in M!Runners : memOf[p] = m => turn[p] = Turns
  PROVE  M!Reported(m) = {}
<1>1. Turns \in Nat
  BY MemoryAssumption DEF MemoryAssumption
<1> QED
  BY <1>1 DEF M!Reported

\* To prepare an object that is not initialised, with nobody at its mutex, or to make the
\* mutex, which only the one that prepares it does.
LEMMA PreparedReliable ==
  ASSUME PointTypes, NEW p \in M!Runners, NEW m, memOf[p] = m, Reliable(m), memOf' = memOf,
         \A q \in M!Runners : q # p => at'[q] = at[q], Prepares(p), ~memories'[m].early
  PROVE  Reliable(m)'
<1>1. /\ \A q \in M!Runners : memOf[q] = m => at[q] \notin Beyond /\ turn[q] = Turns
      /\ memories[m].kind = "plain" /\ memories'[m].initialised = TRUE
      /\ \A q \in M!Runners : memOf[q] = m /\ at[q] = "mutex" => q = p
      /\ memories'[m].kind \in {"plain", "robust"} /\ (at'[p] = "mutex" => memories'[m].kind = "plain")
      /\ memories'[m].counter >= 0 /\ memories'[m].samples = 0 /\ at'[p] \in {"mutex", "post"}
  <2>1. CASE at[p] = "set"
    <3>1. /\ memories'[m].initialised = TRUE /\ memories'[m].counter = 0 /\ memories'[m].samples = 0
          /\ memories'[m].kind = memories[m].kind /\ memories[m].initialised = FALSE /\ at'[p] = "mutex"
      <4>1. memories[m] \in MemoryRecord
        BY <2>1 DEF PointTypes
      <4> QED
        BY <2>1, <4>1 DEF Prepares, Becomes, M!Mem, MemoryRecord
    <3> QED
      BY <2>1, <3>1 DEF Reliable
  <2>2. CASE at[p] = "mutex"
    <3>1. /\ memories'[m].initialised = memories[m].initialised /\ memories'[m].counter = memories[m].counter
          /\ memories'[m].samples = memories[m].samples /\ memories'[m].kind = "robust" /\ at'[p] = "post"
      BY <2>2 DEF Prepares, Becomes, M!Mem
    <3>2. /\ memories[m].kind = "plain" /\ memories[m].initialised
          /\ \A q \in M!Runners : memOf[q] = m /\ at[q] = "mutex" => q = p
      BY <2>2 DEF Reliable
    <3>3. \A q \in M!Runners : memOf[q] = m => at[q] \notin Beyond /\ turn[q] = Turns
      BY <3>2 DEF Reliable
    <3>4. M!Counted(m) = {} /\ M!Reported(m) = {}
      BY <3>3, NothingReported DEF M!Counted, Beyond, Inner
    <3>5. memories[m].counter >= 0 /\ memories[m].samples = 0
      BY <3>4, SameCardinality, FS_EmptySet DEF Reliable
    <3> QED
      BY <3>1, <3>2, <3>3, <3>5
  <2> QED
    BY <2>1, <2>2 DEF Prepares
<1>2. turn' = turn /\ M!Runners' = M!Runners
  BY DEF Prepares, M!Runners
<1>3. /\ \A q \in M!Runners : memOf'[q] = m => at'[q] \notin Beyond /\ turn'[q] = Turns
      /\ \A q \in M!Runners : memOf'[q] = m /\ at'[q] = "mutex" => q = p
  BY <1>1, <1>2 DEF Beyond, Inner
<1>4. M!Counted(m)' = {}
  BY <1>2, <1>3 DEF M!Counted, Beyond, Inner
<1>5. M!Reported(m)' = {}
  BY <1>1, <1>2, NothingReported DEF M!Reported
<1>6. Cardinality({}) = 0
  BY FS_EmptySet
<1>7. memories'[m].counter >= Cardinality(M!Counted(m)') /\ memories'[m].samples = Cardinality(M!Reported(m)')
  BY <1>1, <1>4, <1>5, <1>6
<1> QED
  BY <1>1, <1>2, <1>3, <1>4, <1>7 DEF Reliable, Beyond, Inner

\* What the others at an object do stays, when p, which has its mutex or gets it, writes
\* to it: nobody else is where the mutex is held, and nobody makes the mutex any more.
LEMMA HolderAlone ==
  ASSUME NEW p \in M!Runners, NEW m, memOf[p] = m, Reliable(m),
         \/ at[p] \in Inner
         \/ memories[m].kind # "plain" /\ (memories[m].holder = {} \/ \A q \in memories[m].holder : at[q] \in M!Ended)
  PROVE  /\ memories[m].kind # "plain" /\ memories[m].initialised
         /\ \A q \in M!Runners : q # p /\ memOf[q] = m => at[q] \notin Inner \cup {"mutex"}
<1>1. memories[m].kind # "plain"
  BY DEF Reliable, Beyond
<1>2. memories[m].initialised /\ \A q \in M!Runners : memOf[q] = m => at[q] # "mutex"
  BY <1>1 DEF Reliable
<1>3. \A q \in M!Runners : q # p /\ memOf[q] = m => at[q] \notin Inner
  <2>1. \A q \in M!Runners : memOf[q] = m /\ at[q] \in Inner => memories[m].holder = {q}
    BY DEF Reliable
  <2> QED
    BY <2>1 DEF M!Ended, Inner
<1> QED
  BY <1>1, <1>2, <1>3

\* The object is reliable after such a step when its new fields are.
LEMMA HolderReliable ==
  ASSUME NEW p \in M!Runners, NEW m, memOf[p] = m, memOf' = memOf,
         \A q \in M!Runners : q # p => at'[q] = at[q],
         \A q \in M!Runners : q # p /\ memOf[q] = m => at[q] \notin Inner \cup {"mutex"},
         at'[p] # "mutex", at'[p] \in Inner => memories'[m].holder = {p},
         memories'[m].kind # "plain", memories'[m].initialised,
         memories'[m].counter >= Cardinality(M!Counted(m)'),
         memories'[m].samples = Cardinality(M!Reported(m)'),
         at'[p] = "print" => M!Counted(m)' = {}
  PROVE  Reliable(m)'
<1>1. M!Runners' = M!Runners
  BY DEF M!Runners
<1>2. \A q \in M!Runners : q # p /\ memOf'[q] = m => at'[q] \notin Inner \cup {"mutex"}
  OBVIOUS
<1>3. \A q \in M!Runners : q # p /\ memOf'[q] = m => at'[q] # "print"
  BY <1>2 DEF Inner
<1> QED
  BY <1>1, <1>2, <1>3 DEF Reliable

\* To take the mutex, to count oneself in and to release it.
LEMMA EnteredReliable ==
  ASSUME PointTypes, NEW p \in M!Runners, NEW m, memOf[p] = m, Reliable(m), memOf' = memOf,
         \A q \in M!Runners : q # p => at'[q] = at[q], Acquires(p) \/ CountsIn(p) \/ Releases(p),
         ~memories'[m].early
  PROVE  Reliable(m)'
<1>1. M!Reported(m)' = M!Reported(m)
  BY ReportedMove DEF Acquires, CountsIn, Releases
<1>2. memories[m].counter >= Cardinality(M!Counted(m)) /\ memories[m].samples = Cardinality(M!Reported(m))
  BY DEF Reliable
<1>3. \A q \in M!Runners : memOf[q] = m /\ at[q] \in Inner => memories[m].holder = {q}
  BY DEF Reliable
<1>4. Cardinality(M!Counted(m)) \in Nat
  BY CountedMove
<1>5. memories[m].counter \in Int
  <2>1. at[p] \notin {"start", "open", "killed"}
    BY DEF Acquires, CountsIn, Releases
  <2>2. m \in 1..Len(memories)
    BY <2>1 DEF PointTypes
  <2>3. memories[m] \in MemoryRecord
    BY <2>2 DEF PointTypes
  <2> QED
    BY <2>3 DEF MemoryRecord
<1>6. CASE Acquires(p)
  <2>1. /\ memories'[m].kind = memories[m].kind /\ memories[m].kind # "plain" /\ memories'[m].holder = {p}
        /\ memories'[m].initialised = memories[m].initialised /\ memories'[m].counter = memories[m].counter
        /\ memories'[m].samples = memories[m].samples
        /\ (memories[m].holder = {} \/ \A q \in memories[m].holder : at[q] \in M!Ended)
    <3>1. /\ memories'[m] = [initialised |-> memories[m].initialised, counter |-> memories[m].counter,
                             samples |-> memories[m].samples, kind |-> memories[m].kind, holder |-> {p},
                             early |-> (memories[m].early \/ memories[m].kind = "plain")]
          /\ (memories[m].holder = {} \/ \A q \in memories[m].holder : at[q] \in M!Ended)
      BY <1>6, Zenon DEF Acquires, Becomes, M!Mem
    <3>2. memories'[m].early = (memories[m].early \/ memories[m].kind = "plain")
      BY <3>1
    <3>3. memories[m].kind # "plain"
      BY <3>2, Zenon
    <3>4. /\ memories'[m].kind = memories[m].kind /\ memories'[m].holder = {p}
          /\ memories'[m].initialised = memories[m].initialised /\ memories'[m].counter = memories[m].counter
          /\ memories'[m].samples = memories[m].samples
      BY ONLY <3>1
    <3> QED
      BY <3>1, <3>3, <3>4, Zenon
  <2>2. /\ memories[m].initialised
        /\ \A q \in M!Runners : q # p /\ memOf[q] = m => at[q] \notin Inner \cup {"mutex"}
    BY <2>1, HolderAlone
  <2>3. M!Counted(m)' = M!Counted(m) /\ at'[p] \notin {"mutex", "print"}
    BY <1>6, CountedMove DEF Acquires, CountedAt
  <2> QED
    BY <1>1, <1>2, <2>1, <2>2, <2>3, HolderReliable
<1>7. CASE CountsIn(p)
  <2>1. /\ memories'[m].kind = memories[m].kind /\ memories'[m].holder = memories[m].holder
        /\ memories'[m].initialised = memories[m].initialised /\ memories'[m].counter = memories[m].counter + 1
        /\ memories'[m].samples = memories[m].samples
    BY <1>7 DEF CountsIn, Becomes, M!Mem
  <2>2. at[p] \in Inner /\ at'[p] = "unlock"
    BY <1>7 DEF CountsIn, Inner
  <2>3. /\ memories[m].initialised /\ memories[m].kind # "plain" /\ memories[m].holder = {p}
        /\ \A q \in M!Runners : q # p /\ memOf[q] = m => at[q] \notin Inner \cup {"mutex"}
    BY <2>2, <1>3, HolderAlone
  <2>4. Cardinality(M!Counted(m)') = Cardinality(M!Counted(m)) + 1
    BY <1>7, CountedMove DEF CountsIn, CountedAt
  <2>5. memories'[m].counter >= Cardinality(M!Counted(m)')
    BY <1>2, <1>4, <1>5, <2>1, <2>4
  <2> QED
    BY <1>1, <1>2, <2>1, <2>2, <2>3, <2>5, HolderReliable
<1>8. CASE Releases(p)
  <2>1. /\ memories'[m].kind = memories[m].kind
        /\ memories'[m].initialised = memories[m].initialised /\ memories'[m].counter = memories[m].counter
        /\ memories'[m].samples = memories[m].samples
    BY <1>8 DEF Releases, Becomes, M!Mem
  <2>2. at[p] \in Inner /\ at'[p] \notin Inner \cup {"mutex", "print"}
    BY <1>8 DEF Releases, Inner
  <2>3. /\ memories[m].initialised /\ memories[m].kind # "plain"
        /\ \A q \in M!Runners : q # p /\ memOf[q] = m => at[q] \notin Inner \cup {"mutex"}
    BY <2>2, HolderAlone
  <2>4. M!Counted(m)' = M!Counted(m)
    BY <1>8, CountedMove DEF Releases, CountedAt
  <2> QED
    BY <1>1, <1>2, <2>1, <2>2, <2>3, <2>4, HolderReliable
<1> QED
  BY <1>6, <1>7, <1>8

\* To add a batch, and to count oneself out.
LEMMA WorkedReliable ==
  ASSUME PointTypes, NEW p \in M!Runners, NEW m, memOf[p] = m, Reliable(m), memOf' = memOf,
         \A q \in M!Runners : q # p => at'[q] = at[q], AddsBatch(p) \/ CountsOut(p)
  PROVE  Reliable(m)'
<1>1. at[p] \in Inner
  BY DEF AddsBatch, CountsOut, Inner
<1>2. memories[m].counter >= Cardinality(M!Counted(m)) /\ memories[m].samples = Cardinality(M!Reported(m))
  BY DEF Reliable
<1>3. /\ memories[m].initialised /\ memories[m].kind # "plain" /\ memories[m].holder = {p}
      /\ \A q \in M!Runners : q # p /\ memOf[q] = m => at[q] \notin Inner \cup {"mutex"}
  <2>1. memories[m].holder = {p}
    BY <1>1 DEF Reliable
  <2> QED
    BY <1>1, <2>1, HolderAlone
<1>4. Cardinality(M!Counted(m)) \in Nat
  BY CountedMove
<1>5. memories[m].counter \in Int /\ memories[m].samples \in Nat
  <2>1. at[p] \notin {"start", "open", "killed"}
    BY DEF AddsBatch, CountsOut
  <2>2. m \in 1..Len(memories)
    BY <2>1 DEF PointTypes
  <2>3. memories[m] \in MemoryRecord
    BY <2>2 DEF PointTypes
  <2> QED
    BY <2>3 DEF MemoryRecord
<1>6. CASE AddsBatch(p)
  <2>1. /\ memories'[m].kind = memories[m].kind
        /\ memories'[m].initialised = memories[m].initialised /\ memories'[m].counter = memories[m].counter
        /\ memories'[m].samples = memories[m].samples + 1
    BY <1>6 DEF AddsBatch, Becomes, M!Mem
  <2>2. at'[p] \in {"lock_work", "lock_leave"}
    BY <1>6 DEF AddsBatch
  <2>3. M!Counted(m)' = M!Counted(m)
    BY <1>6, <2>2, CountedMove DEF AddsBatch, CountedAt
  <2>4. turn[p] # 0
    BY <1>6 DEF AddsBatch, PointTypes, Adding
  <2>5. Cardinality(M!Reported(m)') = Cardinality(M!Reported(m)) + 1
    BY <1>6, <2>4, ReportedMove DEF AddsBatch
  <2>6. at'[p] \notin Inner \cup {"mutex", "print"}
    BY <2>2 DEF Inner
  <2>7. memories'[m].samples = Cardinality(M!Reported(m)')
    BY <1>2, <2>1, <2>5
  <2> QED
    BY <1>2, <1>3, <2>1, <2>3, <2>6, <2>7, HolderReliable
<1>7. CASE CountsOut(p)
  <2>1. /\ memories'[m].kind = memories[m].kind
        /\ memories'[m].initialised = memories[m].initialised /\ memories'[m].counter = memories[m].counter - 1
        /\ memories'[m].samples = memories[m].samples
        /\ memories[m].counter = 1 => memories'[m].holder = memories[m].holder
        /\ at'[p] = (IF memories[m].counter = 1 THEN "print" ELSE "done")
    BY <1>7 DEF CountsOut, Becomes, M!Mem
  <2>2. at'[p] # "mutex" /\ (at'[p] \in Inner => memories'[m].holder = {p})
    BY <1>3, <2>1 DEF Inner
  <2>3. /\ Cardinality(M!Counted(m)') = Cardinality(M!Counted(m)) - 1
        /\ Cardinality(M!Counted(m)) = 1 => M!Counted(m)' = {}
        /\ Cardinality(M!Counted(m)) # 0
    <3>1. at[p] = "leave" /\ at'[p] \notin {"unlock", "lock_work", "add", "lock_leave", "leave"}
      BY <1>7, <2>1 DEF CountsOut
    <3> QED
      BY <3>1, CountedMove DEF CountedAt
  <2>4. memories'[m].counter >= Cardinality(M!Counted(m)')
    BY <1>2, <1>4, <1>5, <2>1, <2>3
  <2>5. at'[p] = "print" => M!Counted(m)' = {}
    BY <1>2, <1>4, <1>5, <2>1, <2>3
  <2>6. M!Reported(m)' = M!Reported(m)
    BY <1>7, ReportedMove DEF CountsOut
  <2> QED
    BY <1>2, <1>3, <2>1, <2>2, <2>4, <2>5, <2>6, HolderReliable
<1> QED
  BY <1>6, <1>7

\* To destroy the mutex, and the steps that do not write to the object.
LEMMA LeftReliable ==
  ASSUME PointTypes, NEW p \in M!Runners, NEW m, memOf[p] = m, Reliable(m), memOf' = memOf,
         \A q \in M!Runners : q # p => at'[q] = at[q], Destroys(p) \/ Walks(p),
         Walks(p) => memories'[m] = memories[m]
  PROVE  Reliable(m)'
<1>1. /\ memories'[m].initialised = memories[m].initialised /\ memories'[m].counter = memories[m].counter
      /\ memories'[m].samples = memories[m].samples /\ memories'[m].holder = memories[m].holder
      /\ memories'[m].kind = memories[m].kind \/ (memories'[m].kind = "destroyed" /\ at[p] = "destroy")
  BY DEF Destroys, Walks, Becomes, M!Mem
<1>2. turn' = turn /\ M!Runners' = M!Runners
  BY DEF Destroys, Walks, M!Runners
<1>3. at'[p] \notin Inner \cup {"mutex"} /\ (at'[p] \in Beyond => at[p] \in Beyond)
  BY DEF Destroys, Walks, Inner, Beyond
<1>4. memories[m].kind = "plain" => at[p] # "destroy"
  BY DEF Reliable, Beyond
<1>5. /\ \A q \in M!Runners : memOf'[q] = m /\ at'[q] \in Inner \cup {"mutex"} => q # p /\ memOf[q] = m /\ at'[q] = at[q]
      /\ \A q \in M!Runners : memOf'[q] = m /\ at'[q] \in Beyond => memOf[q] = m /\ at[q] \in Beyond
  BY <1>3
<1>6. at[p] = "destroy" => \A q \in M!Runners : memOf[q] = m => at[q] # "mutex"
  BY <1>4 DEF Reliable
<1>7. /\ M!Counted(m)' \subseteq M!Counted(m)
      /\ memories[m].counter >= Cardinality(M!Counted(m)')
  <2>1. CASE at[p] \in CountedAt <=> at'[p] \in CountedAt
    <3>1. M!Counted(m)' = M!Counted(m)
      BY <2>1, CountedMove
    <3> QED
      BY <3>1 DEF Reliable
  <2>2. CASE at[p] \in CountedAt /\ at'[p] \notin CountedAt
    <3>1. Cardinality(M!Counted(m)') = Cardinality(M!Counted(m)) - 1 /\ Cardinality(M!Counted(m)) \in Nat
      BY <2>2, CountedMove
    <3>2. M!Counted(m)' \subseteq M!Counted(m)
      BY <1>2, <2>2 DEF M!Counted, CountedAt
    <3>3. memories[m].counter >= Cardinality(M!Counted(m)) /\ memories[m].counter \in Int
      <4>1. CASE memories[m] \in MemoryRecord
        BY <4>1 DEF Reliable, MemoryRecord
      <4>2. memories[m] \in MemoryRecord
        <5>1. at[p] \notin {"start", "open", "killed"}
          BY <2>2 DEF CountedAt
        <5>2. m \in 1..Len(memories)
          BY <5>1 DEF PointTypes
        <5> QED
          BY <5>2 DEF PointTypes
      <4> QED
        BY <4>1, <4>2
    <3> QED
      BY <3>1, <3>2, <3>3
  <2>3. ~(at[p] \notin CountedAt /\ at'[p] \in CountedAt)
    BY DEF Destroys, Walks, CountedAt
  <2> QED
    BY <2>1, <2>2, <2>3
<1>8. M!Reported(m)' = M!Reported(m)
  BY <1>2, ReportedMove
<1>9. /\ \A q \in M!Runners : memOf'[q] = m /\ at'[q] \in Inner => memories'[m].holder = {q}
      /\ \A q \in M!Runners : memOf'[q] = m /\ at'[q] = "print" => M!Counted(m)' = {}
  BY <1>1, <1>5, <1>7 DEF Reliable, Inner
<1>10. /\ memories'[m].kind # "plain" => memories'[m].initialised
       /\ memories'[m].kind = "plain" => \A q \in M!Runners : memOf'[q] = m => at'[q] \notin Beyond /\ turn'[q] = Turns
  BY <1>1, <1>2, <1>4, <1>5 DEF Reliable, Beyond
<1>11. /\ \A q \in M!Runners : memOf'[q] = m /\ at'[q] = "mutex" => memories'[m].kind = "plain" /\ memories'[m].initialised
       /\ \A q, r \in M!Runners : memOf'[q] = m /\ at'[q] = "mutex" /\ memOf'[r] = m /\ at'[r] = "mutex" => q = r
  BY <1>1, <1>5, <1>6 DEF Reliable
<1>12. memories'[m].samples = Cardinality(M!Reported(m)')
  BY <1>1, <1>8 DEF Reliable
<1> QED
  BY <1>1, <1>2, <1>7, <1>9, <1>10, <1>11, <1>12 DEF Reliable

\* A step of a process at its object keeps it reliable, unless it is too early.
LEMMA OwnReliable ==
  ASSUME PointTypes, NEW p \in M!Runners, NEW m \in 1..Len(memories), memOf[p] = m, Reliable(m),
         M!Runner(p) \/ M!Kill(p), ~M!OpenSem(p), ~M!OpenMem(p), ~memories'[m].early
  PROVE  Reliable(m)'
<1>1. /\ at' = [at EXCEPT ![p] = at'[p]] /\ memOf' = memOf
      /\ \/ Prepares(p) \/ Acquires(p) \/ CountsIn(p) \/ Releases(p) \/ AddsBatch(p) \/ CountsOut(p)
         \/ Destroys(p) \/ Walks(p)
  BY PointMoves
<1>2. \A q \in M!Runners : q # p => at'[q] = at[q]
  BY <1>1 DEF PointTypes
<1>3. Walks(p) => memories'[m] = memories[m]
  BY DEF Walks
<1> QED
  BY <1>1, <1>2, <1>3, PreparedReliable, EnteredReliable, WorkedReliable, LeftReliable

\* Who opens the memory finds it, or gets an empty one that nobody else has.
LEMMA OpenedReliable ==
  ASSUME PointTypes, NEW p \in M!Runners, M!OpenMem(p), NEW m \in 1..Len(memories'), ~memories'[m].early,
         \A k \in 1..Len(memories) : ~memories[k].early => Reliable(k)
  PROVE  Reliable(m)'
<1>1. /\ at[p] = "open" /\ at' = [at EXCEPT ![p] = "try"] /\ turn' = turn /\ memOf' = [memOf EXCEPT ![p] = memFile']
      /\ M!Runners' = M!Runners /\ Turns \in Nat
  BY MemoryAssumption DEF M!OpenMem, M!Goes, M!Runners, MemoryAssumption
<1>2. /\ at'[p] = "try" /\ memOf'[p] = memFile' /\ memOf[p] = 0 /\ turn[p] = Turns
      /\ \A q \in M!Runners : q # p => at'[q] = at[q] /\ memOf'[q] = memOf[q]
      /\ Len(memories) \in Nat /\ memories \in Seq(MemoryRecord)
  BY <1>1 DEF PointTypes, Fresh
<1>3. CASE m \in 1..Len(memories)
  <2>1. memories'[m] = memories[m]
    <3>1. CASE memFile # 0
      BY <3>1 DEF M!OpenMem
    <3>2. CASE memFile = 0
      BY <1>2, <1>3, <3>2 DEF M!OpenMem
    <3> QED
      BY <3>1, <3>2
  <2>2. Reliable(m)
    BY <1>3, <2>1
  <2>3. M!Counted(m)' = M!Counted(m)
    BY <1>1, <1>2, <1>3 DEF M!Counted
  <2>4. M!Reported(m)' = M!Reported(m)
    <3>1. ASSUME NEW j \in M!Runners \X (1..Turns)
          PROVE  (memOf'[j[1]] = m /\ j[2] > turn'[j[1]]) <=> (memOf[j[1]] = m /\ j[2] > turn[j[1]])
      BY <1>1, <1>2, <1>3
    <3> QED
      BY <1>1, <3>1 DEF M!Reported
  <2>5. \A q \in M!Runners : memOf'[q] = m => q = p \/ (memOf[q] = m /\ at'[q] = at[q])
    BY <1>2
  <2>6. at'[p] \notin Beyond \cup Inner \cup {"mutex", "print"}
    BY <1>2 DEF Beyond, Inner
  <2> QED
    BY ONLY <1>1, <1>2, <2>1, <2>2, <2>3, <2>4, <2>5, <2>6 DEF Reliable
<1>4. CASE m \notin 1..Len(memories)
  <2>1. /\ memFile = 0 /\ memories' = Append(memories, M!NewMemory) /\ memFile' = Len(memories) + 1
    BY <1>4 DEF M!OpenMem
  <2>2. m = Len(memories) + 1 /\ memories'[m] = M!NewMemory
    BY <1>2, <1>4, <2>1
  <2>3. \A q \in M!Runners : memOf'[q] = m => q = p
    BY <1>2, <2>2 DEF PointTypes
  <2>4. M!Counted(m)' = {}
    BY <1>1, <1>2, <2>3 DEF M!Counted
  <2>5. M!Reported(m)' = {}
    BY <1>1, <1>2, <2>3 DEF M!Reported
  <2>6. Cardinality({}) = 0
    BY FS_EmptySet
  <2>7. /\ memories'[m].initialised = FALSE /\ memories'[m].kind = "plain" /\ memories'[m].counter = 0
        /\ memories'[m].samples = 0
    BY <2>2 DEF M!NewMemory
  <2>8. at'[p] \notin Beyond \cup Inner \cup {"mutex", "print"}
    BY <1>2 DEF Beyond, Inner
  <2>9. memories'[m].counter >= Cardinality(M!Counted(m)') /\ memories'[m].samples = Cardinality(M!Reported(m)')
    BY <2>4, <2>5, <2>6, <2>7
  <2> QED
    BY ONLY <1>1, <1>2, <2>3, <2>4, <2>7, <2>8, <2>9 DEF Reliable
<1> QED
  BY <1>3, <1>4

\* The invariant of the points is kept while no mutex is used too early.
LEMMA PointStep ==
  ASSUME PointInv, M!Sound, NEW p \in M!Runners, M!Runner(p) \/ M!Kill(p)
  PROVE  PointInv'
<1>1. PointTypes /\ PointTypes'
  BY PointTypesStep DEF PointInv
<1>2. memories \in Seq(MemoryRecord) /\ at \in [M!Runners -> M!Places] /\ turn \in [M!Runners -> 0..Turns]
  BY <1>1 DEF PointTypes
<1>3. \A m \in 1..Len(memories) : ~memories[m].early => Reliable(m)
  BY DEF PointInv
<1>4. \A m \in 1..Len(memories) : Reliable(m)
  BY <1>2, <1>3 DEF M!Sound
<1>5. ASSUME NEW m \in 1..Len(memories'), ~memories'[m].early
      PROVE  Reliable(m)'
  <2>1. CASE M!OpenSem(p)
    <3>1. at' = [at EXCEPT ![p] = "open"] /\ at[p] = "start" /\ UNCHANGED <<turn, memOf, memories, memFile>>
      BY <2>1 DEF M!OpenSem, M!Goes
    <3>2. memOf[p] = 0 /\ \A q \in M!Runners : q # p => at'[q] = at[q]
      BY <1>1, <3>1 DEF PointTypes
    <3>3. Reliable(m) /\ memOf[p] # m
      BY <1>4, <3>1, <3>2
    <3> QED
      BY <3>1, <3>2, <3>3, ReliableElsewhere
  <2>2. CASE M!OpenMem(p)
    BY <1>1, <1>3, <1>5, <2>2, OpenedReliable
  <2>3. CASE ~M!OpenSem(p) /\ ~M!OpenMem(p)
    <3>1. /\ at' = [at EXCEPT ![p] = at'[p]] /\ at'[p] \in M!Places /\ memOf' = memOf
          /\ \/ Prepares(p) \/ Acquires(p) \/ CountsIn(p) \/ Releases(p) \/ AddsBatch(p) \/ CountsOut(p)
             \/ Destroys(p) \/ Walks(p)
      BY <1>1, <2>3, PointMoves
    <3>2. /\ Len(memories') = Len(memories)
          /\ \A k \in 1..Len(memories) : k # memOf[p] => memories'[k] = memories[k]
      <4>1. CASE Walks(p)
        BY <4>1, Zenon DEF Walks
      <4>2. CASE ~Walks(p)
        BY <3>1, <4>2, Zenon DEF Prepares, Acquires, CountsIn, Releases, AddsBatch, CountsOut, Destroys, Becomes
      <4> QED
        BY <4>1, <4>2
    <3>3. m \in 1..Len(memories) /\ Reliable(m)
      BY <1>4, <3>2
    <3>4. CASE memOf[p] = m
      BY <1>1, <1>5, <2>3, <3>3, <3>4, OwnReliable
    <3>5. CASE memOf[p] # m
      <4>1. \A q \in M!Runners : q # p => at'[q] = at[q] /\ turn'[q] = turn[q]
        <5>1. turn' = turn \/ turn' = [turn EXCEPT ![p] = @ - 1]
          BY <3>1, Zenon DEF Prepares, Acquires, CountsIn, Releases, AddsBatch, CountsOut, Destroys, Walks
        <5> QED
          BY <1>2, <3>1, <5>1
      <4>2. memories'[m] = memories[m]
        BY <3>2, <3>3, <3>5
      <4> QED
        BY <3>1, <3>3, <3>5, <4>1, <4>2, ReliableElsewhere
    <3> QED
      BY <3>4, <3>5
  <2> QED
    BY <2>1, <2>2, <2>3
<1> QED
  BY <1>1, <1>5, Zenon DEF PointInv

\* The other programs do not touch the points.
LEMMA PointFrame == PointInv /\ UNCHANGED pointVars => PointInv'
<1> SUFFICES ASSUME PointInv, UNCHANGED pointVars PROVE PointInv'
  OBVIOUS
<1>1. /\ at' = at /\ turn' = turn /\ memOf' = memOf /\ memories' = memories /\ memFile' = memFile
      /\ M!Runners' = M!Runners
  BY DEF pointVars, M!Runners
<1>2. PointTypes'
  BY <1>1 DEF PointInv, PointTypes
<1>3. ASSUME NEW m \in 1..Len(memories), ~memories[m].early
      PROVE  Reliable(m)'
  <2>1. Reliable(m)
    BY <1>3 DEF PointInv
  <2>2. M!Counted(m)' = M!Counted(m) /\ M!Reported(m)' = M!Reported(m)
    BY <1>1 DEF M!Counted, M!Reported
  <2> QED
    BY ONLY <1>1, <2>1, <2>2 DEF Reliable
<1> QED
  BY <1>1, <1>2, <1>3, Zenon DEF PointInv

\* The final result is of all who have counted themselves in.
LEMMA PointFacts == PointInv => M!FinalIsComplete
<1> SUFFICES ASSUME PointInv, NEW m \in DOMAIN memories, ~memories[m].early
             PROVE  /\ memories[m].counter >= M!Cardinality(M!Counted(m))
                    /\ \A p \in M!Runners : memOf[p] = m /\ at[p] = "print" =>
                         /\ M!Counted(m) = {}
                         /\ memories[m].samples = M!Cardinality(M!Reported(m))
  BY DEF M!FinalIsComplete
<1>1. Reliable(m)
  BY DEF PointInv, PointTypes
<1> QED
  BY <1>1, SameCardinality DEF Reliable

\* The mean is of all samples, and the log has a line of each.
LEMMA SampleFacts == SampleInv => F!MeanOfAll
  BY DEF SampleInv, Sampled, F!TypeOK, F!MeanOfAll

-----------------------------------------------------------------------------
(* One of the programs *)

\* What is kept whatever the number of the players.
LabInv == IntegralInv /\ PointInv /\ GameInv /\ SampleInv

\* The initial states and the steps of the programs are those of their modules.
LEMMA LabSteps ==
  ASSUME [LabNext]_labVars
  PROVE  \/ UNCHANGED <<vars, pointVars, gameVars, batonVars, sampleVars>>
         \/ (\E p \in Procs : Step(p)) /\ UNCHANGED <<pointVars, gameVars, batonVars, sampleVars>>
         \/ M!Sound /\ (\E p \in M!Runners : M!Runner(p) \/ M!Kill(p)) /\ UNCHANGED <<vars, gameVars, batonVars, sampleVars>>
         \/ G!Next /\ UNCHANGED <<vars, pointVars, batonVars, sampleVars>>
         \/ B!Next /\ UNCHANGED <<vars, pointVars, gameVars, sampleVars>>
         \/ F!Next /\ UNCHANGED <<vars, pointVars, gameVars, batonVars>>
<1>1. CASE UNCHANGED labVars
  BY <1>1, Zenon DEF labVars
<1>2. CASE \E p \in Procs : Integrate(p)
  BY <1>2, Zenon DEF Integrate, OnlyIntegral
<1>3. CASE \E p \in 1..Starts : CountPoints(p) \/ KillRunner(p)
  BY <1>3, Zenon DEF CountPoints, KillRunner, OnlyPoints, M!Runners
<1>4. CASE Serve \/ HandleInterrupt \/ InterruptServer \/ \E c \in Clients : Play(c) \/ KillClient(c)
  BY <1>4, Zenon DEF Serve, HandleInterrupt, InterruptServer, Play, KillClient, OnlyGame, G!Next
<1>5. CASE Parent
  BY <1>5, Zenon DEF Parent, OnlyBaton, OnlySamples, B!Next, F!Next
<1>6. CASE \E i \in 1..Players : DrawInTurn(i)
  BY <1>6, Zenon DEF DrawInTurn, OnlyBaton, B!Next, B!Position
<1>7. CASE \E n \in 1..Samples : TakeSample(n)
  BY <1>7, Zenon DEF TakeSample, OnlySamples, F!Next, F!Numbers
<1> QED
  BY <1>1, <1>2, <1>3, <1>4, <1>5, <1>6, <1>7, Zenon DEF LabNext

\* A behaviour of one program keeps the invariants of all of them.
LEMMA LabInductive ==
  /\ LabInit => LabInv
  /\ LabInv /\ [LabNext]_labVars => LabInv'
<1>1. LabInit => LabInv
  BY IntegralInit, PointInit, GameInit, SampleInit, Zenon DEF LabInit, LabInv
<1>2. ASSUME LabInv, [LabNext]_labVars
      PROVE  LabInv'
  <2>1. IntegralInv'
    BY <1>2, LabSteps, IntegralStep, IntegralFrame, Zenon DEF LabInv
  <2>2. PointInv'
    BY <1>2, LabSteps, PointStep, PointFrame, Zenon DEF LabInv
  <2>3. GameInv'
    <3>1. GameInv /\ G!Next => GameInv'
      BY ServerKeepsGame, ClientKeepsGame, Zenon DEF G!Next
    <3> QED
      BY <1>2, <3>1, LabSteps, GameFrame, Zenon DEF LabInv
  <2>4. SampleInv'
    BY <1>2, LabSteps, SampleStep, SampleFrame, Zenon DEF LabInv
  <2> QED
    BY <2>1, <2>2, <2>3, <2>4, Zenon DEF LabInv
<1> QED
  BY <1>1, <1>2

\* The draw keeps its invariant when the number of the parent is no child's.
LEMMA BatonInductive ==
  ASSUME Players + 1 < B!Host
  PROVE  /\ LabInit => BatonInv
         /\ BatonInv /\ [LabNext]_labVars => BatonInv'
<1>1. LabInit => BatonInv
  BY BatonInit, Zenon DEF LabInit
<1>2. ASSUME BatonInv, [LabNext]_labVars
      PROVE  BatonInv'
  BY <1>2, LabSteps, BatonStep, BatonFrame, Zenon
<1> QED
  BY <1>1, <1>2

\* A semaphore at 0 has one process between its sem_timedwait and its post, or was lost by
\* one that exited without a post (examp.c:193, 216, 218).
THEOREM SemaphoresAreHeld == LabSpec => []SemHeldOrLost
<1>1. LabInv => SemHeldOrLost
  BY SemFacts DEF LabInv, IntegralInv
<1> QED
  BY <1>1, LabInductive, PTL DEF LabSpec

\* When examp.c prints the result, every process that joined has reported all its batches
\* and left, as long as nobody has entered with a semaphore that was unlinked while it
\* waited (examp.c:230-260).
THEOREM ResultsAreComplete == LabSpec => []ResultIsComplete
<1>1. LabInv => ResultIsComplete
  BY ResultFacts DEF LabInv
<1> QED
  BY <1>1, LabInductive, PTL DEF LabSpec

\* The points, the fields and the samples are added once (secondexamp.c:138-148,
\* client.c:56-92, prog1.c:41-53), however many processes take part.
THEOREM OthersAddOnce == LabSpec => [](M!FinalIsComplete /\ G!FieldsScoredOnce /\ F!MeanOfAll)
<1>1. LabInv => M!FinalIsComplete /\ G!FieldsScoredOnce /\ F!MeanOfAll
  BY PointFacts, GameScores, SampleFacts DEF LabInv
<1> QED
  BY <1>1, LabInductive, PTL DEF LabSpec

\* With the numbers of a round (Example/task.c:29-56), when there are so few children that
\* none is given the baton 999, which task.c:40, 65-66 takes for the parent's.
THEOREM WorkIsAddedOnce ==
  ASSUME Players + 1 < B!Host
  PROVE  LabSpec => []SharedOnce
<1>1. LabInv /\ BatonInv => SharedOnce
  BY PointFacts, GameScores, SampleFacts, BatonShows DEF LabInv, SharedOnce
<1>2. /\ LabInit => BatonInv
      /\ BatonInv /\ [LabNext]_labVars => BatonInv'
  BY BatonInductive
<1> QED
  BY <1>1, <1>2, LabInductive, PTL DEF LabSpec
=============================================================================
