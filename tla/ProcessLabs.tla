---------------------------- MODULE ProcessLabs ----------------------------
(***************************************************************************)
(* Programs of processes that talk by pipes, FIFOs and signals: the        *)
(* grading, the roulette and the frames of Lab - 5, the signals of Lab - 2 *)
(* and the FIFOs of the lectures.  A behaviour runs one of them.           *)
(***************************************************************************)
EXTENDS Naturals, Sequences, FiniteSets

CONSTANTS Students, Stages, Enough, \* of Grading
          Seats, MaxGames,          \* of Roulette
          Kids, MaxInterrupts,      \* of Frames
          Senders, Limit,           \* of SignalCount
          Blocks, Size,             \* of BlockCopy
          Group, Draws              \* of ExitCodes

ASSUME ProcessAssumption ==
  /\ {Students, Stages, Enough, Seats, Senders, Limit, Blocks, Size} \subseteq Nat \ {0}
  /\ {MaxGames, MaxInterrupts} \subseteq Nat
  /\ Kids # {} /\ Draws \subseteq 0..10 /\ Draws # {} /\ IsFiniteSet(Group)

VARIABLES lab,
          tea, asked, done, alarmed, stu, stage, desk, letters,
          croupier, seat, open, player, games, bets, numbers,
          par, last_signal, fds, chosen, header, kid, mail, R, pending, sent,
          counting, forked, sigCount, usr1, sender, usr2,
          copying, block, got, put, file, child, received,
          member, k, kills, sig_count, hit, code,
          readerOrder, writerOrder, opening, opened, text, ended

gradingVars == <<tea, asked, done, alarmed, stu, stage, desk, letters>>
rouletteVars == <<croupier, seat, open, player, games, bets, numbers>>
frameVars == <<par, last_signal, fds, chosen, header, kid, mail, R, pending, sent>>
countVars == <<counting, forked, sigCount, usr1, sender, usr2>>
copyVars == <<copying, block, got, put, file, child, received>>
codeVars == <<member, k, kills, sig_count, hit, code>>
fifoVars == <<readerOrder, writerOrder, opening, opened, text, ended>>
pipeVars == <<gradingVars, rouletteVars, frameVars, fifoVars>>
signalVars == <<countVars, copyVars, codeVars>>
labVars == <<lab, pipeVars, signalVars>>

G == INSTANCE Grading
C == INSTANCE Roulette
F == INSTANCE Frames
S == INSTANCE SignalCount
B == INSTANCE BlockCopy
E == INSTANCE ExitCodes
O == INSTANCE FifoOrder

\* A program that does not run has one initial state.
Init ==
  /\ lab \in {"grading", "roulette", "frames", "count", "copy", "codes", "fifos"}
  /\ G!Init /\ C!Init /\ F!Init /\ S!Init /\ B!Init
  /\ E!Init /\ (lab = "codes" \/ \A c \in Group : \A d \in Draws : k[c] <= d)
  /\ O!Init /\ (lab = "fifos" \/ readerOrder = <<1>>)

OnlyGrading == lab = "grading" /\ UNCHANGED <<lab, rouletteVars, frameVars, fifoVars, signalVars>>
OnlyRoulette == lab = "roulette" /\ UNCHANGED <<lab, gradingVars, frameVars, fifoVars, signalVars>>
OnlyFrames == lab = "frames" /\ UNCHANGED <<lab, gradingVars, rouletteVars, fifoVars, signalVars>>
OnlyCount == lab = "count" /\ UNCHANGED <<lab, pipeVars, copyVars, codeVars>>
OnlyCopy == lab = "copy" /\ UNCHANGED <<lab, pipeVars, countVars, codeVars>>
OnlyCodes == lab = "codes" /\ UNCHANGED <<lab, pipeVars, countVars, copyVars>>
OnlyFifos == lab = "fifos" /\ UNCHANGED <<lab, gradingVars, rouletteVars, frameVars, signalVars>>

\* The parent process of each program ...
Parent ==
  \/ OnlyGrading /\ G!Teacher
  \/ OnlyRoulette /\ C!Croupier
  \/ OnlyFrames /\ F!ParentStep
  \/ OnlyCount /\ S!ParentStep
  \/ OnlyCopy /\ B!Copier
  \/ OnlyFifos /\ O!Side("writer")

\* ... its children ...
Child(i) ==
  \/ OnlyGrading /\ i \in 1..Students /\ G!Student(i)
  \/ OnlyRoulette /\ i \in 1..Seats /\ C!Player(i)
  \/ OnlyCount /\ i \in 1..Senders /\ S!KidStep(i)
  \/ OnlyCopy /\ i = 1 /\ B!Signaller
  \/ OnlyFifos /\ i = 1 /\ O!Side("reader")

Kid(c) == OnlyFrames /\ F!Kid(c)
Member(c) == OnlyCodes /\ E!KidStep(c)
ReapMember(c) == OnlyCodes /\ E!Reap(c)

\* ... and the alarm and the user.
Alarm == OnlyGrading /\ G!Alarm
Interrupt == OnlyFrames /\ F!Interrupt

Children == 1..Students + Seats + Senders

Next ==
  \/ Parent \/ Alarm \/ Interrupt
  \/ \E i \in Children : Child(i)
  \/ \E c \in Kids : Kid(c)
  \/ \E c \in Group : Member(c) \/ ReapMember(c)

\* A process runs until it blocks; the user need not interrupt, and the teacher may be
\* ready before the alarm.
Spec ==
  /\ Init /\ [][Next]_labVars
  /\ WF_labVars(Parent)
  /\ \A i \in Children : WF_labVars(Child(i))
  /\ \A c \in Kids : WF_labVars(Kid(c))
  /\ \A c \in Group : WF_labVars(Member(c)) /\ WF_labVars(ReapMember(c))

-----------------------------------------------------------------------------
(* Properties *)

\* The type invariants of the seven models.
TypesOK ==
  /\ G!TypeOK /\ C!TypeOK /\ F!TypeOK /\ S!TypeOK
  /\ B!TypeOK /\ E!TypeOK /\ O!TypeOK

\* Answers and frames reach the one they are for: the grades of a student agree with what
\* the teacher has counted (ops-lab.c:155-166), the lucky number finds a bet
\* (example.c:153-160), a frame follows its header (prog22a.c:112-121).
PipesInStep == G!GradesAgree /\ C!LuckyForBets /\ F!FramesWhole

\* Signals that merge or interrupt lose nothing that counts: the order of the ends
\* (Task.c:51-58, 104-121), the copied blocks (prog16b.c:97-105), the exit codes
\* (Last Year/task.c:113-116).
SignalsCounted == S!EndsInOrder /\ B!CopyIsWhole /\ E!CodesDecode

\* Every program ends, or comes to rest where its code leaves it.
EachRests ==
  <>[](/\ lab = "grading" => G!GradingRests
       /\ lab = "roulette" => C!RouletteEnds
       /\ lab = "frames" => F!FramesRest
       /\ lab = "count" => S!SendersEnd
       /\ lab = "copy" => B!CopyEnds
       /\ lab = "codes" => E!GroupEnds
       /\ lab = "fifos" => O!MeetOrWait)
=============================================================================
