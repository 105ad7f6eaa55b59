-------------------------- MODULE SharedMemoryLabs --------------------------
(***************************************************************************)
(* The programs of Lab - 7, which share memory between processes: the      *)
(* integration of SharedIntegral, the points of secondexamp.c, the board   *)
(* game and the samples of the tutorial, and the draw in turns of Example. *)
(* A behaviour runs one of them.                                           *)
(***************************************************************************)
EXTENDS SharedIntegral

CONSTANTS Starts, Turns, MaxKills, \* of MonteCarlo
          Clients, Fields,          \* of BoardGame
          Players, Rounds,          \* of Baton
          Samples                   \* of ForkJoin

ASSUME MemoryAssumption ==
  /\ {Starts, Turns, Fields, Players, Rounds, Samples} \subseteq Nat \ {0} /\ MaxKills \in Nat
  /\ Clients \cap {"nobody", "server"} = {} \* whoever else may have the mutex of the board

VARIABLES lab,
          at, turn, semOf, memOf, semaphores, memories, semFile, memFile, killed,
          srv, named, sized, numbered, filled, board, kind, holder, early, interrupted, running,
          cl, knows, aim, won,
          baton, slots, left, play, played, host, round, shown,
          maker, forked, sampler, cells, lines, summed

pointVars == <<at, turn, semOf, memOf, semaphores, memories, semFile, memFile, killed>>
gameVars == <<srv, named, sized, numbered, filled, board, kind, holder, early, interrupted, running,
              cl, knows, aim, won>>
batonVars == <<baton, slots, left, play, played, host, round, shown>>
sampleVars == <<maker, forked, sampler, cells, lines, summed>>
labVars == <<lab, vars, pointVars, gameVars, batonVars, sampleVars>>

M == INSTANCE MonteCarlo
G == INSTANCE BoardGame
B == INSTANCE Baton
F == INSTANCE ForkJoin

\* A program that does not run has one initial state.
LabInit ==
  /\ lab \in {"integral", "points", "game", "baton", "samples"}
  /\ Init /\ (lab = "integral" \/ \A p, q \in Procs : range[p] = range[q] /\ \A r \in Ranges : range[p] <= r)
  /\ B!Init /\ (lab = "baton" \/ left = 0)
  /\ M!Init /\ G!Init /\ F!Init

OnlyIntegral == lab = "integral" /\ UNCHANGED <<lab, pointVars, gameVars, batonVars, sampleVars>>
OnlyPoints == lab = "points" /\ UNCHANGED <<lab, vars, gameVars, batonVars, sampleVars>>
OnlyGame == lab = "game" /\ UNCHANGED <<lab, vars, pointVars, batonVars, sampleVars>>
OnlyBaton == lab = "baton" /\ UNCHANGED <<lab, vars, pointVars, gameVars, sampleVars>>
OnlySamples == lab = "samples" /\ UNCHANGED <<lab, vars, pointVars, gameVars, batonVars>>

Integrate(p) == OnlyIntegral /\ Step(p)
CountPoints(p) == OnlyPoints /\ M!Sound /\ M!Runner(p)
KillRunner(p) == OnlyPoints /\ M!Sound /\ M!Kill(p)
Serve == OnlyGame /\ G!RunServer
HandleInterrupt == OnlyGame /\ G!Sighandling
InterruptServer == OnlyGame /\ G!Interrupt
Play(c) == OnlyGame /\ G!RunClient(c)
KillClient(c) == OnlyGame /\ G!Kill(c)
Parent == (OnlyBaton /\ B!HostStep) \/ (OnlySamples /\ F!ParentStep)
DrawInTurn(i) == OnlyBaton /\ B!PlayStep(i)
TakeSample(n) == OnlySamples /\ F!ChildWork(n)

LabNext ==
  \/ \E p \in Procs : Integrate(p)
  \/ \E p \in 1..Starts : CountPoints(p) \/ KillRunner(p)
  \/ Serve \/ HandleInterrupt \/ InterruptServer \/ Parent
  \/ \E c \in Clients : Play(c) \/ KillClient(c)
  \/ \E i \in 1..Players : DrawInTurn(i)
  \/ \E n \in 1..Samples : TakeSample(n)

\* A process runs until it blocks; who waits for a semaphore of examp.c for long times
\* out.  Nobody need be killed or interrupted.
LabSpec ==
  /\ LabInit /\ [][LabNext]_labVars
  /\ \A p \in Procs : WF_labVars(Integrate(p))
  /\ \A p \in 1..Starts : WF_labVars(CountPoints(p))
  /\ WF_labVars(Serve) /\ WF_labVars(HandleInterrupt) /\ WF_labVars(Parent)
  /\ \A c \in Clients : WF_labVars(Play(c))
  /\ \A i \in 1..Players : WF_labVars(DrawInTurn(i))
  /\ \A n \in 1..Samples : WF_labVars(TakeSample(n))

-----------------------------------------------------------------------------
(* Properties *)

\* What the processes of a lab add up counts the work of all of them, and each of it
\* once: the points of secondexamp.c, whoever is killed (secondexamp.c:138-148), the
\* fields of the game (client.c:56-92), the numbers of a round (Example/task.c:29-56) and
\* the samples of pi (prog1.c:41-53).
SharedOnce == M!FinalIsComplete /\ G!FieldsScoredOnce /\ B!NumbersOfRound /\ F!MeanOfAll

\* Every process ends, but for one that waits for a mutex used before it was made or
\* destroyed in use, and for the leftovers of a run that did not end.
EachEnds ==
  <>[](/\ lab = "integral" => \A p \in Procs : pc[p] \in Ended
       /\ lab = "points" => M!RunnersEnd
       /\ lab = "game" => G!GameEnds
       /\ lab = "baton" => B!RoundsEnd
       /\ lab = "samples" => F!SamplersEnd)
=============================================================================
