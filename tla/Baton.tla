-------------------------------- MODULE Baton --------------------------------
(***************************************************************************)
(* Lab - 7/Example/task.c: children draw numbers in turns; the one whose   *)
(* position is in the first cell of the shared memory goes, the parent     *)
(* when it is 999.  The memory has the name "/game" and keeps what a run   *)
(* that did not end has left there.                                        *)
(*                                                                         *)
(* An operator named Faulty... is the definition that follows it with a    *)
(* plausible mistake in it; no specification uses one.                     *)
(***************************************************************************)
EXTENDS Naturals

CONSTANTS Players, Rounds \* N and M

VARIABLES baton, slots,   \* shared_memory[0], and the round of the number in each other cell
          left,           \* the baton found at the start
          play, played,   \* of a child: its place, the rounds it has done
          host, round, shown \* of the parent: its place, its round, the numbers shown in it

Position == 1..Players
Host == 999

TypeOK ==
  /\ {baton, left} \subseteq (0..Players + 1) \cup {Host} /\ slots \in [Position -> 0..Rounds]
  /\ play \in [Position -> {"turn", "draw", "pass", "last", "end"}] /\ played \in [Position -> 0..Rounds]
  /\ host \in {"round", "wait", "end"} /\ round \in 0..Rounds /\ shown \in 0..Players

Init ==
  /\ baton \in (0..Players + 1) \cup {Host} /\ left = baton /\ slots = [i \in Position |-> 0]
  /\ play = [i \in Position |-> "turn"] /\ played = [i \in Position |-> 0]
  /\ host = "round" /\ round = 0 /\ shown = 0

-----------------------------------------------------------------------------
PlayGoes(i, from, to) ==
  play[i] = from /\ play' = [play EXCEPT ![i] = to] /\ UNCHANGED <<left, host, round, shown>>

\* A child waits for its position, ...
Turn(i) == baton = i /\ PlayGoes(i, "turn", "draw") /\ UNCHANGED <<baton, slots, played>>

\* ... draws its number, ...
Draw(i) ==
  /\ PlayGoes(i, "draw", "pass") /\ slots' = [slots EXCEPT ![i] = played[i] + 1]
  /\ UNCHANGED <<baton, played>>

FinishRound(i, from) ==
  /\ PlayGoes(i, from, IF played[i] + 1 = Rounds THEN "end" ELSE "turn")
  /\ played' = [played EXCEPT ![i] = @ + 1] /\ UNCHANGED slots

FaultyPass(i) == baton' = i + 1 /\ FinishRound(i, "pass")

\* ... and passes the baton: the last one to nobody, and then to the parent.
Pass(i) ==
  /\ baton' = i + 1
  /\ IF i = Players THEN PlayGoes(i, "pass", "last") /\ UNCHANGED <<slots, played>>
     ELSE FinishRound(i, "pass")

PassToHost(i) == baton' = Host /\ FinishRound(i, "last")

PlayStep(i) == Turn(i) \/ Draw(i) \/ Pass(i) \/ PassToHost(i)

-----------------------------------------------------------------------------
HostGoes(from, to) == host = from /\ host' = to /\ UNCHANGED <<left, slots, play, played>>

\* A round begins, or all are over: the parent does not wait for its children.
NewRound ==
  \/ /\ round < Rounds /\ HostGoes("round", "wait")
     /\ round' = round + 1 /\ shown' = 0 /\ baton' = 1
  \/ round = Rounds /\ HostGoes("round", "end") /\ UNCHANGED <<round, shown, baton>>

\* The parent looks at the baton before each number that it shows.
Show ==
  /\ baton = Host /\ HostGoes("wait", IF shown + 1 = Players THEN "round" ELSE "wait")
  /\ shown' = shown + 1 /\ UNCHANGED <<round, baton>>

HostStep == NewRound \/ Show

Next == HostStep \/ \E i \in Position : PlayStep(i)

-----------------------------------------------------------------------------
(* Properties *)

\* The number shown for a child in a round is the one it drew in that round (task.c:29-56),
\* unless the baton of a run that did not end let a child go before the parent did.
NumbersOfRound ==
  left \notin Position /\ baton = Host /\ host = "wait" => \A i \in Position : slots[i] = round

\* All the rounds are played, with that exception.
RoundsEnd == left \notin Position => host = "end" /\ \A i \in Position : play[i] = "end"
=============================================================================
