------------------------------ MODULE Roulette ------------------------------
(***************************************************************************)
(* Lab - 5/Example Tasks/example.c: players bet an amount and a number     *)
(* over a pipe each, the croupier reads the bets of all seats in turn and  *)
(* sends the lucky number to each.  A player that saves its money or is    *)
(* broke exits; the croupier notices the end of its pipe.                  *)
(***************************************************************************)
EXTENDS Naturals, FiniteSets

CONSTANTS Seats,     \* N
          MaxGames   \* a bound: a player leaves after so many games at the latest

VARIABLES croupier, seat, open,   \* where the croupier is, at which seat; the seats with pipes
          player, games,          \* where each player is, the games it has played
          bets, numbers           \* the integers in the pipe from and to each player

Table == 1..Seats
PlayerEnds == {"gone", "killed"}

TypeOK ==
  /\ croupier \in {"fork", "amount", "number", "draw", "lucky", "wait", "ended", "killed"}
  /\ seat \in 0..Seats + 1 /\ open \subseteq Table
  /\ player \in [Table -> {"none", "close", "decide", "amount", "number", "await"} \cup PlayerEnds]
  /\ games \in [Table -> 0..MaxGames] /\ bets \in [Table -> 0..2] /\ numbers \in [Table -> 0..1]

Init ==
  /\ croupier = "fork" /\ seat = Seats /\ open = {}
  /\ player = [p \in Table |-> "none"] /\ games = [p \in Table |-> 0]
  /\ bets = [p \in Table |-> 0] /\ numbers = [p \in Table |-> 0]

-----------------------------------------------------------------------------
(* The croupier *)

pipes == <<bets, numbers>>

\* ERR kills the process group.
AllKilled ==
  /\ croupier' = "killed"
  /\ player' = [p \in Table |-> IF player[p] \in {"none", "gone"} THEN player[p] ELSE "killed"]

Fork ==
  /\ croupier = "fork" /\ player' = [player EXCEPT ![seat] = "close"] /\ open' = open \cup {seat}
  /\ IF seat > 1 THEN seat' = seat - 1 /\ UNCHANGED croupier ELSE seat' = 1 /\ croupier' = "amount"
  /\ UNCHANGED <<games, pipes>>

\* The loop over the seats goes on, or is over.
NextSeat(at, over) ==
  IF seat < Seats THEN seat' = seat + 1 /\ croupier' = at ELSE seat' = 1 /\ croupier' = over

ReadAmount ==
  /\ croupier = "amount"
  /\ \/ seat \notin open /\ NextSeat("amount", "draw") /\ UNCHANGED <<open, bets>>
     \/ /\ seat \in open /\ bets[seat] > 0 /\ bets' = [bets EXCEPT ![seat] = @ - 1]
        /\ croupier' = "number" /\ UNCHANGED <<seat, open>>
     \/ /\ seat \in open /\ bets[seat] = 0 /\ player[seat] = "gone"
        /\ open' = open \ {seat} /\ NextSeat("amount", "draw") /\ UNCHANGED bets
  /\ UNCHANGED <<player, games, numbers>>

ReadNumber ==
  /\ croupier = "number" /\ bets[seat] > 0 /\ bets' = [bets EXCEPT ![seat] = @ - 1]
  /\ NextSeat("amount", "draw") /\ UNCHANGED <<open, player, games, numbers>>

Draw ==
  /\ croupier = "draw" /\ croupier' = IF open = {} THEN "wait" ELSE "lucky"
  /\ UNCHANGED <<seat, open, player, games, pipes>>

SendLucky ==
  /\ croupier = "lucky" /\ NextSeat("lucky", "amount")
  /\ numbers' = IF seat \in open THEN [numbers EXCEPT ![seat] = @ + 1] ELSE numbers
  /\ UNCHANGED <<open, player, games, bets>>

WaitPlayers ==
  /\ croupier = "wait" /\ (\A p \in Table : player[p] \in PlayerEnds) /\ croupier' = "ended"
  /\ UNCHANGED <<seat, open, player, games, pipes>>

Croupier == Fork \/ ReadAmount \/ ReadNumber \/ Draw \/ SendLucky \/ WaitPlayers

-----------------------------------------------------------------------------
(* A player *)

PlayerGoes(p, from, to) ==
  player[p] = from /\ player' = [player EXCEPT ![p] = to] /\ UNCHANGED <<croupier, seat, open>>

\* The pipes of the players before it: N counts two descriptors at once, so some stay
\* open and the last close may be of what lies after the array, and fail.
ClosePipes(p) ==
  /\ \/ PlayerGoes(p, "close", "decide")
     \/ p < Seats /\ player[p] = "close" /\ AllKilled /\ UNCHANGED <<seat, open>>
  /\ UNCHANGED <<games, pipes>>

\* It saves its money, or bets.
Decide(p) ==
  /\ PlayerGoes(p, "decide", "gone") \/ (games[p] < MaxGames /\ PlayerGoes(p, "decide", "amount"))
  /\ UNCHANGED <<games, pipes>>

Bet(p) ==
  /\ PlayerGoes(p, "amount", "number") \/ PlayerGoes(p, "number", "await")
  /\ bets' = [bets EXCEPT ![p] = @ + 1] /\ UNCHANGED <<games, numbers>>

\* It wins, or loses and may be broke.
ReadLucky(p) ==
  /\ numbers[p] > 0 /\ numbers' = [numbers EXCEPT ![p] = @ - 1]
  /\ PlayerGoes(p, "await", "decide") \/ PlayerGoes(p, "await", "gone")
  /\ games' = [games EXCEPT ![p] = @ + 1] /\ UNCHANGED bets

Player(p) == ClosePipes(p) \/ Decide(p) \/ Bet(p) \/ ReadLucky(p)

Next == Croupier \/ \E p \in Table : Player(p)

-----------------------------------------------------------------------------
(* Properties *)

\* The lucky number goes to players that have bet in this game and wait for it, and that
\* have nothing else in their pipes: never to one that has left, which would be SIGPIPE
\* (example.c:75-101, 113-160).
LuckyForBets ==
  croupier = "lucky" => \A p \in open : p >= seat =>
    player[p] = "await" /\ bets[p] = 0 /\ numbers[p] = 0

\* The game ends when its players leave, or with all of them (example.c:146-147).
RouletteEnds == croupier \in {"ended", "killed"} /\ \A p \in Table : player[p] \in PlayerEnds \cup {"none"}
=============================================================================
