---------------------------- MODULE Philosophers ----------------------------
(***************************************************************************)
(* Lecture Codes/03_synchro/16_dining_philosophers.c: each philosopher     *)
(* waits for the chopstick on the left, then for the one on the right.     *)
(* Both calls of nanosleep ask for more nanoseconds than a second has and  *)
(* return at once.                                                         *)
(*                                                                         *)
(* An operator named Faulty... is the definition that follows it with a    *)
(* plausible mistake in it; no specification uses one.                     *)
(***************************************************************************)
EXTENDS Integers

CONSTANTS N,      \* philosophers
          Meals   \* ITERATIONS, the meals of each

\* With a single philosopher both chopsticks would be the same one.
ASSUME TableAssumption == N \in Nat \ {0, 1} /\ Meals \in Nat \ {0}

Philosophers == 0..N - 1

\* The chopsticks that main gives philosopher k.
Left(k) == k
Right(k) == (k + 1) % N

\* Two philosophers who share a chopstick.
Neighbours(k, l) == k # l /\ (Left(l) = Right(k) \/ Left(k) = Right(l))

VARIABLES at,          \* where each philosopher is
          meals,       \* i of each loop
          chopsticks   \* the values of the semaphores

vars == <<at, meals, chopsticks>>

TypeOK ==
  /\ at \in [Philosophers -> {"left", "right", "eat", "post_left", "done"}]
  /\ meals \in [Philosophers -> 0..Meals]
  /\ chopsticks \in [Philosophers -> {0, 1}]

Init ==
  /\ at = [k \in Philosophers |-> "left"]
  /\ meals = [k \in Philosophers |-> 0]
  /\ chopsticks = [k \in Philosophers |-> 1]

-----------------------------------------------------------------------------
Goes(k, from, to) == at[k] = from /\ at' = [at EXCEPT ![k] = to]

WaitLeft(k) ==
  /\ Goes(k, "left", "right")
  /\ chopsticks[Left(k)] > 0
  /\ chopsticks' = [chopsticks EXCEPT ![Left(k)] = @ - 1]
  /\ UNCHANGED meals

FaultyWaitRight(k) ==
  /\ Goes(k, "right", "eat")
  /\ chopsticks' = [chopsticks EXCEPT ![Right(k)] = 0]
  /\ UNCHANGED meals

WaitRight(k) ==
  /\ Goes(k, "right", "eat")
  /\ chopsticks[Right(k)] > 0
  /\ chopsticks' = [chopsticks EXCEPT ![Right(k)] = @ - 1]
  /\ UNCHANGED meals

FaultyPostRight(k) == Goes(k, "eat", "post_left") /\ UNCHANGED <<meals, chopsticks>>

PostRight(k) ==
  /\ Goes(k, "eat", "post_left")
  /\ chopsticks' = [chopsticks EXCEPT ![Right(k)] = @ + 1]
  /\ UNCHANGED meals

PostLeft(k) ==
  /\ Goes(k, "post_left", IF meals[k] + 1 < Meals THEN "left" ELSE "done")
  /\ chopsticks' = [chopsticks EXCEPT ![Left(k)] = @ + 1]
  /\ meals' = [meals EXCEPT ![k] = @ + 1]

Step(k) == WaitLeft(k) \/ WaitRight(k) \/ PostRight(k) \/ PostLeft(k)

Next == \E k \in Philosophers : Step(k)

Spec == Init /\ [][Next]_vars

\* Every thread runs until it blocks.
FairSpec == Spec /\ \A k \in Philosophers : WF_vars(Step(k))

-----------------------------------------------------------------------------
(* Properties *)

\* Two philosophers who share a chopstick never eat at the same time
\* (16_dining_philosophers.c:21-30).
NeighboursApart ==
  \A k, l \in Philosophers : Neighbours(k, l) => ~ (at[k] = "eat" /\ at[l] = "eat")

\* Every philosopher holds the left chopstick and waits for the right one.
Circle == \A k \in Philosophers : at[k] = "right"

AllDone == \A k \in Philosophers : at[k] = "done"

\* The circle is the only way not to finish: main joins every thread
\* (16_dining_philosophers.c:67-69) unless all took the left chopstick at once.
DoneUnlessCircle == <>[](AllDone \/ Circle)

\* A philosopher who waits for a chopstick that is taken, or has left the table.
Blocked(k) ==
  \/ at[k] = "left" /\ chopsticks[Left(k)] = 0
  \/ at[k] = "right" /\ chopsticks[Right(k)] = 0
  \/ at[k] = "done"

\* A deadlock is the circle and nothing else: short of it some philosopher can go
\* on until the last one is done (16_dining_philosophers.c:21-22).
OnlyCircleIsStuck == (\A k \in Philosophers : Blocked(k)) => AllDone \/ Circle
=============================================================================
