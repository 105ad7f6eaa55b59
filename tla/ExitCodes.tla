------------------------------ MODULE ExitCodes ------------------------------
(***************************************************************************)
(* Lab - 2/Last Year/task.c: children send SIGUSR1 to the whole group,     *)
(* each k times, count those that they get and exit with 10 * count + k,   *)
(* of which the parent gets 8 bits and makes the two numbers again.        *)
(*                                                                         *)
(* An operator named Faulty... is the definition that follows it with a    *)
(* plausible mistake in it; no specification uses one.                     *)
(***************************************************************************)
EXTENDS Naturals, FiniteSets

CONSTANTS Group,     \* the children
          Draws      \* the numbers k they draw, of 0..10 in the code

VARIABLES member, k,        \* where each child is, its number
          kills, sig_count, \* the signals it has sent and counted
          hit,              \* the children with a signal pending
          code              \* the exit status that the parent has of each, 256 for none

TypeOK ==
  /\ member \in [Group -> {"start", "kill", "own", "zombie", "reaped"}] /\ k \in [Group -> Draws]
  /\ \A c \in Group : kills[c] \in 0..k[c] /\ sig_count[c] \in Nat
  /\ hit \subseteq Group /\ code \in [Group -> 0..256]

Init ==
  /\ member = [c \in Group |-> "start"] /\ k \in [Group -> Draws]
  /\ kills = [c \in Group |-> 0] /\ sig_count = [c \in Group |-> 0] /\ hit = {}
  /\ code = [c \in Group |-> 256]

-----------------------------------------------------------------------------
KidGoes(c, from, to) == member[c] = from /\ member' = [member EXCEPT ![c] = to]

\* Until then it ignores the signal, as its parent does.
SetHandler(c) == KidGoes(c, "start", "kill") /\ UNCHANGED <<k, kills, sig_count, hit, code>>

\* kill(0, SIGUSR1): one more for who has none pending.
Kill(c) ==
  /\ KidGoes(c, "kill", "own") /\ kills[c] < k[c] /\ kills' = [kills EXCEPT ![c] = @ + 1]
  /\ hit' = {d \in Group : member[d] \in {"kill", "own"}} \cup hit
  /\ UNCHANGED <<k, sig_count, code>>

Handler(c) ==
  /\ c \in hit /\ member[c] \in {"kill", "own"} /\ hit' = hit \ {c}
  /\ sig_count' = [sig_count EXCEPT ![c] = @ + 1] /\ UNCHANGED <<member, k, kills, code>>

FaultyReturn(c) ==
  /\ KidGoes(c, "own", "kill") /\ UNCHANGED <<k, kills, sig_count, hit, code>>

\* kill returns when the signal to itself has been handled.
Return(c) ==
  /\ c \notin hit /\ KidGoes(c, "own", "kill") /\ UNCHANGED <<k, kills, sig_count, hit, code>>

Exit(c) ==
  /\ kills[c] = k[c] /\ KidGoes(c, "kill", "zombie") /\ UNCHANGED <<k, kills, sig_count, hit, code>>

Reap(c) ==
  /\ KidGoes(c, "zombie", "reaped")
  /\ code' = [code EXCEPT ![c] = (sig_count[c] * 10 + k[c]) % 256]
  /\ UNCHANGED <<k, kills, sig_count, hit>>

KidStep(c) == SetHandler(c) \/ Kill(c) \/ Handler(c) \/ Return(c) \/ Exit(c)

Next == \E c \in Group : KidStep(c) \/ Reap(c)

-----------------------------------------------------------------------------
(* Properties *)

\* All the signals that have been sent, at most 10 by each.
Sent == {j \in Group \X (1..10) : j[2] <= kills[j[1]]}

\* As long as the count fits in the status, what the parent makes of it (task.c:113-116) is
\* the number that the child drew and the signals it counted; but of the 10 that rand() % 11
\* may give (task.c:48) it makes no signal sent and one counted too many.  The child has
\* counted its own signals at least, and at most those of all.
CodesDecode ==
  \A c \in Group : code[c] # 256 /\ sig_count[c] < 25 =>
    /\ code[c] % 10 = (IF k[c] = 10 THEN 0 ELSE k[c])
    /\ code[c] \div 10 = (IF k[c] = 10 THEN sig_count[c] + 1 ELSE sig_count[c])
    /\ sig_count[c] >= k[c] /\ sig_count[c] <= Cardinality(Sent)

\* All children end, and the parent has the status of each.
GroupEnds == \A c \in Group : code[c] # 256
=============================================================================
