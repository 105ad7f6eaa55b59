--------------------------- MODULE ReadersWriters ---------------------------
(***************************************************************************)
(* Lecture Codes/03_synchro/09_reades_writers.c: a writer and readers that *)
(* share a buffer through two semaphores, the first reader claiming it for *)
(* all and the last one giving it back.  main starts two readers; here     *)
(* they are any finite set.                                                *)
(*                                                                         *)
(* An operator named Faulty... is the definition that follows it with a    *)
(* plausible mistake in it; no specification uses one.                     *)
(***************************************************************************)
EXTENDS Integers

CONSTANTS Readers,     \* the reader threads
          Iterations   \* ITERATIONS of every loop

VARIABLES w,               \* where the writer is
          written,         \* i of the writer's loop
          pc,              \* where each reader is
          i,               \* i of each reader's loop
          mtx, rw_mtx,     \* the values of the semaphores
          readers_count

vars == <<w, written, pc, i, mtx, rw_mtx, readers_count>>

TypeOK ==
  /\ w \in {"wait", "write", "done"} /\ written \in 0..Iterations
  /\ pc \in [Readers -> {"arrive", "count", "claim", "admit", "read", "uncount", "unlock", "done"}]
  /\ i \in [Readers -> 0..Iterations]
  /\ mtx \in {0, 1} /\ rw_mtx \in {0, 1}
  /\ readers_count \in Nat

Init ==
  /\ w = "wait" /\ written = 0
  /\ pc = [r \in Readers |-> "arrive"] /\ i = [r \in Readers |-> 0]
  /\ mtx = 1 /\ rw_mtx = 1 /\ readers_count = 0

-----------------------------------------------------------------------------
(* The writer *)

WWait ==
  /\ w = "wait" /\ rw_mtx > 0
  /\ w' = "write" /\ rw_mtx' = rw_mtx - 1
  /\ UNCHANGED <<written, pc, i, mtx, readers_count>>

WPost ==
  /\ w = "write"
  /\ w' = IF written + 1 < Iterations THEN "wait" ELSE "done"
  /\ written' = written + 1 /\ rw_mtx' = rw_mtx + 1
  /\ UNCHANGED <<pc, i, mtx, readers_count>>

Writer == WWait \/ WPost

-----------------------------------------------------------------------------
(* The readers *)

Goes(r, from, to) == pc[r] = from /\ pc' = [pc EXCEPT ![r] = to] /\ UNCHANGED <<w, written>>

Arrive(r) ==
  /\ Goes(r, "arrive", "count")
  /\ mtx > 0 /\ mtx' = mtx - 1
  /\ UNCHANGED <<i, rw_mtx, readers_count>>

FaultyCount(r) ==
  /\ Goes(r, "count", IF readers_count = 1 THEN "claim" ELSE "admit")
  /\ readers_count' = readers_count + 1
  /\ UNCHANGED <<i, mtx, rw_mtx>>

\* Only the first reader goes on to wait for rw_mtx.
Count(r) ==
  /\ Goes(r, "count", IF readers_count + 1 = 1 THEN "claim" ELSE "admit")
  /\ readers_count' = readers_count + 1
  /\ UNCHANGED <<i, mtx, rw_mtx>>

\* The first reader keeps mtx while it waits: those after it wait for mtx.
Claim(r) ==
  /\ Goes(r, "claim", "admit")
  /\ rw_mtx > 0 /\ rw_mtx' = rw_mtx - 1
  /\ UNCHANGED <<i, mtx, readers_count>>

Admit(r) ==
  /\ Goes(r, "admit", "read")
  /\ mtx' = mtx + 1
  /\ UNCHANGED <<i, rw_mtx, readers_count>>

FaultyLeave(r) == Goes(r, "read", "uncount") /\ UNCHANGED <<i, mtx, rw_mtx, readers_count>>

Leave(r) ==
  /\ Goes(r, "read", "uncount")
  /\ mtx > 0 /\ mtx' = mtx - 1
  /\ UNCHANGED <<i, rw_mtx, readers_count>>

FaultyUncount(r) ==
  /\ Goes(r, "uncount", "unlock")
  /\ readers_count' = readers_count - 1
  /\ rw_mtx' = IF readers_count = 0 THEN rw_mtx + 1 ELSE rw_mtx
  /\ UNCHANGED <<i, mtx>>

\* Under mtx nobody sees the count between its change and the post.
Uncount(r) ==
  /\ Goes(r, "uncount", "unlock")
  /\ readers_count' = readers_count - 1
  /\ rw_mtx' = IF readers_count - 1 = 0 THEN rw_mtx + 1 ELSE rw_mtx
  /\ UNCHANGED <<i, mtx>>

Unlock(r) ==
  /\ Goes(r, "unlock", IF i[r] + 1 < Iterations THEN "arrive" ELSE "done")
  /\ mtx' = mtx + 1 /\ i' = [i EXCEPT ![r] = @ + 1]
  /\ UNCHANGED <<rw_mtx, readers_count>>

Reader(r) ==
  Arrive(r) \/ Count(r) \/ Claim(r) \/ Admit(r) \/ Leave(r) \/ Uncount(r) \/ Unlock(r)

-----------------------------------------------------------------------------
Next == Writer \/ \E r \in Readers : Reader(r)

Spec == Init /\ [][Next]_vars

\* Every thread runs until it blocks.
FairSpec == Spec /\ WF_vars(Writer) /\ \A r \in Readers : WF_vars(Reader(r))

-----------------------------------------------------------------------------
(* Properties *)

\* Reader and writer loops end: the last reader gives the buffer back, although a
\* writer may have to wait until no reader is left.
AllReturn == <>(w = "done" /\ \A r \in Readers : pc[r] = "done")
=============================================================================
