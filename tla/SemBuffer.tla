------------------------------ MODULE SemBuffer ------------------------------
(***************************************************************************)
(* The bounded buffer guarded by three semaphores: Lecture Codes/          *)
(* 03_synchro/12_sem_in_shm.c, where the producer is the parent process    *)
(* and the consumer its child, and the same loops as two threads in        *)
(* 08_bounded_buffer.c.  In the former both processes destroy the          *)
(* semaphores of the shared mapping when their loop is over.               *)
(*                                                                         *)
(* An operator named Faulty... is the definition that follows it with a    *)
(* plausible mistake in it; no specification uses one.                     *)
(***************************************************************************)
EXTENDS Ring, Sequences

VARIABLES p,          \* where the producer is in its loop, or in main after it
          c,          \* where the consumer is
          made,       \* i of the producer's loop
          taken,      \* i of the consumer's loop
          items, in, out,
          item,       \* the consumer's local variable
          sem,        \* the values of the semaphores mtx, empty and nonempty
          destroyed   \* sem_destroy has been called on them

vars == <<p, c, made, taken, items, in, out, item, sem, destroyed>>

Semaphores == {"mtx", "empty", "nonempty"}

TypeOK ==
  /\ p \in {"start", "lock", "store", "unlock", "post", "join", "exit"}
  /\ c \in {"start", "lock", "load", "unlock", "post", "destroy", "exit"}
  /\ made \in 0..Iterations /\ taken \in 0..Iterations
  /\ items \in [Cells -> Int] /\ in \in Cells /\ out \in Cells /\ item \in Int
  /\ sem \in [Semaphores -> Nat]
  /\ destroyed \in BOOLEAN

\* main: the mapping is zeroed, the semaphores are initialised, then fork.
Init ==
  /\ p = "start" /\ c = "start"
  /\ made = 0 /\ taken = 0
  /\ items = [k \in Cells |-> 0] /\ in = 0 /\ out = 0 /\ item = 0
  /\ sem = [s \in Semaphores |->
              IF s = "mtx" THEN 1 ELSE IF s = "empty" THEN BufferSize ELSE 0]
  /\ destroyed = FALSE

Wait(s) == sem[s] > 0 /\ sem' = [sem EXCEPT ![s] = @ - 1]
Post(s) == sem' = [sem EXCEPT ![s] = @ + 1]

-----------------------------------------------------------------------------
(* The producer, and the parent *)

PGoes(from, to) ==
  p = from /\ p' = to /\ UNCHANGED <<c, taken, out, item>>

FaultyPWait ==
  PGoes("start", "lock") /\ UNCHANGED <<made, items, in, sem, destroyed>>

PWait == PGoes("start", "lock") /\ Wait("empty") /\ UNCHANGED <<made, items, in, destroyed>>

PLock == PGoes("lock", "store") /\ Wait("mtx") /\ UNCHANGED <<made, items, in, destroyed>>

\* Only the producer uses "in": cell and index may change in one step.
PStore ==
  /\ PGoes("store", "unlock")
  /\ items' = [items EXCEPT ![in] = made] /\ in' = After(in)
  /\ UNCHANGED <<made, sem, destroyed>>

PUnlock == PGoes("unlock", "post") /\ Post("mtx") /\ UNCHANGED <<made, items, in, destroyed>>

\* The last post of an iteration and ++i; after the loop the parent waits.
PPost ==
  /\ PGoes("post", IF made + 1 < Iterations THEN "start" ELSE "join")
  /\ Post("nonempty") /\ made' = made + 1
  /\ UNCHANGED <<items, in, destroyed>>

\* wait() has returned the child; the parent destroys the semaphores and returns.
PJoin ==
  /\ c = "exit"
  /\ PGoes("join", "exit")
  /\ destroyed' = TRUE
  /\ UNCHANGED <<made, items, in, sem>>

-----------------------------------------------------------------------------
(* The consumer, and the child *)

CGoes(from, to) ==
  c = from /\ c' = to /\ UNCHANGED <<p, made, items, in>>

CWait == CGoes("start", "lock") /\ Wait("nonempty") /\ UNCHANGED <<taken, out, item, destroyed>>

CLock == CGoes("lock", "load") /\ Wait("mtx") /\ UNCHANGED <<taken, out, item, destroyed>>

CLoad ==
  /\ CGoes("load", "unlock")
  /\ item' = items[out] /\ out' = After(out)
  /\ UNCHANGED <<taken, sem, destroyed>>

\* Before sem_post(&mtx), item is compared with i and a message printed.
CUnlock == CGoes("unlock", "post") /\ Post("mtx") /\ UNCHANGED <<taken, out, item, destroyed>>

FaultyCPost ==
  /\ CGoes("post", IF taken + 1 < Iterations THEN "start" ELSE "destroy")
  /\ taken' = taken + 1
  /\ UNCHANGED <<out, item, sem, destroyed>>

FaultyEndOfLoop == IF taken + 2 < Iterations THEN "start" ELSE "destroy"

\* Where the child goes after an iteration.
EndOfLoop == IF taken + 1 < Iterations THEN "start" ELSE "destroy"

CPost ==
  /\ CGoes("post", EndOfLoop)
  /\ Post("empty") /\ taken' = taken + 1
  /\ UNCHANGED <<out, item, destroyed>>

\* The child leaves the switch too: it destroys the semaphores and returns.
CDestroy ==
  /\ CGoes("destroy", "exit")
  /\ destroyed' = TRUE
  /\ UNCHANGED <<taken, out, item, sem>>

-----------------------------------------------------------------------------
Producer == PWait \/ PLock \/ PStore \/ PUnlock \/ PPost \/ PJoin
Consumer == CWait \/ CLock \/ CLoad \/ CUnlock \/ CPost \/ CDestroy

Next == Producer \/ Consumer

Spec == Init /\ [][Next]_vars

-----------------------------------------------------------------------------
(* Properties *)

\* "item corruption!" (12_sem_in_shm.c:48-50, 08_bounded_buffer.c:49-51) is
\* never printed: the item loaded is the one that the producer numbered alike.
NoItemCorruption == c = "unlock" => item = taken

\* No semaphore is used once the child has destroyed the three of them
\* (12_sem_in_shm.c:115-117): by then the producer has made its last post.
DestroyedUnused == destroyed => p \in {"join", "exit"} /\ c = "exit"

\* The counts of items stored by the producer and loaded by the consumer.
Stored == made + (IF p \in {"unlock", "post"} THEN 1 ELSE 0)
Loaded == taken + (IF c \in {"unlock", "post"} THEN 1 ELSE 0)

\* What the cells in use hold.
Content == RingSeq(items, out, Stored - Loaded)

\* The ring of cells implements a FIFO channel of BufferSize items: what the
\* cells in use hold, read from out on, is the sequence of items stored and not
\* yet loaded (12_sem_in_shm.c:31-33, 45-46).
Channel == INSTANCE FifoChannel WITH Capacity <- BufferSize, queue <- Content, next <- Stored
ImplementsChannel == Channel!Spec

\* Every item is consumed and both processes return.
BothReturn == <>(p = "exit" /\ c = "exit" /\ taken = Iterations)
=============================================================================
