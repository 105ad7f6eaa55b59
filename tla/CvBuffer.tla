------------------------------ MODULE CvBuffer ------------------------------
(***************************************************************************)
(* The bounded buffer as a monitor: Lecture Codes/03_synchro/15_cv.c.  One *)
(* mutex and two condition variables live in shared memory with the ring;  *)
(* the parent produces on "in" and waits on "empty", its child consumes on *)
(* "out" and waits on "nonempty".                                          *)
(*                                                                         *)
(* An operator named Faulty... is the definition that follows it with a    *)
(* plausible mistake in it; no specification uses one.                     *)
(***************************************************************************)
EXTENDS Ring

VARIABLES p,          \* where the producer is in its loop, or in main after it
          c,          \* where the consumer is; "asleep" is in pthread_cond_wait,
                      \* "post" before pthread_cond_signal
          made,       \* i of the producer's loop
          taken,      \* i of the consumer's loop
          items, in, out, size,
          item,       \* the consumer's local variable
          mtx         \* who holds the mutex: "p", "c" or "none"

vars == <<p, c, made, taken, items, in, out, size, item, mtx>>

TypeOK ==
  /\ p \in {"lock", "test", "asleep", "relock", "store", "post", "unlock", "join", "exit"}
  /\ c \in {"lock", "test", "asleep", "relock", "load", "post", "unlock", "exit"}
  /\ made \in 0..Iterations /\ taken \in 0..Iterations
  /\ items \in [Cells -> Int] /\ in \in Cells /\ out \in Cells
  /\ size \in 0..BufferSize /\ item \in Int
  /\ mtx \in {"p", "c", "none"}

\* main: the mapping is zeroed, mutex and condition variables are made, then fork.
Init ==
  /\ p = "lock" /\ c = "lock"
  /\ made = 0 /\ taken = 0
  /\ items = [k \in Cells |-> 0] /\ in = 0 /\ out = 0 /\ size = 0 /\ item = 0
  /\ mtx = "none"

Lock(who) == mtx = "none" /\ mtx' = who

-----------------------------------------------------------------------------
(* The producer, and the parent *)

PGoes(from, to) ==
  p = from /\ p' = to /\ UNCHANGED <<taken, out, item>>

PLock == PGoes("lock", "test") /\ Lock("p") /\ UNCHANGED <<c, made, items, in, size>>

\* pthread_cond_wait releases the mutex as it falls asleep.
PTest ==
  /\ \/ size >= BufferSize /\ PGoes("test", "asleep") /\ mtx' = "none"
     \/ size < BufferSize /\ PGoes("test", "store") /\ UNCHANGED mtx
  /\ UNCHANGED <<c, made, items, in, size>>

FaultyPRelock == PGoes("relock", "store") /\ Lock("p") /\ UNCHANGED <<c, made, items, in, size>>

\* pthread_cond_wait returns with the mutex; the while loop tests again.
PRelock == PGoes("relock", "test") /\ Lock("p") /\ UNCHANGED <<c, made, items, in, size>>

PStore ==
  /\ PGoes("store", "post")
  /\ items' = [items EXCEPT ![in] = made] /\ in' = After(in) /\ size' = size + 1
  /\ UNCHANGED <<c, made, mtx>>

\* Who sleeps on the condition variable of the signal wakes up.
Woken(q) == IF q = "asleep" THEN "relock" ELSE q

PSignal ==
  /\ PGoes("post", "unlock")
  /\ c' = Woken(c)
  /\ UNCHANGED <<made, items, in, size, mtx>>

\* The mutex is released, and ++i; after the loop the parent waits.
PUnlock ==
  /\ PGoes("unlock", IF made + 1 < Iterations THEN "lock" ELSE "join")
  /\ mtx' = "none" /\ made' = made + 1
  /\ UNCHANGED <<c, items, in, size>>

\* wait() has returned the child; mutex and condition variables are destroyed.
PJoin == c = "exit" /\ PGoes("join", "exit") /\ UNCHANGED <<c, made, items, in, size, mtx>>

-----------------------------------------------------------------------------
(* The consumer, and the child *)

CGoes(from, to) ==
  c = from /\ c' = to /\ UNCHANGED <<made, items, in>>

CLock == CGoes("lock", "test") /\ Lock("c") /\ UNCHANGED <<p, taken, out, size, item>>

CTest ==
  /\ \/ size = 0 /\ CGoes("test", "asleep") /\ mtx' = "none"
     \/ size # 0 /\ CGoes("test", "load") /\ UNCHANGED mtx
  /\ UNCHANGED <<p, taken, out, size, item>>

CRelock == CGoes("relock", "test") /\ Lock("c") /\ UNCHANGED <<p, taken, out, size, item>>

CLoad ==
  /\ CGoes("load", "post")
  /\ item' = items[out] /\ out' = After(out) /\ size' = size - 1
  /\ UNCHANGED <<p, taken, mtx>>

FaultyCSignal ==
  /\ CGoes("post", "unlock")
  /\ p' = IF size = 0 THEN Woken(p) ELSE p
  /\ UNCHANGED <<taken, out, size, item, mtx>>

CSignal ==
  /\ CGoes("post", "unlock")
  /\ p' = Woken(p)
  /\ UNCHANGED <<taken, out, size, item, mtx>>

CUnlock ==
  /\ CGoes("unlock", IF taken + 1 < Iterations THEN "lock" ELSE "exit")
  /\ mtx' = "none" /\ taken' = taken + 1
  /\ UNCHANGED <<p, out, size, item>>

-----------------------------------------------------------------------------
\* pthread_cond_wait may also return without any signal.
SpuriousWakeup ==
  \/ p = "asleep" /\ p' = "relock" /\ UNCHANGED <<c, made, taken, items, in, out, size, item, mtx>>
  \/ c = "asleep" /\ c' = "relock" /\ UNCHANGED <<p, made, taken, items, in, out, size, item, mtx>>

Producer == PLock \/ PTest \/ PRelock \/ PStore \/ PSignal \/ PUnlock \/ PJoin
Consumer == CLock \/ CTest \/ CRelock \/ CLoad \/ CSignal \/ CUnlock

Next == Producer \/ Consumer \/ SpuriousWakeup

Spec == Init /\ [][Next]_vars

-----------------------------------------------------------------------------
(* Properties *)

\* No wakeup is lost: a process that sleeps although it could go on will be
\* signalled, for the other one has changed size and has its pthread_cond_signal
\* ahead (15_cv.c:34-35, 40-44 and 51-52, 56-61).
NoLostWakeup ==
  /\ c = "asleep" /\ size > 0 => p = "post"
  /\ p = "asleep" /\ size < BufferSize => c = "post"
=============================================================================
