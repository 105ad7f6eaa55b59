---------------------------- MODULE CounterLocks ----------------------------
(***************************************************************************)
(* The lock programs of Lecture Codes/03_synchro: 01_base (no lock),       *)
(* 02_peterson, 03_peterson_atomic, 04_atomic_swap, 05_atomic_test_and_    *)
(* set, 06_mutex, 07_semaphore, 11_sem_open and 14_mtx_in_shm.  In each,   *)
(* one thread (a process in 14) increments a counter and another           *)
(* decrements it as often.  CMakeLists.txt asks for no optimisation, so    *)
(* that every access of the source is one of the machine, x86-64 as in the *)
(* comments of 04 and 99_reordering: a plain store waits in the store      *)
(* buffer of its processor, an atomic one empties that buffer first.       *)
(*                                                                         *)
(* An operator named Faulty... is the definition that follows it with a    *)
(* plausible mistake in it; no specification uses one.                     *)
(***************************************************************************)
EXTENDS Integers, Sequences

CONSTANT Iterations   \* ITERATIONS of both loops

ASSUME IterationsAssumption == Iterations \in Nat \ {0}

VARIABLES prog,    \* the program that runs
          pc,      \* where each thread is
          i,       \* the loop counter of each thread
          reg,     \* the register of each thread that holds the counter
          mem,     \* the shared variables
          buf,     \* the store buffers: pairs of a variable and a value
          passed   \* history: how often the other thread has entered its
                   \* critical section while this one was waiting to

vars == <<prog, pc, i, reg, mem, buf, passed>>

Threads == {0, 1}   \* producer, consumer
Other(t) == 1 - t

\* 02 and 03 lock with Peterson's algorithm, 04 to 06 and 14 with a lock word
\* that is 1 while the lock is held, 07 and 11 with a semaphore.
Peterson == {"peterson", "peterson_atomic"}
Spinning == {"swap", "test_and_set"}
Mutexes == {"mutex", "mutex_in_shm"}
Semaphores == {"semaphore", "sem_open"}
Programs == {"base"} \cup Peterson \cup Spinning \cup Mutexes \cup Semaphores

\* The programs whose lock is one that works.
Locking == Programs \ {"base", "peterson"}

Flag == <<"flag0", "flag1">>
FlagOf(t) == Flag[t + 1]
Variables == {"counter", "flag0", "flag1", "turn", "lock"}

Waiting == {"see_flag", "see_turn"}
Critical == {"load", "store", "unlock"}
Places == {"lock", "turn", "asleep", "done"} \cup Waiting \cup Critical

TypeOK ==
  /\ prog \in Programs
  /\ pc \in [Threads -> Places]
  /\ i \in [Threads -> 0..Iterations]
  /\ reg \in [Threads -> Int]
  /\ mem \in [Variables -> Int]
  /\ buf \in [Threads -> Seq(Variables \X Int)]
  /\ passed \in [Threads -> Nat]

Init ==
  /\ prog \in Programs
  /\ pc = [t \in Threads |-> "lock"]
  /\ i = [t \in Threads |-> 0]
  /\ reg = [t \in Threads |-> 0]
  /\ mem = [v \in Variables |-> IF v = "lock" /\ prog \in Semaphores THEN 1 ELSE 0]
  /\ buf = [t \in Threads |-> <<>>]
  /\ passed = [t \in Threads |-> 0]

-----------------------------------------------------------------------------
(* The machine *)

\* A thread sees its own latest store to v, in its buffer or in memory.
Pending(t, v) == {k \in DOMAIN buf[t] : buf[t][k][1] = v}
Read(t, v) ==
  IF Pending(t, v) = {} THEN mem[v]
  ELSE buf[t][CHOOSE k \in Pending(t, v) : \A l \in Pending(t, v) : l <= k][2]

PlainStore(t, v, x) == buf' = [buf EXCEPT ![t] = Append(@, <<v, x>>)] /\ UNCHANGED mem

AtomicStore(t, v, x) == buf[t] = <<>> /\ mem' = [mem EXCEPT ![v] = x] /\ UNCHANGED buf

\* The flags and the turn are plain variables in 02 and atomic ones in 03.
FlagStore(t, v, x) ==
  IF prog = "peterson" THEN PlainStore(t, v, x) ELSE AtomicStore(t, v, x)

\* The oldest store of a buffer reaches the memory.
Drain(t) ==
  /\ buf[t] # <<>>
  /\ mem' = [mem EXCEPT ![Head(buf[t])[1]] = Head(buf[t])[2]]
  /\ buf' = [buf EXCEPT ![t] = Tail(@)]
  /\ UNCHANGED <<prog, pc, i, reg, passed>>

-----------------------------------------------------------------------------
(* The threads *)

Goes(t, from, to) == pc[t] = from /\ pc' = [pc EXCEPT ![t] = to] /\ UNCHANGED prog

\* Thread t enters its critical section: the other one, if it waits in Peterson's
\* loop, has been passed once more.
Enters(t, from) ==
  /\ Goes(t, from, "load")
  /\ passed' = [passed EXCEPT ![Other(t)] = IF pc[Other(t)] \in Waiting THEN @ + 1 ELSE 0]

FaultyAgain(t) == i[t] <= Iterations

\* The condition of the loops.
Again(t) == i[t] < Iterations

\* 01_base.c takes no lock.
NoLock(t) ==
  /\ prog = "base" /\ Again(t) /\ Enters(t, "lock")
  /\ UNCHANGED <<i, reg, mem, buf>>

\* lock() of 02 and 03: raise the flag, give the turn away, then read the flag of
\* the other thread and, only if it is raised, the turn.
RaiseFlag(t) ==
  /\ prog \in Peterson /\ Again(t) /\ Goes(t, "lock", "turn")
  /\ FlagStore(t, FlagOf(t), 1)
  /\ UNCHANGED <<i, reg, passed>>

FaultyGiveTurn(t) ==
  /\ Goes(t, "turn", "see_flag")
  /\ FlagStore(t, "turn", t)
  /\ passed' = [passed EXCEPT ![t] = 0]
  /\ UNCHANGED <<i, reg>>

GiveTurn(t) ==
  /\ Goes(t, "turn", "see_flag")
  /\ FlagStore(t, "turn", Other(t))
  /\ passed' = [passed EXCEPT ![t] = 0]
  /\ UNCHANGED <<i, reg>>

SeeFlag(t) ==
  /\ \/ Read(t, FlagOf(Other(t))) = 0 /\ Enters(t, "see_flag")
     \/ Read(t, FlagOf(Other(t))) # 0 /\ Goes(t, "see_flag", "see_turn") /\ UNCHANGED passed
  /\ UNCHANGED <<i, reg, mem, buf>>

SeeTurn(t) ==
  /\ \/ Read(t, "turn") # Other(t) /\ Enters(t, "see_turn")
     \/ Read(t, "turn") = Other(t) /\ Goes(t, "see_turn", "see_flag") /\ UNCHANGED passed
  /\ UNCHANGED <<i, reg, mem, buf>>

\* lock() of 04 and 05: exchange the word with 1 until it was 0.
Exchange(t) ==
  /\ prog \in Spinning /\ Again(t)
  /\ \/ mem["lock"] = 0 /\ Enters(t, "lock")
     \/ mem["lock"] # 0 /\ Goes(t, "lock", "lock") /\ UNCHANGED passed
  /\ AtomicStore(t, "lock", 1)
  /\ UNCHANGED <<i, reg>>

\* pthread_mutex_lock() of 06 and 14.
MutexLock(t) ==
  /\ prog \in Mutexes /\ Again(t)
  /\ mem["lock"] = 0 /\ Enters(t, "lock")
  /\ AtomicStore(t, "lock", 1)
  /\ UNCHANGED <<i, reg>>

\* The mutex of 14 is not PTHREAD_PROCESS_SHARED: a process that finds it held
\* sleeps on a futex private to it, and the other process wakes its own sleepers.
SleepAlone(t) ==
  /\ prog = "mutex_in_shm" /\ Again(t)
  /\ mem["lock"] = 1 /\ Goes(t, "lock", "asleep")
  /\ UNCHANGED <<i, reg, mem, buf, passed>>

FaultySemWait(t) ==
  /\ prog \in Semaphores /\ Again(t)
  /\ Enters(t, "lock")
  /\ AtomicStore(t, "lock", mem["lock"] - 1)
  /\ UNCHANGED <<i, reg>>

\* sem_wait() of 07 and 11.
SemWait(t) ==
  /\ prog \in Semaphores /\ Again(t)
  /\ mem["lock"] > 0 /\ Enters(t, "lock")
  /\ AtomicStore(t, "lock", mem["lock"] - 1)
  /\ UNCHANGED <<i, reg>>

\* (*counter)++ in the producer, (*counter)-- in the consumer: a load, then a
\* plain store.
Load(t) ==
  /\ Goes(t, "load", "store")
  /\ reg' = [reg EXCEPT ![t] = Read(t, "counter")]
  /\ UNCHANGED <<i, mem, buf, passed>>

Store(t) ==
  /\ Goes(t, "store", "unlock")
  /\ PlainStore(t, "counter", IF t = 0 THEN reg[t] + 1 ELSE reg[t] - 1)
  /\ UNCHANGED <<i, reg, passed>>

FaultyRelease(t) ==
  \/ prog = "base" /\ UNCHANGED <<mem, buf>>
  \/ prog \in Peterson /\ FlagStore(t, FlagOf(Other(t)), 0)
  \/ prog \in Spinning \cup Mutexes /\ AtomicStore(t, "lock", 0)
  \/ prog \in Semaphores /\ AtomicStore(t, "lock", mem["lock"] + 1)

\* The store of unlock() in every program; 01 has none.  A mutex and a semaphore
\* are released by an atomic operation.
Release(t) ==
  \/ prog = "base" /\ UNCHANGED <<mem, buf>>
  \/ prog \in Peterson /\ FlagStore(t, FlagOf(t), 0)
  \/ prog \in Spinning \cup Mutexes /\ AtomicStore(t, "lock", 0)
  \/ prog \in Semaphores /\ AtomicStore(t, "lock", mem["lock"] + 1)

\* unlock() and ++i.
Unlock(t) ==
  /\ Goes(t, "unlock", "lock")
  /\ Release(t)
  /\ i' = [i EXCEPT ![t] = @ + 1]
  /\ UNCHANGED <<reg, passed>>

\* The thread returns; who joins it sees all its stores.
Return(t) ==
  /\ ~Again(t) /\ buf[t] = <<>>
  /\ Goes(t, "lock", "done")
  /\ UNCHANGED <<i, reg, mem, buf, passed>>

-----------------------------------------------------------------------------
Lock(t) ==
  \/ NoLock(t)
  \/ RaiseFlag(t) \/ GiveTurn(t) \/ SeeFlag(t) \/ SeeTurn(t)
  \/ Exchange(t) \/ MutexLock(t) \/ SleepAlone(t) \/ SemWait(t)

Step(t) == Lock(t) \/ Load(t) \/ Store(t) \/ Unlock(t) \/ Return(t)

Next == \E t \in Threads : Step(t) \/ Drain(t)

Spec == Init /\ [][Next]_vars

\* Threads run until they block, and no store stays in a buffer for ever.
FairSpec == Spec /\ \A t \in Threads : WF_vars(Step(t)) /\ WF_vars(Drain(t))

-----------------------------------------------------------------------------
(* Properties *)

\* Every lock but that of 02 keeps the two counter updates apart, 14 included:
\* its mutex fails to wake, never to exclude.
MutualExclusion ==
  prog \in Locking => ~ \A t \in Threads : pc[t] \in Critical

\* "counter = %d" prints 0 under a lock that works (03_peterson_atomic.c:69 and
\* its like), and without one, or with that of 02, no more updates are lost than
\* were made (01_base.c:50, 02_peterson.c:68).
CounterAtJoin ==
  (\A t \in Threads : pc[t] = "done") =>
    IF prog \in Locking THEN mem["counter"] = 0
    ELSE mem["counter"] \in -Iterations..Iterations

\* A thread waiting in lock() of 03 is passed at most once (03_peterson_atomic.c:
\* 13-18): it need not wait for the other loop to end.
PassedOnce ==
  prog = "peterson_atomic" => \A t \in Threads : pc[t] \in Waiting => passed[t] <= 1

\* Both threads return, in every program but 14.
BothReturn ==
  prog # "mutex_in_shm" => <>(\A t \in Threads : pc[t] = "done")
=============================================================================
