----------------------------- MODULE MonteCarlo -----------------------------
(***************************************************************************)
(* Lab - 7/secondexamp.c: processes started on their own add up points in  *)
(* a named shared memory under a robust mutex.  Who gets the semaphore at  *)
(* once initialises, everybody posts it, and nobody waits for the          *)
(* initialisation to end.  The last to leave prints the result, destroys   *)
(* the mutex and unlinks both names.                                       *)
(***************************************************************************)
EXTENDS Integers, Sequences, FiniteSets

CONSTANTS Starts,      \* how many processes run the program, each once
          Turns,       \* the batches of each, 3 in the code
          MaxKills     \* how many of them may be killed

Runners == 1..Starts

VARIABLES at,          \* where each process is
          turn,        \* the batches it has still to do, i
          semOf, memOf, \* the objects it has opened, 0 for none
          semaphores,  \* the values of the semaphore objects ever made
          memories,    \* the shared memory objects ever made
          semFile, memFile, \* the objects with the two names, 0 for none
          killed       \* the processes killed

Ended == {"done", "failed", "killed"}
Locking == {"lock", "lock_work", "lock_leave"}
Places == {"start", "open", "try", "init", "set", "mutex", "post", "count", "unlock", "add",
           "leave", "print", "destroy", "unlink_sem", "unlink_mem"} \cup Locking \cup Ended

\* "early" is history: the mutex was used as the plain one that it is when all is zero,
\* or the memory was initialised twice.
NewMemory == [initialised |-> FALSE, counter |-> 0, samples |-> 0, kind |-> "plain",
              holder |-> {}, early |-> FALSE]

TypeOK ==
  /\ at \in [Runners -> Places] /\ turn \in [Runners -> 0..Turns]
  /\ \A k \in DOMAIN semaphores : semaphores[k] \in 0..Cardinality(Runners) + 1
  /\ \A m \in DOMAIN memories :
       /\ memories[m] \in [initialised : BOOLEAN, counter : Int, samples : Nat,
                           kind : {"plain", "robust", "destroyed"},
                           holder : SUBSET Runners, early : BOOLEAN]
       /\ Cardinality(memories[m].holder) <= 1
  /\ semFile \in 0..Len(semaphores) /\ memFile \in 0..Len(memories)
  /\ semOf \in [Runners -> 0..Len(semaphores)] /\ memOf \in [Runners -> 0..Len(memories)]
  /\ killed \subseteq Runners

Init ==
  /\ at = [p \in Runners |-> "start"] /\ turn = [p \in Runners |-> Turns]
  /\ semOf = [p \in Runners |-> 0] /\ memOf = [p \in Runners |-> 0]
  /\ semaphores = <<>> /\ memories = <<>> /\ semFile = 0 /\ memFile = 0 /\ killed = {}

-----------------------------------------------------------------------------
Goes(p, from, to) == at[p] = from /\ at' = [at EXCEPT ![p] = to]
Mem(p) == memories[memOf[p]]
Writes(p, m) == memories' = [memories EXCEPT ![memOf[p]] = m]
KeepsFiles == UNCHANGED <<semOf, memOf, semaphores, semFile, memFile, killed>>

\* pthread_mutex_lock: the owner of a robust mutex that died is followed by the next
\* one, after pthread_mutex_consistent; a destroyed mutex is an error, but not for one
\* that has waited for it since before.
Locked(p) ==
  /\ Mem(p).kind # "destroyed" \/ at[p] = "lock"
  /\ Mem(p).holder = {} \/ (Mem(p).kind # "plain" /\ \A q \in Mem(p).holder : at[q] \in Ended)
  /\ Writes(p, [Mem(p) EXCEPT !.holder = {p}, !.early = @ \/ Mem(p).kind = "plain"])

LockFails(p) == Mem(p).kind = "destroyed" /\ UNCHANGED memories

LockTo(p, from, to) ==
  /\ \/ Goes(p, from, to) /\ Locked(p)
     \/ Goes(p, from, "failed") /\ LockFails(p)
  /\ KeepsFiles /\ UNCHANGED turn

\* A robust mutex is released by its owner only, a destroyed one by nobody.
Released(p) == [Mem(p) EXCEPT !.holder = IF Mem(p).kind = "robust" THEN @ \ {p} ELSE @]

-----------------------------------------------------------------------------
(* main *)

\* sem_open(O_CREAT, 1); processes have the numbers of the order in which they start.
OpenSem(p) ==
  /\ Goes(p, "start", "open") /\ \A q \in 1..p - 1 : at[q] # "start"
  /\ IF semFile # 0 THEN UNCHANGED <<semaphores, semFile>>
     ELSE semaphores' = Append(semaphores, 1) /\ semFile' = Len(semaphores) + 1
  /\ semOf' = [semOf EXCEPT ![p] = semFile']
  /\ UNCHANGED <<turn, memOf, memories, memFile, killed>>

\* shm_open(O_CREAT) and ftruncate: a new object is zero.
OpenMem(p) ==
  /\ Goes(p, "open", "try")
  /\ IF memFile # 0 THEN UNCHANGED <<memories, memFile>>
     ELSE memories' = Append(memories, NewMemory) /\ memFile' = Len(memories) + 1
  /\ memOf' = [memOf EXCEPT ![p] = memFile']
  /\ UNCHANGED <<turn, semOf, semaphores, semFile, killed>>

TryWait(p) ==
  /\ at[p] = "try"
  /\ IF semaphores[semOf[p]] > 0
     THEN Goes(p, "try", "init") /\ semaphores' = [semaphores EXCEPT ![semOf[p]] = @ - 1]
     ELSE Goes(p, "try", "post") /\ UNCHANGED semaphores
  /\ UNCHANGED <<turn, semOf, memOf, memories, semFile, memFile, killed>>

\* TryInitSharedData: the flag is tested and set first, ...
Initialise(p) ==
  /\ \/ Goes(p, "init", IF Mem(p).initialised THEN "post" ELSE "set") /\ UNCHANGED memories
     \/ /\ Goes(p, "set", "mutex")
        /\ Writes(p, [Mem(p) EXCEPT !.initialised = TRUE, !.counter = 0, !.samples = 0,
                                    !.early = @ \/ Mem(p).initialised])
  /\ KeepsFiles /\ UNCHANGED turn

\* ... the mutex is made last.
InitMutex(p) ==
  /\ Goes(p, "mutex", "post")
  /\ Writes(p, [Mem(p) EXCEPT !.kind = "robust", !.holder = {}])
  /\ KeepsFiles /\ UNCHANGED turn

\* sem_post, whether sem_trywait has succeeded or not
Post(p) ==
  /\ Goes(p, "post", "lock")
  /\ semaphores' = [semaphores EXCEPT ![semOf[p]] = @ + 1]
  /\ UNCHANGED <<turn, semOf, memOf, memories, semFile, memFile, killed>>

Enter(p) == LockTo(p, "lock", "count")

\* counter + 1, under the mutex
Count(p) ==
  /\ Goes(p, "count", "unlock") /\ Writes(p, [Mem(p) EXCEPT !.counter = @ + 1])
  /\ KeepsFiles /\ UNCHANGED turn

Unlock(p) ==
  /\ Goes(p, "unlock", "lock_work") /\ Writes(p, Released(p))
  /\ KeepsFiles /\ UNCHANGED turn

-----------------------------------------------------------------------------
(* DoWork, and the way out *)

Work(p) == LockTo(p, "lock_work", "add")

\* SIGINT has set the flag: no more batches.
Flagged(p) == Goes(p, "lock_work", "lock_leave") /\ KeepsFiles /\ UNCHANGED <<turn, memories>>

Add(p) ==
  /\ Goes(p, "add", IF turn[p] > 1 THEN "lock_work" ELSE "lock_leave")
  /\ turn' = [turn EXCEPT ![p] = @ - 1]
  /\ Writes(p, [Released(p) EXCEPT !.samples = @ + 1])
  /\ KeepsFiles

Leaving(p) == LockTo(p, "lock_leave", "leave")

\* The last one goes on to print, with the mutex.
Leave(p) ==
  /\ Goes(p, "leave", IF Mem(p).counter = 1 THEN "print" ELSE "done")
  /\ Writes(p, [(IF Mem(p).counter = 1 THEN Mem(p) ELSE Released(p)) EXCEPT !.counter = @ - 1])
  /\ KeepsFiles /\ UNCHANGED turn

PrintFinal(p) ==
  /\ Goes(p, "print", "destroy") /\ Writes(p, Released(p))
  /\ KeepsFiles /\ UNCHANGED turn

\* pthread_mutex_destroy does not look whether a robust mutex is held.
Destroy(p) ==
  /\ Goes(p, "destroy", "unlink_sem")
  /\ Writes(p, [Mem(p) EXCEPT !.kind = "destroyed"])
  /\ KeepsFiles /\ UNCHANGED turn

\* CleanUp
Unlink(p) ==
  /\ \/ Goes(p, "unlink_sem", "unlink_mem") /\ semFile' = 0 /\ UNCHANGED memFile
     \/ Goes(p, "unlink_mem", "done") /\ memFile' = 0 /\ UNCHANGED semFile
  /\ UNCHANGED <<turn, semOf, memOf, semaphores, memories, killed>>

Kill(p) ==
  /\ at[p] \notin Ended \cup {"start"} /\ Cardinality(killed) < MaxKills
  /\ at' = [at EXCEPT ![p] = "killed"] /\ killed' = killed \cup {p}
  /\ UNCHANGED <<turn, semOf, memOf, semaphores, memories, semFile, memFile>>

\* Nothing is promised any more when the mutex was used too early: a bound, runs end there.
Sound == \A m \in DOMAIN memories : ~memories[m].early

Runner(p) ==
  \/ OpenSem(p) \/ OpenMem(p) \/ TryWait(p) \/ Initialise(p) \/ InitMutex(p) \/ Post(p)
  \/ Enter(p) \/ Count(p) \/ Unlock(p) \/ Work(p) \/ Flagged(p) \/ Add(p)
  \/ Leaving(p) \/ Leave(p) \/ PrintFinal(p) \/ Destroy(p) \/ Unlink(p)

Next == Sound /\ \E p \in Runners : Runner(p) \/ Kill(p)

-----------------------------------------------------------------------------
(* Properties *)

\* Those who have counted themselves in, and not yet out.
Counted(m) ==
  {p \in Runners : memOf[p] = m /\ at[p] \in {"unlock", "lock_work", "add", "lock_leave", "leave"}}

\* The batches of those who have joined that they have added.
Reported(m) == {j \in Runners \X (1..Turns) : memOf[j[1]] = m /\ j[2] > turn[j[1]]}

\* Unless somebody used the mutex before it was made, the count is never less than the
\* processes that work, whoever is killed at whatever step: so "Final result" is printed
\* when nobody works any more (secondexamp.c:138-148).
FinalIsComplete ==
  \A m \in DOMAIN memories : ~memories[m].early =>
    /\ memories[m].counter >= Cardinality(Counted(m))
    /\ \A p \in Runners : memOf[p] = m /\ at[p] = "print" =>
         /\ Counted(m) = {}
         /\ memories[m].samples = Cardinality(Reported(m))

\* Every process ends, but for one that waits for a mutex used before it was made, or
\* that another one got when it was destroyed.
RunnersEnd ==
  Sound => \A p \in Runners : at[p] \in Ended \/ (at[p] \in Locking /\ Mem(p).kind = "destroyed")
=============================================================================
