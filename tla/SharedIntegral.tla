--------------------------- MODULE SharedIntegral ---------------------------
(***************************************************************************)
(* Lab - 7/examp.c: processes started on their own integrate together.     *)
(* They meet in a named shared memory object, whose creation, joining and  *)
(* destruction a named semaphore guards; the last one to finish prints the *)
(* result and unlinks both names.  Unlinking a name leaves the object to   *)
(* those who have opened it, and the next open makes another.              *)
(*                                                                         *)
(* An operator named Faulty... is the definition that follows it with a    *)
(* plausible mistake in it; no specification uses one.                     *)
(***************************************************************************)
EXTENDS Integers, Sequences, FiniteSets

CONSTANTS Procs,     \* the processes, each of which runs the program once
          Ranges,    \* the intervals a user may ask for
          Batches    \* the batches of each process, 3 in the code

ASSUME IntegralAssumption == IsFiniteSet(Procs) /\ Batches \in Nat \ {0}

VARIABLES pc,        \* where each process is
          range,     \* a and b of its command line
          batch,     \* the batches it has still to do, t
          temp,      \* the register that holds workers
          sem, mem,  \* the objects it has opened, 0 for none
          sems,      \* the values of the semaphore objects ever made
          mems,      \* the shared memory objects ever made
          semName,   \* the object with the semaphore's name, 0 for none
          memName,   \* the object with the shared memory's name, 0 for none
          stale      \* history: a process has waited out a semaphore unlinked by then

vars == <<pc, range, batch, temp, sem, mem, sems, mems, semName, memName, stale>>
names == <<semName, memName>>

Joining == {"create", "open", "size", "fill", "mutex", "check", "count", "load", "store", "unlock", "post"}
Attached == {"work", "report", "reopen", "reacquire", "leave", "leave_store", "print", "destroy",
             "unlink", "unlink_sem", "post_last", "done", "expired"}
Ended == {"done", "expired", "failed", "killed"}
Places == {"start", "acquire", "failed", "killed"} \cup Joining \cup Attached

\* Who has the mutex: a process, nobody, or nobody ever again.
Free == "free"
Destroyed == "destroyed"

\* A new object: not yet sized, and zero when it is.
NewMem == [sized |-> FALSE, range |-> 0, workers |-> 0, tried |-> 0, lock |-> Free]

TypeOK ==
  /\ pc \in [Procs -> Places]
  /\ range \in [Procs -> Ranges] /\ batch \in [Procs -> 0..Batches] /\ temp \in [Procs -> Int]
  /\ \A k \in DOMAIN sems : sems[k] \in 0..1
  /\ \A m \in DOMAIN mems :
       mems[m] \in [sized : BOOLEAN, range : Ranges \cup {0}, workers : Int, tried : Nat,
                    lock : Procs \cup {Free, Destroyed}]
  /\ semName \in 0..Len(sems) /\ memName \in 0..Len(mems)
  /\ sem \in [Procs -> 0..Len(sems)] /\ mem \in [Procs -> 0..Len(mems)]
  /\ stale \in BOOLEAN

Init ==
  /\ pc = [p \in Procs |-> "start"]
  /\ range \in [Procs -> Ranges]
  /\ batch = [p \in Procs |-> Batches] /\ temp = [p \in Procs |-> 0]
  /\ sem = [p \in Procs |-> 0] /\ mem = [p \in Procs |-> 0]
  /\ sems = <<>> /\ mems = <<>> /\ semName = 0 /\ memName = 0
  /\ stale = FALSE

-----------------------------------------------------------------------------
(* The calls *)

Goes(p, from, to) == pc[p] = from /\ pc' = [pc EXCEPT ![p] = to] /\ UNCHANGED range

\* sem_open(O_CREAT, 1): the object of that name, or a new one.
OpenSem(p) ==
  /\ IF semName # 0 THEN UNCHANGED <<sems, semName>>
     ELSE sems' = Append(sems, 1) /\ semName' = Len(sems) + 1
  /\ sem' = [sem EXCEPT ![p] = semName']
  /\ UNCHANGED <<mem, mems, memName, batch, temp, stale>>

\* sem_timedwait, which a signal only restarts, ends in time...
Acquire(p) ==
  /\ sems[sem[p]] > 0 /\ sems' = [sems EXCEPT ![sem[p]] = @ - 1]
  /\ stale' = (stale \/ sem[p] # semName)
  /\ UNCHANGED <<sem, mem, mems, names, batch, temp>>

\* ... or not within ten seconds.
TimesOut(p) == sems[sem[p]] = 0 /\ UNCHANGED <<sem, sems, mem, mems, names, batch, temp, stale>>

Post(p) == sems' = [sems EXCEPT ![sem[p]] = @ + 1]

\* Nothing but the shared memory object of p, or its registers, changes.
Keeps == UNCHANGED <<sem, sems, mem, names, stale>>
Mem(p) == mems[mem[p]]

\* pthread_mutex_lock on a destroyed mutex fails, which nobody notices.
Lock(p) ==
  /\ Mem(p).lock \in {Free, Destroyed}
  /\ mems' = [mems EXCEPT ![mem[p]].lock = IF @ = Free THEN p ELSE @]

Unlocked(m, p) == IF m.lock = p THEN Free ELSE m.lock

-----------------------------------------------------------------------------
(* mem_init *)

Start(p) == Goes(p, "start", "acquire") /\ OpenSem(p)

Enter(p) ==
  \/ Goes(p, "acquire", "create") /\ Acquire(p)
  \/ Goes(p, "acquire", "failed") /\ TimesOut(p)

\* shm_open(O_CREAT | O_EXCL)
Create(p) ==
  /\ \/ memName # 0 /\ Goes(p, "create", "open") /\ UNCHANGED <<mem, mems, memName>>
     \/ /\ memName = 0 /\ Goes(p, "create", "size")
        /\ mems' = Append(mems, NewMem) /\ memName' = Len(mems) + 1
        /\ mem' = [mem EXCEPT ![p] = memName']
  /\ UNCHANGED <<sem, sems, semName, batch, temp, stale>>

\* shm_open of the object that was there; an error releases the semaphore.
OpenExisting(p) ==
  /\ \/ /\ memName # 0 /\ Goes(p, "open", "check")
        /\ mem' = [mem EXCEPT ![p] = memName] /\ UNCHANGED sems
     \/ Goes(p, "open", "failed") /\ Post(p) /\ UNCHANGED mem
  /\ UNCHANGED <<sem, mems, names, batch, temp, stale>>

\* ftruncate and mmap; an error takes the name back and releases the semaphore.
Size(p) ==
  /\ \/ /\ Goes(p, "size", "fill")
        /\ mems' = [mems EXCEPT ![mem[p]].sized = TRUE] /\ UNCHANGED <<sems, memName>>
     \/ /\ Goes(p, "size", "failed")
        /\ memName' = 0 /\ Post(p) /\ UNCHANGED mems
  /\ UNCHANGED <<sem, mem, semName, batch, temp, stale>>

Fill(p) ==
  /\ Goes(p, "fill", "mutex") /\ Keeps /\ UNCHANGED <<batch, temp>>
  /\ mems' = [mems EXCEPT ![mem[p]] = [@ EXCEPT !.workers = 1, !.tried = 0, !.range = range[p]]]

InitMutex(p) ==
  /\ Goes(p, "mutex", "post") /\ Keeps /\ UNCHANGED <<batch, temp>>
  /\ mems' = [mems EXCEPT ![mem[p]].lock = Free]

\* Access to an object without size kills the process; ERR exits without a post.
Check(p) ==
  /\ \/ Goes(p, "check", "killed") /\ ~ Mem(p).sized
     \/ Goes(p, "check", "failed") /\ Mem(p).sized /\ Mem(p).range # range[p]
     \/ Goes(p, "check", "count") /\ Mem(p).sized /\ Mem(p).range = range[p]
  /\ Keeps /\ UNCHANGED <<mems, batch, temp>>

FaultyCount(p) == Goes(p, "count", "unlock") /\ Keeps /\ UNCHANGED <<batch, temp>> /\ Lock(p)

\* workers++ under the mutex
Count(p) == Goes(p, "count", "load") /\ Keeps /\ UNCHANGED <<batch, temp>> /\ Lock(p)

Load(p) ==
  /\ Goes(p, "load", "store") /\ Keeps /\ UNCHANGED <<mems, batch>>
  /\ temp' = [temp EXCEPT ![p] = Mem(p).workers]

Store(p) ==
  /\ Goes(p, "store", "unlock") /\ Keeps /\ UNCHANGED <<batch, temp>>
  /\ mems' = [mems EXCEPT ![mem[p]].workers = temp[p] + 1]

Unlock(p) ==
  /\ Goes(p, "unlock", "post") /\ Keeps /\ UNCHANGED <<batch, temp>>
  /\ mems' = [mems EXCEPT ![mem[p]].lock = Unlocked(Mem(p), p)]

FaultyJoined(p) ==
  /\ Goes(p, "post", "work")
  /\ UNCHANGED <<sem, sems, mem, mems, names, batch, temp, stale>>

Joined(p) ==
  /\ Goes(p, "post", "work") /\ Post(p)
  /\ UNCHANGED <<sem, mem, mems, names, batch, temp, stale>>

MemInit(p) ==
  \/ Start(p) \/ Enter(p) \/ Create(p) \/ OpenExisting(p) \/ Size(p) \/ Fill(p) \/ InitMutex(p)
  \/ Check(p) \/ Count(p) \/ Load(p) \/ Store(p) \/ Unlock(p) \/ Joined(p)

-----------------------------------------------------------------------------
(* work *)

\* A batch is done: its points are added under the mutex.
Work(p) == Goes(p, "work", "report") /\ Keeps /\ UNCHANGED <<batch, temp>> /\ Lock(p)

Report(p) ==
  /\ Goes(p, "report", IF batch[p] > 1 THEN "work" ELSE "reopen") /\ Keeps /\ UNCHANGED temp
  /\ batch' = [batch EXCEPT ![p] = @ - 1]
  /\ mems' = [mems EXCEPT ![mem[p]] = [Mem(p) EXCEPT !.tried = @ + 1, !.lock = Unlocked(Mem(p), p)]]

-----------------------------------------------------------------------------
(* finish *)

Reopen(p) == Goes(p, "reopen", "reacquire") /\ OpenSem(p)

Reenter(p) ==
  \/ Goes(p, "reacquire", "leave") /\ Acquire(p)
  \/ Goes(p, "reacquire", "expired") /\ TimesOut(p)

\* --workers, without the mutex
Leave(p) ==
  /\ Goes(p, "leave", "leave_store") /\ Keeps /\ UNCHANGED <<mems, batch>>
  /\ temp' = [temp EXCEPT ![p] = Mem(p).workers - 1]

LeaveStore(p) ==
  /\ Goes(p, "leave_store", IF temp[p] = 0 THEN "print" ELSE "post_last")
  /\ Keeps /\ UNCHANGED <<batch, temp>>
  /\ mems' = [mems EXCEPT ![mem[p]].workers = temp[p]]

\* The result is printed under the mutex.
PrintResult(p) ==
  /\ Goes(p, "print", "destroy") /\ Keeps /\ UNCHANGED <<mems, batch, temp>>
  /\ Mem(p).lock \in {Free, Destroyed}

\* pthread_mutex_destroy refuses a mutex in use.
DestroyMutex(p) ==
  /\ Goes(p, "destroy", "unlink") /\ Keeps /\ UNCHANGED <<batch, temp>>
  /\ mems' = [mems EXCEPT ![mem[p]].lock = IF @ = Free THEN Destroyed ELSE @]

\* shm_unlink, then sem_unlink: an error exits without a post.
UnlinkMem(p) ==
  /\ Goes(p, "unlink", IF memName # 0 THEN "unlink_sem" ELSE "expired")
  /\ memName' = 0
  /\ UNCHANGED <<sem, sems, mem, mems, semName, batch, temp, stale>>

UnlinkSem(p) ==
  /\ Goes(p, "unlink_sem", IF semName # 0 THEN "post_last" ELSE "expired")
  /\ semName' = 0
  /\ UNCHANGED <<sem, sems, mem, mems, memName, batch, temp, stale>>

Finished(p) ==
  /\ Goes(p, "post_last", "done") /\ Post(p)
  /\ UNCHANGED <<sem, mem, mems, names, batch, temp, stale>>

Finish(p) ==
  \/ Reopen(p) \/ Reenter(p) \/ Leave(p) \/ LeaveStore(p) \/ PrintResult(p) \/ DestroyMutex(p)
  \/ UnlinkMem(p) \/ UnlinkSem(p) \/ Finished(p)

-----------------------------------------------------------------------------
Step(p) == MemInit(p) \/ Work(p) \/ Report(p) \/ Finish(p)

Next == \E p \in Procs : Step(p)

Spec == Init /\ [][Next]_vars

-----------------------------------------------------------------------------
(* Properties *)

\* The processes between sem_timedwait and the post that follows it.
Inside(k) == {p \in Procs : sem[p] = k /\ pc[p] \in Joining \cup
                {"leave", "leave_store", "print", "destroy", "unlink", "unlink_sem", "post_last"}}

\* A semaphore at 0 has one process inside, or was lost by one that exited without
\* a post: killed, or by ERR in mem_init (examp.c:193) or mem_destroy (:216, :218).
SemHeldOrLost ==
  \A k \in DOMAIN sems :
    /\ Cardinality(Inside(k)) <= 1 - sems[k]
    /\ sems[k] = 0 /\ Inside(k) = {} =>
         \E p \in Procs : sem[p] = k /\ pc[p] \in {"failed", "killed", "expired"}

\* Those who have entered shared memory m and not yet left it.
Members(m) == {p \in Procs : mem[p] = m /\ pc[p] \in Attached}
Left == {"print", "destroy", "unlink", "unlink_sem", "post_last", "done"}

\* As long as nobody has entered with a semaphore that was unlinked while it waited,
\* the result is printed when every process that joined has reported all its batches
\* and left, although --workers (examp.c:246) is not under the mutex.
ResultIsComplete ==
  ~ stale => \A p \in Procs :
    pc[p] \in {"print", "destroy", "unlink"} =>
      /\ \A q \in Members(mem[p]) : pc[q] \in Left
      /\ Mem(p).tried = Batches * Cardinality(Members(mem[p]))

\* One process at a time creates, initialises or joins the shared memory: "open
\* semaphore for synchronization of shared memory initialization" (examp.c:103).
InitIsExclusive == \A p, q \in Procs : pc[p] \in Joining /\ pc[q] \in Joining => p = q
=============================================================================
