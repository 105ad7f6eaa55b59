------------------------- MODULE CounterLocksProofs -------------------------
(***************************************************************************)
(* Proofs about CounterLocks for any number of iterations: type            *)
(* correctness, mutual exclusion in every program whose lock works, and    *)
(* the bound on being passed in Peterson's lock.                           *)
(***************************************************************************)
EXTENDS CounterLocks, SequenceTheorems, WellFoundedInduction, TLAPS

\* A set of positions of a sequence has a last one.
LEMMA LastPosition ==
  ASSUME NEW n \in Nat, NEW T, T \subseteq 1..n, T # {}
  PROVE  \E k \in T : \A l \in T : l <= k
<1> DEFINE D == {m \in Nat : n - m \in T}
<1>1. D \subseteq Nat /\ D # {}
  <2>1. PICK k \in T : TRUE
    OBVIOUS
  <2>2. n - k \in Nat /\ n - (n - k) = k
    BY <2>1
  <2> QED
    BY <2>1, <2>2
<1>2. PICK x \in D : \A y \in D : ~ (<<y, x>> \in OpToRel(<, Nat))
  BY <1>1, WFMin, NatLessThanWellFounded
<1>3. ASSUME NEW y \in D PROVE x <= y
  <2>1. x \in Nat /\ y \in Nat
    BY <1>1
  <2>2. ~ (<<y, x>> \in {ss \in Nat \X Nat : ss[1] < ss[2]})
    BY <1>2 DEF OpToRel
  <2> QED
    BY <2>1, <2>2
<1>4. PICK k \in T : x = n - k
  BY <1>1
<1>5. ASSUME NEW l \in T PROVE l <= k
  <2>1. n - l \in Nat /\ n - (n - l) = l /\ n - l \in D
    BY <1>5
  <2>2. x <= n - l
    BY <1>3, <2>1
  <2> QED
    BY <1>4, <1>5, <2>2
<1> QED
  BY <1>5

\* The head and the tail of a sequence, by position.
LEMMA HeadAndTail ==
  ASSUME NEW S, NEW s \in Seq(S), s # <<>>
  PROVE  /\ 1 \in 1..Len(s) /\ Head(s) = s[1]
         /\ \A k \in 1..Len(Tail(s)) : k + 1 \in 1..Len(s) /\ Tail(s)[k] = s[k + 1]
<1>1. Len(s) \in Nat /\ Len(s) > 0 /\ Len(Tail(s)) = Len(s) - 1
  OBVIOUS
<1>2. ASSUME NEW k \in 1..Len(Tail(s)) PROVE k + 1 \in 1..Len(s) /\ Tail(s)[k] = s[k + 1]
  BY <1>1
<1> QED
  BY <1>1, <1>2

\* A sequence of one element has nothing behind it.
LEMMA SingleTail ==
  ASSUME NEW S, NEW s \in Seq(S), Len(s) = 1
  PROVE  Tail(s) = <<>>
<1>1. Tail(s) \in Seq(S) /\ Len(Tail(s)) = 0
  OBVIOUS
<1> QED
  BY <1>1, EmptySeq

\* There are two threads, each with a flag of its own.
LEMMA ThreadPairs ==
  ASSUME NEW t \in Threads
  PROVE  /\ Other(t) \in Threads /\ Other(t) # t /\ Other(Other(t)) = t
         /\ \A u \in Threads : u = t \/ u = Other(t)
         /\ FlagOf(t) \in Variables \ {"counter", "turn", "lock"}
         /\ FlagOf(t) # FlagOf(Other(t))
BY DEF Threads, Other, FlagOf, Flag, Variables

\* The two threads are 0 and 1.
LEMMA TwoThreads ==
  ASSUME NEW t \in Threads
  PROVE  (t = 0 /\ Other(t) = 1) \/ (t = 1 /\ Other(t) = 0)
BY DEF Threads, Other

\* What a thread reads is an integer.
LEMMA ReadIsInt ==
  ASSUME mem \in [Variables -> Int], buf \in [Threads -> Seq(Variables \X Int)],
         NEW t \in Threads, NEW v \in Variables
  PROVE  Read(t, v) \in Int
<1> DEFINE s == buf[t]
<1>1. s \in Seq(Variables \X Int)
  OBVIOUS
<1>2. Pending(t, v) \subseteq 1..Len(s) /\ Len(s) \in Nat
  BY <1>1 DEF Pending
<1>3. CASE Pending(t, v) = {}
  BY <1>3 DEF Read
<1>4. CASE Pending(t, v) # {}
  <2> DEFINE k == CHOOSE j \in Pending(t, v) : \A l \in Pending(t, v) : l <= j
  <2>1. k \in Pending(t, v)
    BY <1>2, <1>4, LastPosition
  <2>2. s[k] \in Variables \X Int
    BY <1>1, <1>2, <2>1
  <2>3. s[k][2] \in Int
    BY <2>2
  <2> QED
    BY <1>4, <2>3 DEF Read
<1> QED
  BY <1>3, <1>4

-----------------------------------------------------------------------------
\* The places of a thread between the first step of lock() and the end of unlock().
Busy == {"turn"} \cup Waiting \cup Critical

\* A busy thread is in an iteration of its loop; only Peterson's lock waits.
Control ==
  \A t \in Threads :
    /\ pc[t] \in Busy => Again(t)
    /\ pc[t] \in {"turn"} \cup Waiting => prog \in Peterson

\* Under a lock that works no store to a lock variable waits in a buffer.
Buffered ==
  prog \in Locking =>
    \A t \in Threads : \A k \in 1..Len(buf[t]) : buf[t][k][1] = "counter"

\* One thread at most is in its critical section.
Alone == ~ \A t \in Threads : pc[t] \in Critical

\* The lock word tells whether a thread is in its critical section.
LockWord ==
  /\ prog \in Spinning \cup Mutexes =>
       /\ Alone
       /\ mem["lock"] = IF \E t \in Threads : pc[t] \in Critical THEN 1 ELSE 0
  /\ prog \in Semaphores =>
       /\ Alone
       /\ mem["lock"] = IF \E t \in Threads : pc[t] \in Critical THEN 0 ELSE 1

\* A flag is raised while its thread is busy, and a thread that waits while the
\* other one is in its critical section has given it the turn.
PetersonLock ==
  prog = "peterson_atomic" =>
    /\ Alone
    /\ mem["turn"] \in Threads
    /\ \A t \in Threads :
         /\ mem[FlagOf(t)] = IF pc[t] \in Busy THEN 1 ELSE 0
         /\ pc[t] \in Critical /\ pc[Other(t)] \in Waiting => mem["turn"] = t

\* Once passed, a waiting thread has the turn whenever the other one waits.
Passing ==
  prog = "peterson_atomic" =>
    \A t \in Threads : pc[t] \in Waiting =>
      /\ passed[t] <= 1
      /\ passed[t] = 1 /\ mem["turn"] = Other(t) => pc[Other(t)] \notin Waiting

IInv == TypeOK /\ Control /\ Buffered /\ LockWord /\ PetersonLock /\ Passing

-----------------------------------------------------------------------------
\* Every program starts with its lock free.
LEMMA InitInv == Init => IInv
<1> SUFFICES ASSUME Init PROVE IInv
  OBVIOUS
<1> USE IterationsAssumption DEF Init
<1>1. TypeOK
  <2>1. \A t \in Threads : <<>> \in Seq(Variables \X Int)
    OBVIOUS
  <2> QED
    BY <2>1 DEF TypeOK, Places
<1>2. \A t \in Threads : pc[t] \notin Busy /\ buf[t] = <<>>
  BY DEF Busy, Waiting, Critical
<1>3. \A t \in Threads : pc[t] \notin Waiting /\ pc[t] \notin Critical /\ pc[t] # "turn"
  BY <1>2 DEF Busy
<1>4. Control /\ Buffered /\ Passing
  BY <1>2, <1>3 DEF Control, Buffered, Passing
<1>5. Alone
  BY <1>3 DEF Alone, Threads
<1>6. LockWord
  <2>1. mem["lock"] = IF prog \in Semaphores THEN 1 ELSE 0
    BY DEF Variables
  <2> QED
    BY <1>3, <1>5, <2>1 DEF LockWord, Spinning, Mutexes, Semaphores
<1>7. PetersonLock
  <2>1. mem["turn"] = 0 /\ \A t \in Threads : mem[FlagOf(t)] = 0
    BY DEF Variables, FlagOf, Flag, Threads
  <2> QED
    BY <1>2, <1>3, <1>5, <2>1 DEF PetersonLock, Threads
<1> QED
  BY <1>1, <1>4, <1>5, <1>6, <1>7 DEF IInv

\* A store keeps memory and buffers well formed.
LEMMA StoreTypes ==
  ASSUME TypeOK, NEW t \in Threads, NEW v \in Variables, NEW x \in Int,
         PlainStore(t, v, x) \/ AtomicStore(t, v, x)
  PROVE  mem' \in [Variables -> Int] /\ buf' \in [Threads -> Seq(Variables \X Int)]
<1>1. mem \in [Variables -> Int] /\ buf \in [Threads -> Seq(Variables \X Int)]
  BY DEF TypeOK
<1>2. Append(buf[t], <<v, x>>) \in Seq(Variables \X Int)
  BY <1>1
<1> QED
  BY <1>1, <1>2 DEF PlainStore, AtomicStore

\* So does the store of a flag, plain in 02 and locked in 03.
LEMMA FlagStoreTypes ==
  ASSUME TypeOK, NEW t \in Threads, NEW v \in Variables, NEW x \in Int, FlagStore(t, v, x)
  PROVE  mem' \in [Variables -> Int] /\ buf' \in [Threads -> Seq(Variables \X Int)]
BY StoreTypes DEF FlagStore

\* Every step keeps the types.
LEMMA TypeStep ==
  ASSUME IInv, Next
  PROVE  TypeOK'
<1> USE IterationsAssumption
<1>1. TypeOK /\ Control
  BY DEF IInv
<1>2. PICK t \in Threads : Step(t) \/ Drain(t)
  BY DEF Next
<1>3. /\ Other(t) \in Threads /\ FlagOf(t) \in Variables /\ Other(t) \in Int /\ t \in Int
      /\ "turn" \in Variables /\ "lock" \in Variables /\ "counter" \in Variables
  BY DEF Threads, Other, FlagOf, Flag, Variables
<1>4. mem["lock"] \in Int
  BY <1>1, <1>3 DEF TypeOK
<1>5. ASSUME NEW from, NEW to \in Places, Goes(t, from, to)
      PROVE  prog' \in Programs /\ pc' \in [Threads -> Places]
  BY <1>1, <1>5 DEF Goes, TypeOK
<1>6. ASSUME NEW from, Enters(t, from)
      PROVE  prog' \in Programs /\ pc' \in [Threads -> Places] /\ passed' \in [Threads -> Nat]
  <2>1. passed \in [Threads -> Nat]
    BY <1>1 DEF TypeOK
  <2>2. passed' \in [Threads -> Nat]
    BY <1>3, <1>6, <2>1 DEF Enters
  <2> QED
    BY <1>5, <1>6, <2>2 DEF Enters, Places, Critical
<1>7. /\ {"lock", "turn", "asleep", "done"} \subseteq Places
      /\ {"see_flag", "see_turn", "load", "store", "unlock"} \subseteq Places
  BY DEF Places, Waiting, Critical
<1> USE <1>7
<1>8. CASE Lock(t)
  <2>1. CASE NoLock(t)
    BY <1>1, <1>6, <2>1 DEF NoLock, TypeOK
  <2>2. CASE RaiseFlag(t)
    <3>1. mem' \in [Variables -> Int] /\ buf' \in [Threads -> Seq(Variables \X Int)]
      BY <1>1, <1>3, <2>2, FlagStoreTypes DEF RaiseFlag
    <3> QED
      BY <1>1, <1>5, <2>2, <3>1 DEF RaiseFlag, TypeOK
  <2>3. CASE GiveTurn(t)
    <3>1. mem' \in [Variables -> Int] /\ buf' \in [Threads -> Seq(Variables \X Int)]
      BY <1>1, <1>3, <2>3, FlagStoreTypes DEF GiveTurn
    <3> QED
      BY <1>1, <1>5, <2>3, <3>1 DEF GiveTurn, TypeOK
  <2>4. CASE SeeFlag(t)
    BY <1>1, <1>5, <1>6, <2>4 DEF SeeFlag, TypeOK
  <2>5. CASE SeeTurn(t)
    BY <1>1, <1>5, <1>6, <2>5 DEF SeeTurn, TypeOK
  <2>6. CASE Exchange(t)
    <3>1. mem' \in [Variables -> Int] /\ buf' \in [Threads -> Seq(Variables \X Int)]
      BY <1>1, <1>3, <2>6, StoreTypes DEF Exchange
    <3> QED
      BY <1>1, <1>5, <1>6, <2>6, <3>1 DEF Exchange, TypeOK
  <2>7. CASE MutexLock(t)
    <3>1. mem' \in [Variables -> Int] /\ buf' \in [Threads -> Seq(Variables \X Int)]
      BY <1>1, <1>3, <2>7, StoreTypes DEF MutexLock
    <3> QED
      BY <1>1, <1>6, <2>7, <3>1 DEF MutexLock, TypeOK
  <2>8. CASE SleepAlone(t)
    BY <1>1, <1>5, <2>8 DEF SleepAlone, TypeOK
  <2>9. CASE SemWait(t)
    <3>1. mem["lock"] - 1 \in Int
      BY <1>4
    <3>2. mem' \in [Variables -> Int] /\ buf' \in [Threads -> Seq(Variables \X Int)]
      BY <1>1, <1>3, <2>9, <3>1, StoreTypes DEF SemWait
    <3> QED
      BY <1>1, <1>6, <2>9, <3>2 DEF SemWait, TypeOK
  <2> QED
    BY <1>8, <2>1, <2>2, <2>3, <2>4, <2>5, <2>6, <2>7, <2>8, <2>9 DEF Lock
<1>9. CASE Load(t)
  <2>1. Read(t, "counter") \in Int
    BY <1>1, <1>3, ReadIsInt DEF TypeOK
  <2> QED
    BY <1>1, <1>5, <1>9, <2>1 DEF Load, TypeOK
<1>10. CASE Store(t)
  <2>1. (IF t = 0 THEN reg[t] + 1 ELSE reg[t] - 1) \in Int
    BY <1>1 DEF TypeOK
  <2> QED
    BY <1>1, <1>3, <1>5, <1>10, <2>1, StoreTypes DEF Store, TypeOK
<1>11. CASE Unlock(t)
  <2>1. mem' \in [Variables -> Int] /\ buf' \in [Threads -> Seq(Variables \X Int)]
    <3>1. Release(t)
      BY <1>11 DEF Unlock
    <3>2. mem["lock"] + 1 \in Int
      BY <1>4
    <3>3. CASE UNCHANGED <<mem, buf>>
      BY <1>1, <3>3 DEF TypeOK
    <3>4. CASE FlagStore(t, FlagOf(t), 0)
      BY <1>1, <1>3, <3>4, FlagStoreTypes
    <3>5. CASE AtomicStore(t, "lock", 0) \/ AtomicStore(t, "lock", mem["lock"] + 1)
      BY <1>1, <1>3, <3>2, <3>5, StoreTypes
    <3> QED
      BY <3>1, <3>3, <3>4, <3>5 DEF Release
  <2>2. i' \in [Threads -> 0..Iterations]
    <3>1. i \in [Threads -> 0..Iterations] /\ i[t] < Iterations
      BY <1>1, <1>11 DEF Unlock, Goes, Control, Again, Busy, Critical, TypeOK
    <3> QED
      BY <1>11, <3>1 DEF Unlock
  <2> QED
    BY <1>1, <1>5, <1>11, <2>1, <2>2 DEF Unlock, TypeOK
<1>12. CASE Return(t)
  BY <1>1, <1>5, <1>12 DEF Return, TypeOK
<1>13. CASE Drain(t)
  <2>1. /\ mem \in [Variables -> Int] /\ buf \in [Threads -> Seq(Variables \X Int)]
        /\ buf[t] # <<>>
    BY <1>1, <1>13 DEF TypeOK, Drain
  <2>2. Head(buf[t]) \in Variables \X Int /\ Tail(buf[t]) \in Seq(Variables \X Int)
    BY <2>1
  <2>3. mem' \in [Variables -> Int] /\ buf' \in [Threads -> Seq(Variables \X Int)]
    BY <1>13, <2>1, <2>2 DEF Drain
  <2> QED
    BY <1>1, <1>13, <2>3 DEF Drain, TypeOK
<1> QED
  BY <1>2, <1>8, <1>9, <1>10, <1>11, <1>12, <1>13 DEF Step
-----------------------------------------------------------------------------
\* Under a lock that works a thread reads the lock variables as they are in memory.
LEMMA ReadsMemory ==
  ASSUME IInv, prog \in Locking, NEW t \in Threads, NEW v \in Variables \ {"counter"}
  PROVE  Read(t, v) = mem[v]
<1>1. buf[t] \in Seq(Variables \X Int)
  BY DEF IInv, TypeOK
<1>2. \A k \in 1..Len(buf[t]) : buf[t][k][1] = "counter"
  BY DEF IInv, Buffered
<1>3. DOMAIN buf[t] = 1..Len(buf[t])
  BY <1>1
<1>4. Pending(t, v) = {}
  BY <1>2, <1>3 DEF Pending
<1> QED
  BY <1>4 DEF Read

\* The places of a thread after a step are those before, but for the thread itself.
LEMMA OneMoves ==
  ASSUME TypeOK, NEW t \in Threads, NEW from, NEW to, Goes(t, from, to)
  PROVE  /\ prog' = prog /\ pc[t] = from /\ pc'[t] = to
         /\ \A u \in Threads : u # t => pc'[u] = pc[u]
BY DEF TypeOK, Goes

\* Control is kept: only a thread between its iterations leaves or starts one.
LEMMA ControlStep ==
  ASSUME IInv, Next
  PROVE  Control'
<1>1. TypeOK /\ Control
  BY DEF IInv
<1>2. PICK t \in Threads : Step(t) \/ Drain(t)
  BY DEF Next
<1>3. /\ Critical = {"load", "store", "unlock"} /\ Waiting = {"see_flag", "see_turn"}
      /\ Busy = {"turn"} \cup Waiting \cup Critical
  BY DEF Critical, Waiting, Busy
<1>4. ASSUME NEW from, NEW to, Goes(t, from, to), UNCHANGED i, Again(t),
             to \in {"turn"} \cup Waiting => prog \in Peterson
      PROVE  Control'
  <2>1. \A u \in Threads : Again(u)' <=> Again(u)
    BY <1>4 DEF Again
  <2>2. \A u \in Threads :
          /\ pc'[u] \in Busy => Again(u)
          /\ pc'[u] \in {"turn"} \cup Waiting => prog' \in Peterson
    BY <1>1, <1>4, OneMoves DEF Control
  <2> QED
    BY <2>1, <2>2 DEF Control, Busy, Waiting, Critical
<1>5. ASSUME Goes(t, "unlock", "lock") \/ Goes(t, "lock", "done"), \A u \in Threads : u # t => i'[u] = i[u]
      PROVE  Control'
  <2>1. /\ prog' = prog /\ pc'[t] \in {"lock", "done"}
        /\ \A u \in Threads : u # t => pc'[u] = pc[u]
    BY <1>1, <1>5, OneMoves
  <2>2. \A u \in Threads : u # t => (Again(u)' <=> Again(u))
    BY <1>5 DEF Again
  <2>3. pc'[t] \notin Busy
    BY <1>3, <2>1
  <2>4. \A u \in Threads : u # t =>
          /\ pc'[u] \in Busy => Again(u)'
          /\ pc'[u] \in {"turn"} \cup Waiting => prog' \in Peterson
    BY <1>1, <2>1, <2>2 DEF Control
  <2>5. \A u \in Threads :
          /\ pc'[u] \in Busy => Again(u)'
          /\ pc'[u] \in {"turn"} \cup Waiting => prog' \in Peterson
    BY <1>3, <2>3, <2>4
  <2> QED
    BY <2>5 DEF Control, Busy, Waiting, Critical
<1>6. ASSUME NEW from, from \in Busy \/ Again(t), Enters(t, from), UNCHANGED i
      PROVE  Control'
  <2>1. Goes(t, from, "load") /\ pc[t] = from
    BY <1>6 DEF Enters, Goes
  <2>2. Again(t) /\ "load" \notin {"turn"} \cup Waiting
    BY <1>1, <1>3, <1>6, <2>1 DEF Control
  <2> QED
    BY <1>4, <1>6, <2>1, <2>2
<1>7. ASSUME NEW from, NEW to, Goes(t, from, to), from \in Busy
      PROVE  Again(t) /\ (from \in {"turn"} \cup Waiting => prog \in Peterson)
  BY <1>1, <1>7 DEF Control, Goes
<1>8. CASE NoLock(t) \/ Exchange(t) \/ MutexLock(t) \/ SemWait(t) \/ SleepAlone(t)
  <2>1. Again(t) /\ UNCHANGED i
    BY <1>8 DEF NoLock, Exchange, MutexLock, SemWait, SleepAlone
  <2>2. Enters(t, "lock") \/ Goes(t, "lock", "lock") \/ Goes(t, "lock", "asleep")
    BY <1>8 DEF NoLock, Exchange, MutexLock, SemWait, SleepAlone
  <2> QED
    BY <1>3, <1>4, <1>6, <2>1, <2>2
<1>9. CASE RaiseFlag(t)
  BY <1>4, <1>9 DEF RaiseFlag
<1>10. CASE GiveTurn(t)
  BY <1>3, <1>4, <1>7, <1>10 DEF GiveTurn
<1>11. CASE SeeFlag(t) \/ SeeTurn(t)
  <2>1. UNCHANGED i
    BY <1>11 DEF SeeFlag, SeeTurn
  <2>2. \/ Enters(t, "see_flag") \/ Enters(t, "see_turn")
        \/ Goes(t, "see_flag", "see_turn") \/ Goes(t, "see_turn", "see_flag")
    BY <1>11 DEF SeeFlag, SeeTurn
  <2> QED
    BY <1>3, <1>4, <1>6, <1>7, <2>1, <2>2
<1>12. CASE Load(t)
  BY <1>3, <1>4, <1>7, <1>12 DEF Load
<1>13. CASE Store(t)
  BY <1>3, <1>4, <1>7, <1>13 DEF Store
<1>14. CASE Unlock(t)
  <2>1. \A u \in Threads : u # t => i'[u] = i[u]
    BY <1>1, <1>14 DEF Unlock, TypeOK
  <2> QED
    BY <1>5, <1>14, <2>1 DEF Unlock
<1>15. CASE Return(t)
  BY <1>5, <1>15 DEF Return
<1>16. CASE Drain(t)
  BY <1>1, <1>16 DEF Drain, Control, Again
<1> QED
  BY <1>2, <1>8, <1>9, <1>10, <1>11, <1>12, <1>13, <1>14, <1>15, <1>16 DEF Step, Lock

\* Under a lock that works only the counter is stored plainly.
LEMMA BufferedStep ==
  ASSUME IInv, Next
  PROVE  Buffered'
<1>1. TypeOK /\ Buffered
  BY DEF IInv
<1>2. PICK t \in Threads : Step(t) \/ Drain(t)
  BY DEF Next
<1>3. prog' = prog
  BY <1>2 DEF Step, Drain, Lock, NoLock, RaiseFlag, GiveTurn, SeeFlag, SeeTurn, Exchange, MutexLock,
              SleepAlone, SemWait, Load, Store, Unlock, Return, Enters, Goes
<1> SUFFICES ASSUME prog \in Locking
             PROVE  \A u \in Threads : \A k \in 1..Len(buf'[u]) : buf'[u][k][1] = "counter"
  BY <1>3 DEF Buffered
<1>4. \A u \in Threads : /\ buf[u] \in Seq(Variables \X Int)
                         /\ \A k \in 1..Len(buf[u]) : buf[u][k][1] = "counter"
  BY <1>1 DEF Buffered, TypeOK
<1>5. prog # "peterson" /\ prog # "base"
  BY DEF Locking
<1>6. CASE UNCHANGED buf
  BY <1>4, <1>6
<1>7. CASE Store(t)
  <2>1. PICK x : buf' = [buf EXCEPT ![t] = Append(@, <<"counter", x>>)]
    BY <1>7 DEF Store, PlainStore
  <2>2. \A u \in Threads : u # t => buf'[u] = buf[u]
    BY <1>1, <2>1 DEF TypeOK
  <2>3. buf'[t] = Append(buf[t], <<"counter", x>>)
    BY <1>1, <2>1 DEF TypeOK
  <2>4. \A k \in 1..Len(buf'[t]) : buf'[t][k][1] = "counter"
    <3> TAKE k \in 1..Len(buf'[t])
    <3>1. CASE k \in 1..Len(buf[t])
      BY <1>4, <2>3, <3>1
    <3>2. CASE k = Len(buf[t]) + 1
      BY <1>4, <2>3, <3>2
    <3> QED
      BY <1>4, <2>3, <3>1, <3>2
  <2> QED
    BY <1>4, <2>2, <2>4
<1>8. CASE Drain(t)
  <2>1. buf[t] # <<>> /\ buf' = [buf EXCEPT ![t] = Tail(@)]
    BY <1>8 DEF Drain
  <2>2. \A u \in Threads : u # t => buf'[u] = buf[u]
    BY <1>1, <2>1 DEF TypeOK
  <2>3. buf'[t] = Tail(buf[t])
    BY <1>1, <2>1 DEF TypeOK
  <2>4. \A k \in 1..Len(buf'[t]) : k + 1 \in 1..Len(buf[t]) /\ buf'[t][k] = buf[t][k + 1]
    <3>1. buf[t] \in Seq(Variables \X Int)
      BY <1>4
    <3> QED
      BY <2>1, <2>3, <3>1, HeadAndTail
  <2>5. \A k \in 1..Len(buf'[t]) : buf'[t][k][1] = "counter"
    BY <1>4, <2>4
  <2> QED
    BY <1>4, <2>2, <2>5
<1>9. CASE Unlock(t)
  <2>1. Release(t)
    BY <1>9 DEF Unlock
  <2> QED
    BY <1>5, <1>6, <2>1 DEF Release, FlagStore, AtomicStore
<1>10. CASE Lock(t) \/ Load(t) \/ Return(t)
  BY <1>5, <1>6, <1>10 DEF Lock, NoLock, RaiseFlag, GiveTurn, SeeFlag, SeeTurn, Exchange, MutexLock,
                           SleepAlone, SemWait, Load, Return, FlagStore, AtomicStore
<1> QED
  BY <1>2, <1>7, <1>8, <1>9, <1>10 DEF Step

\* The steps that concern no lock variable.
LEMMA QuietStep ==
  ASSUME IInv, prog \in Locking, NEW t \in Threads,
         Load(t) \/ Store(t) \/ Return(t) \/ Drain(t)
  PROVE  /\ prog' = prog /\ passed' = passed
         /\ \A v \in Variables \ {"counter"} : mem'[v] = mem[v]
         /\ \A u \in Threads : /\ pc'[u] \in Critical <=> pc[u] \in Critical
                               /\ pc'[u] \in Busy <=> pc[u] \in Busy
                               /\ pc'[u] \in Waiting <=> pc[u] \in Waiting
<1>1. TypeOK /\ Buffered
  BY DEF IInv
<1>2. CASE Drain(t)
  <2>1. buf[t] # <<>> /\ mem' = [mem EXCEPT ![Head(buf[t])[1]] = Head(buf[t])[2]]
    BY <1>2 DEF Drain
  <2>2. Head(buf[t])[1] = "counter"
    <3>1. buf[t] \in Seq(Variables \X Int)
      BY <1>1 DEF TypeOK
    <3>2. 1 \in 1..Len(buf[t]) /\ Head(buf[t]) = buf[t][1]
      BY <2>1, <3>1, HeadAndTail
    <3> QED
      BY <1>1, <3>2 DEF Buffered
  <2>3. \A v \in Variables \ {"counter"} : mem'[v] = mem[v]
    <3>1. mem \in [Variables -> Int]
      BY <1>1 DEF TypeOK
    <3> QED
      BY <2>1, <2>2, <3>1
  <2> QED
    BY <1>2, <2>3 DEF Drain
<1>3. CASE Load(t) \/ Store(t) \/ Return(t)
  <2>1. Goes(t, "load", "store") \/ Goes(t, "store", "unlock") \/ Goes(t, "lock", "done")
    BY <1>3 DEF Load, Store, Return
  <2>2. UNCHANGED <<mem, passed>>
    BY <1>3 DEF Load, Store, Return, PlainStore
  <2>3. \A u \in Threads : /\ pc'[u] \in Critical <=> pc[u] \in Critical
                           /\ pc'[u] \in Busy <=> pc[u] \in Busy
                           /\ pc'[u] \in Waiting <=> pc[u] \in Waiting
    <3>1. /\ \A u \in Threads : u # t => pc'[u] = pc[u]
          /\ <<pc[t], pc'[t]>> \in {<<"load", "store">>, <<"store", "unlock">>, <<"lock", "done">>}
      BY <1>1, <2>1, OneMoves
    <3> QED
      BY <3>1 DEF Critical, Busy, Waiting
  <2> QED
    BY <2>1, <2>2, <2>3 DEF Goes
<1> QED
  BY <1>2, <1>3
\* What a step on the lock word does.
WordStep(t) ==
  \/ prog \in Spinning \cup Mutexes /\ mem["lock"] = 0 /\ Enters(t, "lock") /\ AtomicStore(t, "lock", 1)
  \/ prog \in Spinning /\ mem["lock"] # 0 /\ Goes(t, "lock", "lock") /\ AtomicStore(t, "lock", 1)
  \/ prog \in Mutexes /\ Goes(t, "lock", "asleep") /\ UNCHANGED mem
  \/ prog \in Semaphores /\ mem["lock"] > 0 /\ Enters(t, "lock") /\ AtomicStore(t, "lock", mem["lock"] - 1)
  \/ prog \in Spinning \cup Mutexes /\ Goes(t, "unlock", "lock") /\ AtomicStore(t, "lock", 0)
  \/ prog \in Semaphores /\ Goes(t, "unlock", "lock") /\ AtomicStore(t, "lock", mem["lock"] + 1)

\* What a step on the flags and the turn does in 03_peterson_atomic.c.
PetersonStep(t) ==
  \/ Goes(t, "lock", "turn") /\ AtomicStore(t, FlagOf(t), 1) /\ UNCHANGED passed
  \/ /\ Goes(t, "turn", "see_flag") /\ AtomicStore(t, "turn", Other(t))
     /\ passed' = [passed EXCEPT ![t] = 0]
  \/ mem[FlagOf(Other(t))] = 0 /\ Enters(t, "see_flag") /\ UNCHANGED mem
  \/ mem["turn"] # Other(t) /\ Enters(t, "see_turn") /\ UNCHANGED mem
  \/ Goes(t, "see_flag", "see_turn") /\ UNCHANGED <<mem, passed>>
  \/ Goes(t, "see_turn", "see_flag") /\ UNCHANGED <<mem, passed>>
  \/ Goes(t, "unlock", "lock") /\ AtomicStore(t, FlagOf(t), 0) /\ UNCHANGED passed

\* The other steps of a lock that works: on the lock word, or on flags and turn.
LEMMA LoudStep ==
  ASSUME IInv, prog \in Locking, NEW t \in Threads, Lock(t) \/ Unlock(t)
  PROVE  \/ prog \in Spinning \cup Mutexes \cup Semaphores /\ WordStep(t)
         \/ prog = "peterson_atomic" /\ PetersonStep(t)
<1>1. /\ prog \in Spinning => prog \notin Peterson \cup Mutexes \cup Semaphores
      /\ prog \in Mutexes => prog \notin Peterson \cup Spinning \cup Semaphores
      /\ prog \in Semaphores => prog \notin Peterson \cup Spinning \cup Mutexes
      /\ prog \in Peterson => prog = "peterson_atomic"
      /\ prog # "base" /\ prog # "peterson"
      /\ prog = "mutex_in_shm" => prog \in Mutexes
  BY DEF Locking, Peterson, Mutexes, Semaphores, Spinning
<1>2. /\ pc[t] \in {"turn"} \cup Waiting => prog \in Peterson
      /\ prog \in Peterson \cup Spinning \cup Mutexes \cup Semaphores
  BY DEF IInv, Control, Locking, Programs
<1>3. \A v \in Variables, x \in Int : FlagStore(t, v, x) => AtomicStore(t, v, x)
  BY <1>1 DEF FlagStore
<1>4. CASE Unlock(t)
  BY <1>1, <1>2, <1>3, <1>4, ThreadPairs DEF Unlock, Release, WordStep, PetersonStep
<1>5. CASE NoLock(t)
  BY <1>1, <1>5 DEF NoLock
<1>6. CASE RaiseFlag(t)
  BY <1>1, <1>3, <1>6, ThreadPairs DEF RaiseFlag, PetersonStep
<1>7. CASE GiveTurn(t)
  <2>1. pc[t] = "turn" /\ "turn" \in Variables /\ Other(t) \in Int
    BY <1>7 DEF GiveTurn, Goes, Variables, Threads, Other
  <2> QED
    BY <1>1, <1>2, <1>3, <1>7, <2>1 DEF GiveTurn, PetersonStep
<1>8. CASE SeeFlag(t)
  <2>1. Read(t, FlagOf(Other(t))) = mem[FlagOf(Other(t))]
    BY ThreadPairs, ReadsMemory
  <2>2. pc[t] \in Waiting
    BY <1>8 DEF SeeFlag, Enters, Goes, Waiting
  <2> QED
    BY <1>1, <1>2, <1>8, <2>1, <2>2 DEF SeeFlag, PetersonStep
<1>9. CASE SeeTurn(t)
  <2>1. Read(t, "turn") = mem["turn"]
    BY ReadsMemory DEF Variables
  <2>2. pc[t] \in Waiting
    BY <1>9 DEF SeeTurn, Enters, Goes, Waiting
  <2> QED
    BY <1>1, <1>2, <1>9, <2>1, <2>2 DEF SeeTurn, PetersonStep
<1>10. CASE Exchange(t) \/ MutexLock(t) \/ SleepAlone(t) \/ SemWait(t)
  BY <1>1, <1>10 DEF Exchange, MutexLock, SleepAlone, SemWait, WordStep
<1> QED
  BY <1>4, <1>5, <1>6, <1>7, <1>8, <1>9, <1>10 DEF Lock
\* Where the two threads are after a step.
LEMMA MovesTo ==
  ASSUME TypeOK, NEW t \in Threads, NEW from, NEW to, Goes(t, from, to)
  PROVE  pc[t] = from /\ pc'[t] = to /\ pc'[Other(t)] = pc[Other(t)]
BY OneMoves, ThreadPairs

\* The lock word keeps telling whether a thread is in its critical section.
LEMMA LockWordStep ==
  ASSUME IInv, Next
  PROVE  LockWord'
<1>1. TypeOK /\ LockWord
  BY DEF IInv
<1>2. PICK t \in Threads : Step(t) \/ Drain(t)
  BY DEF Next
<1> DEFINE Words == Spinning \cup Mutexes \cup Semaphores
<1>3. prog' = prog
  BY <1>2 DEF Step, Drain, Lock, NoLock, RaiseFlag, GiveTurn, SeeFlag, SeeTurn, Exchange, MutexLock,
              SleepAlone, SemWait, Load, Store, Unlock, Return, Enters, Goes
<1>4. CASE prog \notin Words
  BY <1>3, <1>4 DEF LockWord
<1>5. CASE prog \in Words
  <2>1. prog \in Locking /\ (prog \in Semaphores => prog \notin Spinning \cup Mutexes)
    BY <1>5 DEF Locking, Programs, Spinning, Mutexes, Semaphores
  <2>2. /\ ~ (pc[t] \in Critical /\ pc[Other(t)] \in Critical)
        /\ prog \in Spinning \cup Mutexes =>
             /\ pc[t] \in Critical \/ pc[Other(t)] \in Critical => mem["lock"] = 1
             /\ ~ (pc[t] \in Critical \/ pc[Other(t)] \in Critical) => mem["lock"] = 0
        /\ prog \in Semaphores =>
             /\ pc[t] \in Critical \/ pc[Other(t)] \in Critical => mem["lock"] = 0
             /\ ~ (pc[t] \in Critical \/ pc[Other(t)] \in Critical) => mem["lock"] = 1
    BY <1>1, <1>5, ThreadPairs DEF LockWord, Alone
  <2>3. /\ ~ (pc'[t] \in Critical /\ pc'[Other(t)] \in Critical)
        /\ prog \in Spinning \cup Mutexes =>
             /\ pc'[t] \in Critical \/ pc'[Other(t)] \in Critical => mem'["lock"] = 1
             /\ ~ (pc'[t] \in Critical \/ pc'[Other(t)] \in Critical) => mem'["lock"] = 0
        /\ prog \in Semaphores =>
             /\ pc'[t] \in Critical \/ pc'[Other(t)] \in Critical => mem'["lock"] = 0
             /\ ~ (pc'[t] \in Critical \/ pc'[Other(t)] \in Critical) => mem'["lock"] = 1
    <3>1. CASE Load(t) \/ Store(t) \/ Return(t) \/ Drain(t)
      <4>1. mem'["lock"] = mem["lock"]
        BY <2>1, <3>1, QuietStep DEF Variables
      <4>2. \A u \in Threads : pc'[u] \in Critical <=> pc[u] \in Critical
        BY <2>1, <3>1, QuietStep
      <4> QED
        BY <2>2, <4>1, <4>2, ThreadPairs
    <3>2. CASE Lock(t) \/ Unlock(t)
      <4>1. WordStep(t)
        <5>1. prog # "peterson_atomic"
          BY <1>5 DEF Spinning, Mutexes, Semaphores
        <5> QED
          BY <2>1, <3>2, <5>1, LoudStep
      <4>2. /\ \A x : AtomicStore(t, "lock", x) => mem'["lock"] = x
            /\ UNCHANGED mem => mem'["lock"] = mem["lock"]
        BY <1>1 DEF AtomicStore, TypeOK, Variables
      <4>3. \A from, to : Goes(t, from, to) =>
              pc[t] = from /\ pc'[t] = to /\ pc'[Other(t)] = pc[Other(t)]
        BY <1>1, MovesTo
      <4>4. \A from : Enters(t, from) => Goes(t, from, "load")
        BY DEF Enters
      <4> QED
        BY <2>1, <2>2, <4>1, <4>2, <4>3, <4>4 DEF WordStep, Critical
    <3> QED
      BY <1>2, <3>1, <3>2 DEF Step
  <2>4. /\ Alone'
        /\ (\E u \in Threads : pc'[u] \in Critical) <=> (pc'[t] \in Critical \/ pc'[Other(t)] \in Critical)
    BY <2>3, ThreadPairs DEF Alone, Threads, Critical
  <2>5. prog \in Spinning \cup Mutexes =>
          mem'["lock"] = IF \E u \in Threads : pc'[u] \in Critical THEN 1 ELSE 0
    BY <2>3, <2>4
  <2>6. prog \in Semaphores =>
          mem'["lock"] = IF \E u \in Threads : pc'[u] \in Critical THEN 0 ELSE 1
    BY <2>3, <2>4
  <2> QED
    BY <1>3, <2>4, <2>5, <2>6 DEF LockWord, Critical, Threads, Spinning, Mutexes, Semaphores
<1> QED
  BY <1>4, <1>5
\* Peterson's lock and its bound on being passed are kept together: one of two
\* waiting threads has the turn, and only that one can enter.
LEMMA PetersonKept ==
  ASSUME IInv, Next
  PROVE  PetersonLock' /\ Passing'
<1>1. TypeOK /\ PetersonLock /\ Passing
  BY DEF IInv
<1>2. PICK t \in Threads : Step(t) \/ Drain(t)
  BY DEF Next
<1>3. prog' = prog
  BY <1>2 DEF Step, Drain, Lock, NoLock, RaiseFlag, GiveTurn, SeeFlag, SeeTurn, Exchange, MutexLock,
              SleepAlone, SemWait, Load, Store, Unlock, Return, Enters, Goes
<1>4. CASE prog # "peterson_atomic"
  BY <1>3, <1>4 DEF PetersonLock, Passing
<1>5. CASE prog = "peterson_atomic"
  <2>1. prog \in Locking
    BY <1>5 DEF Locking, Programs, Peterson
  <2> DEFINE o == Other(t)
  <2>2. /\ o \in Threads /\ o # t /\ Other(o) = t /\ FlagOf(t) # FlagOf(o)
        /\ FlagOf(t) \in Variables \ {"counter", "turn", "lock"}
        /\ FlagOf(o) \in Variables \ {"counter", "turn", "lock"}
        /\ \A u \in Threads : u = t \/ u = o
    BY ThreadPairs
  <2>3. mem \in [Variables -> Int] /\ passed \in [Threads -> Nat] /\ "turn" \in Variables
    BY <1>1 DEF TypeOK, Variables
  <2>4. /\ ~ (pc[t] \in Critical /\ pc[o] \in Critical)
        /\ mem["turn"] = t \/ mem["turn"] = o
        /\ \A u \in {t, o} : /\ pc[u] \in Busy => mem[FlagOf(u)] = 1
                             /\ pc[u] \notin Busy => mem[FlagOf(u)] = 0
        /\ pc[t] \in Critical /\ pc[o] \in Waiting => mem["turn"] = t
        /\ pc[o] \in Critical /\ pc[t] \in Waiting => mem["turn"] = o
    BY <1>1, <1>5, <2>2 DEF PetersonLock, Alone
  <2>5. /\ pc[t] \in Waiting => /\ passed[t] <= 1
                                /\ passed[t] = 1 /\ mem["turn"] = o => pc[o] \notin Waiting
        /\ pc[o] \in Waiting => /\ passed[o] <= 1
                                /\ passed[o] = 1 /\ mem["turn"] = t => pc[t] \notin Waiting
    BY <1>1, <1>5, <2>2 DEF Passing
  <2>6. /\ mem'["turn"] = t \/ mem'["turn"] = o
        /\ ~ (pc'[t] \in Critical /\ pc'[o] \in Critical)
        /\ \A u \in {t, o} : /\ pc'[u] \in Busy => mem'[FlagOf(u)] = 1
                             /\ pc'[u] \notin Busy => mem'[FlagOf(u)] = 0
        /\ pc'[t] \in Critical /\ pc'[o] \in Waiting => mem'["turn"] = t
        /\ pc'[o] \in Critical /\ pc'[t] \in Waiting => mem'["turn"] = o
        /\ pc'[t] \in Waiting => /\ passed'[t] <= 1
                                 /\ passed'[t] = 1 /\ mem'["turn"] = o => pc'[o] \notin Waiting
        /\ pc'[o] \in Waiting => /\ passed'[o] <= 1
                                 /\ passed'[o] = 1 /\ mem'["turn"] = t => pc'[t] \notin Waiting
    <3>1. CASE Load(t) \/ Store(t) \/ Return(t) \/ Drain(t)
      <4>1. /\ mem'["turn"] = mem["turn"] /\ mem'[FlagOf(t)] = mem[FlagOf(t)]
            /\ mem'[FlagOf(o)] = mem[FlagOf(o)] /\ passed' = passed
        BY <2>1, <2>2, <2>3, <3>1, QuietStep
      <4>2. \A u \in {t, o} : /\ pc'[u] \in Critical <=> pc[u] \in Critical
                              /\ pc'[u] \in Busy <=> pc[u] \in Busy
                              /\ pc'[u] \in Waiting <=> pc[u] \in Waiting
        BY <2>1, <2>2, <3>1, QuietStep
      <4> QED
        BY <2>4, <2>5, <4>1, <4>2
    <3>2. CASE Lock(t) \/ Unlock(t)
      <4> HIDE DEF o
      <4>1. PetersonStep(t)
        <5>1. prog \notin Spinning \cup Mutexes \cup Semaphores
          BY <1>5 DEF Spinning, Mutexes, Semaphores
        <5> QED
          BY <2>1, <3>2, <5>1, LoudStep
      <4>2. \A from, to : Goes(t, from, to) => pc[t] = from /\ pc'[t] = to /\ pc'[o] = pc[o]
        BY <1>1, MovesTo DEF o
      <4>3. \A from : Enters(t, from) =>
              /\ pc[t] = from /\ pc'[t] = "load" /\ pc'[o] = pc[o]
              /\ passed'[t] = passed[t]
              /\ pc[o] \in Waiting => passed'[o] = passed[o] + 1
        BY <2>2, <2>3, <4>2 DEF Enters, o
      <4>4. /\ \A x : AtomicStore(t, FlagOf(t), x) =>
                 mem'[FlagOf(t)] = x /\ mem'[FlagOf(o)] = mem[FlagOf(o)] /\ mem'["turn"] = mem["turn"]
            /\ \A x : AtomicStore(t, "turn", x) =>
                 /\ mem'["turn"] = x
                 /\ mem'[FlagOf(t)] = mem[FlagOf(t)] /\ mem'[FlagOf(o)] = mem[FlagOf(o)]
        BY <2>2, <2>3 DEF AtomicStore
      <4>5. /\ "load" \in Critical /\ "unlock" \in Critical
            /\ {"see_flag", "see_turn"} = Waiting
            /\ Busy = {"turn"} \cup Waiting \cup Critical
            /\ Critical \cap ({"lock", "turn"} \cup Waiting) = {} /\ "lock" \notin Busy
            /\ "turn" \notin Waiting
        BY DEF Critical, Waiting, Busy
      <4>6. o # t /\ passed[t] \in Nat /\ passed[o] \in Nat
        BY <2>2, <2>3
      <4> HIDE <1>1, <1>2, <1>3, <1>5
      <4>7. CASE Goes(t, "lock", "turn") /\ AtomicStore(t, FlagOf(t), 1) /\ UNCHANGED passed
        BY <2>4, <2>5, <4>2, <4>4, <4>5, <4>6, <4>7
      <4>8. CASE /\ Goes(t, "turn", "see_flag") /\ AtomicStore(t, "turn", Other(t))
                 /\ passed' = [passed EXCEPT ![t] = 0]
        <5>1. /\ pc[t] = "turn" /\ pc'[t] = "see_flag" /\ pc'[o] = pc[o]
              /\ mem'["turn"] = o /\ mem'[FlagOf(t)] = mem[FlagOf(t)] /\ mem'[FlagOf(o)] = mem[FlagOf(o)]
          BY <4>2, <4>4, <4>8 DEF o
        <5>2. passed'[t] = 0 /\ passed'[o] = passed[o]
          BY <2>2, <2>3, <4>8
        <5> QED
          BY <2>4, <2>5, <4>5, <4>6, <5>1, <5>2
      <4>9. CASE mem[FlagOf(Other(t))] = 0 /\ Enters(t, "see_flag") /\ UNCHANGED mem
        BY <2>4, <2>5, <4>3, <4>5, <4>6, <4>9 DEF o
      <4>10. CASE mem["turn"] # Other(t) /\ Enters(t, "see_turn") /\ UNCHANGED mem
        <5>1. mem["turn"] # o /\ mem' = mem
          BY <4>10 DEF o
        <5>2. /\ pc[t] = "see_turn" /\ pc'[t] = "load" /\ pc'[o] = pc[o]
              /\ passed'[t] = passed[t]
              /\ pc[o] \in Waiting => passed'[o] = passed[o] + 1
          BY <4>3, <4>10
        <5>3. pc[o] \in Waiting => passed[o] = 0
          BY <2>4, <2>5, <4>5, <4>6, <5>1, <5>2
        <5> QED
          BY <2>4, <2>5, <4>5, <4>6, <5>1, <5>2, <5>3
      <4>11. CASE (Goes(t, "see_flag", "see_turn") \/ Goes(t, "see_turn", "see_flag"))
                  /\ UNCHANGED <<mem, passed>>
        BY <2>4, <2>5, <4>2, <4>5, <4>6, <4>11
      <4>12. CASE Goes(t, "unlock", "lock") /\ AtomicStore(t, FlagOf(t), 0) /\ UNCHANGED passed
        BY <2>4, <2>5, <4>2, <4>4, <4>5, <4>6, <4>12
      <4> QED
        BY <4>1, <4>7, <4>8, <4>9, <4>10, <4>11, <4>12 DEF PetersonStep
    <3> QED
      BY <1>2, <3>1, <3>2 DEF Step
  <2>7. Alone' /\ mem'["turn"] \in Threads
    BY <2>2, <2>6 DEF Alone, Threads, Critical
  <2>8. \A u \in Threads :
          /\ mem'[FlagOf(u)] = IF pc'[u] \in Busy THEN 1 ELSE 0
          /\ pc'[u] \in Critical /\ pc'[Other(u)] \in Waiting => mem'["turn"] = u
          /\ pc'[u] \in Waiting =>
               /\ passed'[u] <= 1
               /\ passed'[u] = 1 /\ mem'["turn"] = Other(u) => pc'[Other(u)] \notin Waiting
    BY <2>2, <2>6
  <2> HIDE DEF o
  <2> QED
    BY <1>3, <1>5, <2>7, <2>8 DEF PetersonLock, Passing, FlagOf, Flag, Other, Busy, Waiting, Critical, Threads
<1> QED
  BY <1>4, <1>5

\* The strengthened invariant is kept by every step.
LEMMA NextInv == IInv /\ [Next]_vars => IInv'
<1> SUFFICES ASSUME IInv, [Next]_vars PROVE IInv'
  OBVIOUS
<1>1. CASE Next
  BY <1>1, TypeStep, ControlStep, BufferedStep, LockWordStep, PetersonKept DEF IInv
<1>2. CASE UNCHANGED vars
  BY <1>2 DEF vars, IInv, TypeOK, Control, Again, Buffered, LockWord, Alone, PetersonLock, Passing
<1> QED
  BY <1>1, <1>2

\* The strengthened invariant holds in every state.
THEOREM Invariance == Spec => []IInv
<1>1. Init => IInv
  BY InitInv
<1>2. IInv /\ [Next]_vars => IInv'
  BY NextInv
<1> QED
  BY <1>1, <1>2, PTL DEF Spec

\* Threads, registers, memory and store buffers keep their types, in every one of
\* the nine programs.
THEOREM TypeCorrect == Spec => []TypeOK
<1>1. IInv => TypeOK
  BY DEF IInv
<1> QED
  BY <1>1, Invariance, PTL

\* lock() of every program but 01_base.c and 02_peterson.c keeps the updates of the
\* counter apart, for any number of iterations.
THEOREM LocksExclude == Spec => []MutualExclusion
<1>1. IInv => MutualExclusion
  <2> SUFFICES ASSUME IInv, prog \in Locking PROVE Alone
    BY DEF MutualExclusion, Alone
  <2>1. prog \in Spinning \cup Mutexes \cup Semaphores \cup {"peterson_atomic"}
    BY DEF Locking, Programs, Peterson
  <2> QED
    BY <2>1 DEF IInv, LockWord, PetersonLock
<1> QED
  BY <1>1, Invariance, PTL

\* A thread that waits in lock() of 03_peterson_atomic.c is passed at most once.
THEOREM PetersonIsFair == Spec => []PassedOnce
<1>1. IInv => PassedOnce
  BY DEF IInv, Passing, PassedOnce
<1> QED
  BY <1>1, Invariance, PTL

-----------------------------------------------------------------------------
(* The counter *)

\* The updates of the counter that t has stored, in its buffer or in memory.
Updates(t) == i[t] + (IF pc[t] = "unlock" THEN 1 ELSE 0)

\* What the counter can be worth after so many increments and decrements,
\* however many of them were lost.
Reachable == -Updates(1)..Updates(0)

Bounded ==
  /\ mem["counter"] \in Reachable
  /\ \A t \in Threads : pc[t] = "store" => reg[t] \in Reachable
  /\ \A t \in Threads : \A k \in 1..Len(buf[t]) :
       buf[t][k][1] = "counter" => buf[t][k][2] \in Reachable

\* What the counter is worth when no update is lost.
Net == Updates(0) - Updates(1)

\* Under a lock that works the value is in one place: in the register of the
\* thread about to store it, in its buffer, or in memory.
Exact ==
  prog \in Locking =>
    /\ \A t \in Threads : /\ pc[t] = "store" => reg[t] = Net
                          /\ pc[t] # "unlock" => buf[t] = <<>>
                          /\ buf[t] # <<>> => Len(buf[t]) = 1 /\ buf[t][1][2] = Net
    /\ (\A t \in Threads : buf[t] = <<>>) => mem["counter"] = Net

\* A thread returns when its loop is over.
Finished == \A t \in Threads : pc[t] = "done" => i[t] = Iterations

CounterInv == Bounded /\ Exact /\ Finished

\* The updates are counted by natural numbers.
LEMMA UpdatesAreNat ==
  ASSUME TypeOK
  PROVE  /\ \A t \in Threads : Updates(t) \in Nat
         /\ Net \in Int /\ 0 \in Threads /\ 1 \in Threads
<1>1. \A t \in Threads : i[t] \in Nat
  BY IterationsAssumption DEF TypeOK
<1>2. \A t \in Threads : Updates(t) \in Nat
  BY <1>1 DEF Updates
<1> QED
  BY <1>2 DEF Net, Threads

\* Locking, unlocking and returning leave the counter alone; under a lock that
\* works the buffer is empty when the lock is released.
LEMMA CounterRests ==
  ASSUME IInv, NEW t \in Threads, Lock(t) \/ Unlock(t) \/ Return(t)
  PROVE  /\ prog' = prog /\ mem'["counter"] = mem["counter"] /\ reg' = reg
         /\ \A u \in Threads : /\ Updates(u)' = Updates(u)
                               /\ pc'[u] = "store" => pc[u] = "store"
                               /\ pc'[u] = "unlock" => pc[u] = "unlock"
                               /\ pc[u] = "unlock" /\ pc'[u] # "unlock" => u = t /\ Unlock(t)
                               /\ \A k \in 1..Len(buf'[u]) : buf'[u][k][1] = "counter" =>
                                    k \in 1..Len(buf[u]) /\ buf'[u][k] = buf[u][k]
         /\ prog \in Locking => buf' = buf /\ (Unlock(t) => buf[t] = <<>>)
<1>1. TypeOK /\ Control
  BY DEF IInv
<1>2. /\ mem \in [Variables -> Int] /\ i \in [Threads -> 0..Iterations]
      /\ \A u \in Threads : buf[u] \in Seq(Variables \X Int) /\ i[u] \in Int
      /\ FlagOf(t) \in Variables /\ FlagOf(t) # "counter"
      /\ buf \in [Threads -> Seq(Variables \X Int)]
  BY <1>1, ThreadPairs, IterationsAssumption DEF TypeOK
<1> DEFINE Plain == \E v \in Variables \ {"counter"}, x \in Int : PlainStore(t, v, x)
           Atomic == \E v \in Variables \ {"counter"} : \E x : AtomicStore(t, v, x)
<1>3. \A v \in Variables \ {"counter"}, x \in Int : FlagStore(t, v, x) =>
        (prog = "peterson" /\ Plain) \/ Atomic
  BY DEF FlagStore
<1>4. \/ UNCHANGED <<mem, buf>> /\ (Unlock(t) => prog = "base")
      \/ prog = "peterson" /\ Plain
      \/ Atomic
  <2>1. "turn" \in Variables \ {"counter"} /\ "lock" \in Variables \ {"counter"}
        /\ Other(t) \in Int /\ FlagOf(t) \in Variables \ {"counter"}
    BY <1>2 DEF Variables, Other, Threads
  <2> HIDE DEF Plain
  <2>2. CASE Unlock(t)
    BY <1>3, <2>1, <2>2 DEF Unlock, Release
  <2>3. CASE (Lock(t) \/ Return(t)) /\ ~Unlock(t)
    BY <1>3, <2>1, <2>3 DEF Lock, NoLock, RaiseFlag, GiveTurn, SeeFlag, SeeTurn, Exchange, MutexLock,
                     SleepAlone, SemWait, Return
  <2> QED
    BY <2>2, <2>3
<1>5. mem'["counter"] = mem["counter"]
  BY <1>2, <1>4 DEF PlainStore, AtomicStore, Variables
<1>6. prog' = prog /\ reg' = reg
  BY DEF Lock, NoLock, RaiseFlag, GiveTurn, SeeFlag, SeeTurn, Exchange, MutexLock,
         SleepAlone, SemWait, Unlock, Return, Enters, Goes
<1>7. prog \in Locking => buf' = buf /\ (Unlock(t) => buf[t] = <<>>)
  BY <1>4 DEF Locking, AtomicStore
<1>8. \A u \in Threads : \A k \in 1..Len(buf'[u]) : buf'[u][k][1] = "counter" =>
        k \in 1..Len(buf[u]) /\ buf'[u][k] = buf[u][k]
  <2>1. CASE buf' = buf
    BY <2>1
  <2>2. CASE Plain
    <3>1. PICK v \in Variables \ {"counter"}, x \in Int : buf' = [buf EXCEPT ![t] = Append(@, <<v, x>>)]
      BY <2>2 DEF PlainStore
    <3>2. /\ buf'[t] = Append(buf[t], <<v, x>>)
          /\ \A u \in Threads : u # t => buf'[u] = buf[u]
      BY <1>2, <3>1
    <3>3. ASSUME NEW k \in 1..Len(buf'[t]), buf'[t][k][1] = "counter"
          PROVE  k \in 1..Len(buf[t]) /\ buf'[t][k] = buf[t][k]
      <4>1. buf[t] \in Seq(Variables \X Int) /\ <<v, x>> \in Variables \X Int
        BY <1>2
      <4>2. k = Len(buf[t]) + 1 => buf'[t][k] = <<v, x>>
        BY <3>2, <4>1
      <4>3. k # Len(buf[t]) + 1
        BY <3>3, <4>2
      <4> QED
        BY <3>2, <3>3, <4>1, <4>3
    <3> QED
      BY <3>2, <3>3
  <2> QED
    BY <1>4, <2>1, <2>2 DEF AtomicStore
<1>9. CASE Unlock(t)
  <2>1. /\ pc[t] = "unlock" /\ pc'[t] = "lock" /\ i'[t] = i[t] + 1
        /\ \A u \in Threads : u # t => pc'[u] = pc[u] /\ i'[u] = i[u]
    <3>1. Goes(t, "unlock", "lock") /\ i' = [i EXCEPT ![t] = @ + 1]
      BY <1>9 DEF Unlock
    <3>2. pc[t] = "unlock" /\ pc'[t] = "lock" /\ \A u \in Threads : u # t => pc'[u] = pc[u]
      BY <1>1, <3>1, OneMoves
    <3>3. i'[t] = i[t] + 1 /\ \A u \in Threads : u # t => i'[u] = i[u]
      BY <1>2, <3>1
    <3> QED
      BY <3>2, <3>3
  <2>2. \A u \in Threads : Updates(u)' = Updates(u)
    <3>1. i[t] \in Int
      BY <1>2
    <3>2. Updates(t)' = Updates(t)
      BY <2>1, <3>1 DEF Updates
    <3>3. \A u \in Threads : u # t => Updates(u)' = Updates(u)
      BY <2>1, Zenon DEF Updates
    <3> QED
      BY <3>2, <3>3
  <2> QED
    BY <1>5, <1>6, <1>7, <1>8, <1>9, <2>1, <2>2
<1>10. CASE Lock(t) \/ Return(t)
  <2>1. /\ i' = i
        /\ \E from, to : Goes(t, from, to) /\ from # "unlock" /\ to \notin {"store", "unlock"}
    BY <1>10 DEF Lock, NoLock, RaiseFlag, GiveTurn, SeeFlag, SeeTurn, Exchange, MutexLock,
                 SleepAlone, SemWait, Return, Enters
  <2>2. /\ pc[t] # "unlock" /\ pc'[t] \notin {"store", "unlock"}
        /\ \A u \in Threads : u # t => pc'[u] = pc[u]
    BY <1>1, <2>1, OneMoves
  <2>3. \A u \in Threads : Updates(u)' = Updates(u)
    BY <2>1, <2>2 DEF Updates
  <2> QED
    BY <1>5, <1>6, <1>7, <1>8, <2>2, <2>3
<1> QED
  BY <1>9, <1>10

\* What a thread reads of the counter was stored: in memory or in its buffer.
LEMMA ReadIsReachable ==
  ASSUME TypeOK, Bounded, NEW t \in Threads
  PROVE  Read(t, "counter") \in Reachable
<1>1. buf[t] \in Seq(Variables \X Int)
  BY DEF TypeOK
<1>2. /\ Pending(t, "counter") \subseteq 1..Len(buf[t]) /\ Len(buf[t]) \in Nat
      /\ \A k \in Pending(t, "counter") : buf[t][k][1] = "counter"
  BY <1>1 DEF Pending
<1>3. CASE Pending(t, "counter") = {}
  BY <1>3 DEF Read, Bounded
<1>4. CASE Pending(t, "counter") # {}
  <2> DEFINE k == CHOOSE j \in Pending(t, "counter") : \A l \in Pending(t, "counter") : l <= j
  <2>1. k \in Pending(t, "counter")
    BY <1>2, <1>4, LastPosition
  <2>2. buf[t][k][2] \in Reachable
    BY <1>2, <2>1 DEF Bounded
  <2> QED
    BY <1>4, <2>2 DEF Read
<1> QED
  BY <1>3, <1>4

\* A store of the counter is one more update of its thread.
LEMMA StoreCounts ==
  ASSUME TypeOK, NEW t \in Threads, Store(t)
  PROVE  /\ prog' = prog /\ mem' = mem /\ reg' = reg /\ i' = i
         /\ pc[t] = "store" /\ pc'[t] = "unlock" /\ pc'[Other(t)] = pc[Other(t)]
         /\ Updates(t)' = Updates(t) + 1 /\ Updates(Other(t))' = Updates(Other(t))
         /\ Net' = Net + (IF t = 0 THEN 1 ELSE -1)
         /\ buf'[Other(t)] = buf[Other(t)]
         /\ buf'[t] = Append(buf[t], <<"counter", IF t = 0 THEN reg[t] + 1 ELSE reg[t] - 1>>)
<1>1. /\ prog' = prog /\ mem' = mem /\ reg' = reg /\ i' = i
      /\ pc[t] = "store" /\ pc'[t] = "unlock" /\ pc'[Other(t)] = pc[Other(t)]
  BY OneMoves, ThreadPairs DEF Store, PlainStore
<1>2. /\ buf'[Other(t)] = buf[Other(t)]
      /\ buf'[t] = Append(buf[t], <<"counter", IF t = 0 THEN reg[t] + 1 ELSE reg[t] - 1>>)
  BY ThreadPairs DEF Store, PlainStore, TypeOK
<1>3. i[t] \in Int /\ i[Other(t)] \in Int
  BY ThreadPairs, IterationsAssumption DEF TypeOK
<1>4. Updates(t)' = Updates(t) + 1
  BY <1>1, <1>3 DEF Updates
<1>5. Updates(Other(t))' = Updates(Other(t))
  BY <1>1, <1>3 DEF Updates, Other
<1>6. /\ (t = 0 /\ Other(t) = 1) \/ (t = 1 /\ Other(t) = 0)
      /\ Updates(0) \in Int /\ Updates(1) \in Int
  <2>1. Updates(0) \in Nat /\ Updates(1) \in Nat
    BY UpdatesAreNat
  <2>2. (t = 0 /\ Other(t) = 1) \/ (t = 1 /\ Other(t) = 0)
    BY TwoThreads
  <2> QED
    BY <2>1, <2>2
<1>7. Net' = Net + (IF t = 0 THEN 1 ELSE -1)
  <2>1. CASE t = 0 /\ Other(t) = 1
    <3>1. Updates(0)' = Updates(0) + 1 /\ Updates(1)' = Updates(1)
      BY <1>4, <1>5, <2>1 DEF Updates
    <3> QED
      BY <1>6, <2>1, <3>1 DEF Net
  <2>2. CASE t = 1 /\ Other(t) = 0
    <3>1. Updates(1)' = Updates(1) + 1 /\ Updates(0)' = Updates(0)
      BY <1>4, <1>5, <2>2 DEF Updates
    <3> QED
      BY <1>6, <2>2, <3>1 DEF Net
  <2> QED
    BY <1>6, <2>1, <2>2
<1> QED
  BY <1>1, <1>2, <1>4, <1>5, <1>7

\* The counter stays within the updates made: a lost update is only ever
\* replaced by a value that was reached before.
LEMMA BoundedStep ==
  ASSUME IInv, Bounded, NEW t \in Threads, Step(t) \/ Drain(t)
  PROVE  Bounded'
<1>1. TypeOK
  BY DEF IInv
<1>2. /\ mem \in [Variables -> Int] /\ "counter" \in Variables /\ reg \in [Threads -> Int]
      /\ buf \in [Threads -> Seq(Variables \X Int)]
      /\ \A u \in Threads : buf[u] \in Seq(Variables \X Int)
  BY <1>1 DEF TypeOK, Variables
<1>3. /\ mem["counter"] \in Reachable
      /\ \A u \in Threads : pc[u] = "store" => reg[u] \in Reachable
      /\ \A u \in Threads : \A k \in 1..Len(buf[u]) :
           buf[u][k][1] = "counter" => buf[u][k][2] \in Reachable
  BY DEF Bounded
<1>4. ASSUME Updates(0)' = Updates(0), Updates(1)' = Updates(1)
      PROVE  Reachable' = Reachable
  BY <1>4 DEF Reachable
<1>5. CASE Lock(t) \/ Unlock(t) \/ Return(t)
  <2>1. /\ mem'["counter"] = mem["counter"] /\ reg' = reg
        /\ \A u \in Threads : /\ pc'[u] = "store" => pc[u] = "store"
                              /\ \A k \in 1..Len(buf'[u]) : buf'[u][k][1] = "counter" =>
                                   k \in 1..Len(buf[u]) /\ buf'[u][k] = buf[u][k]
    BY <1>5, CounterRests
  <2>2. Updates(0)' = Updates(0) /\ Updates(1)' = Updates(1)
    BY <1>1, <1>5, CounterRests, UpdatesAreNat
  <2>3. Reachable' = Reachable
    BY <1>4, <2>2
  <2> QED
    BY <1>3, <2>1, <2>3, Zenon DEF Bounded
<1>6. CASE Load(t)
  <2>1. /\ pc[t] = "load" /\ pc'[t] = "store" /\ \A u \in Threads : u # t => pc'[u] = pc[u]
        /\ mem' = mem /\ buf' = buf /\ i' = i
    BY <1>1, <1>6, OneMoves DEF Load
  <2>2. reg'[t] = Read(t, "counter") /\ \A u \in Threads : u # t => reg'[u] = reg[u]
    BY <1>2, <1>6 DEF Load
  <2>3. \A u \in Threads : Updates(u)' = Updates(u)
    BY <2>1 DEF Updates
  <2>4. Reachable' = Reachable
    BY <1>1, <1>4, <2>3, UpdatesAreNat
  <2>5. reg'[t] \in Reachable
    BY <1>1, <2>2, ReadIsReachable
  <2> QED
    BY <1>3, <2>1, <2>2, <2>4, <2>5, Zenon DEF Bounded
<1>7. CASE Store(t)
  <2>1. /\ mem' = mem /\ reg' = reg /\ pc[t] = "store" /\ pc'[t] = "unlock"
        /\ pc'[Other(t)] = pc[Other(t)] /\ buf'[Other(t)] = buf[Other(t)]
        /\ Updates(t)' = Updates(t) + 1 /\ Updates(Other(t))' = Updates(Other(t))
        /\ buf'[t] = Append(buf[t], <<"counter", IF t = 0 THEN reg[t] + 1 ELSE reg[t] - 1>>)
    BY <1>1, <1>7, StoreCounts
  <2>2. /\ \A u \in Threads : u = t \/ u = Other(t)
        /\ (t = 0 /\ Other(t) = 1) \/ (t = 1 /\ Other(t) = 0)
    BY TwoThreads, ThreadPairs
  <2>3. PICK v : v = IF t = 0 THEN reg[t] + 1 ELSE reg[t] - 1
    OBVIOUS
  <2>4. Reachable \subseteq Reachable' /\ v \in Reachable'
    <3>1. reg[t] \in Reachable /\ reg[t] \in Int
      BY <1>2, <1>3, <2>1
    <3>2. Updates(0) \in Nat /\ Updates(1) \in Nat
      BY <1>1, UpdatesAreNat
    <3>3. CASE t = 0 /\ Other(t) = 1
      <4>1. Updates(0)' = Updates(0) + 1 /\ Updates(1)' = Updates(1)
        BY <2>1, <3>3 DEF Updates
      <4>2. v = reg[t] + 1
        BY <2>3, <3>3
      <4> QED
        BY <3>1, <3>2, <4>1, <4>2 DEF Reachable
    <3>4. CASE t = 1 /\ Other(t) = 0
      <4>1. Updates(1)' = Updates(1) + 1 /\ Updates(0)' = Updates(0)
        BY <2>1, <3>4 DEF Updates
      <4>2. v = reg[t] - 1
        BY <2>3, <3>4
      <4> QED
        BY <3>1, <3>2, <4>1, <4>2 DEF Reachable
    <3> QED
      BY <2>2, <3>3, <3>4
  <2>5. ASSUME NEW k \in 1..Len(buf'[t]), buf'[t][k][1] = "counter"
        PROVE  buf'[t][k][2] \in Reachable'
    <3>1. buf'[t] = Append(buf[t], <<"counter", v>>)
      BY <2>1, <2>3
    <3>2. buf[t] \in Seq(Variables \X Int)
      BY <1>2
    <3>3. CASE k = Len(buf[t]) + 1
      <4>1. buf'[t][k] = <<"counter", v>>
        BY <3>1, <3>2, <3>3
      <4> QED
        BY <2>4, <4>1
    <3>4. CASE k # Len(buf[t]) + 1
      <4>1. k \in 1..Len(buf[t]) /\ buf'[t][k] = buf[t][k]
        BY <3>1, <3>2, <3>4
      <4> QED
        BY <1>3, <2>4, <2>5, <4>1
    <3> QED
      BY <3>3, <3>4
  <2>6. mem'["counter"] \in Reachable'
    BY <1>3, <2>1, <2>4
  <2>7. \A u \in Threads : pc'[u] = "store" => reg'[u] \in Reachable'
    BY <1>3, <2>1, <2>2, <2>4, Zenon
  <2>8. \A u \in Threads : \A k \in 1..Len(buf'[u]) :
          buf'[u][k][1] = "counter" => buf'[u][k][2] \in Reachable'
    BY <1>3, <2>1, <2>2, <2>4, <2>5, Zenon
  <2> QED
    BY <2>6, <2>7, <2>8 DEF Bounded
<1>8. CASE Drain(t)
  <2>1. /\ buf[t] # <<>> /\ buf' = [buf EXCEPT ![t] = Tail(@)] /\ UNCHANGED <<pc, i, reg>>
        /\ mem' = [mem EXCEPT ![Head(buf[t])[1]] = Head(buf[t])[2]]
    BY <1>8 DEF Drain
  <2>2. \A u \in Threads : Updates(u)' = Updates(u)
    BY <2>1 DEF Updates
  <2>3. Reachable' = Reachable
    BY <1>1, <1>4, <2>2, UpdatesAreNat
  <2>4. /\ buf'[t] = Tail(buf[t]) /\ \A u \in Threads : u # t => buf'[u] = buf[u]
    BY <1>2, <2>1
  <2>5. /\ 1 \in 1..Len(buf[t]) /\ Head(buf[t]) = buf[t][1]
        /\ \A k \in 1..Len(Tail(buf[t])) : k + 1 \in 1..Len(buf[t]) /\ Tail(buf[t])[k] = buf[t][k + 1]
    BY <1>2, <2>1, HeadAndTail
  <2>6. mem'["counter"] = IF buf[t][1][1] = "counter" THEN buf[t][1][2] ELSE mem["counter"]
    <3>1. mem' = [mem EXCEPT ![buf[t][1][1]] = buf[t][1][2]]
      BY <2>1, <2>5, Zenon
    <3> QED
      BY ONLY <1>2, <3>1
  <2>7. mem'["counter"] \in Reachable'
    BY <1>3, <2>3, <2>5, <2>6, Zenon
  <2>8. ASSUME NEW k \in 1..Len(buf'[t]), buf'[t][k][1] = "counter"
        PROVE  buf'[t][k][2] \in Reachable'
    <3>1. k + 1 \in 1..Len(buf[t]) /\ buf'[t][k] = buf[t][k + 1]
      BY <2>4, <2>5
    <3> QED
      BY <1>3, <2>3, <2>8, <3>1, Zenon
  <2>9. \A u \in Threads : \A k \in 1..Len(buf'[u]) :
          buf'[u][k][1] = "counter" => buf'[u][k][2] \in Reachable'
    BY <1>3, <2>3, <2>4, <2>8, Zenon
  <2> QED
    BY <1>3, <2>1, <2>3, <2>7, <2>9, Zenon DEF Bounded
<1> QED
  BY <1>5, <1>6, <1>7, <1>8 DEF Step

\* Under a lock that works one thread at most is between lock and unlock.
LEMMA OneInside ==
  ASSUME IInv, prog \in Locking, NEW t \in Threads, pc[t] \in Critical
  PROVE  pc[Other(t)] \notin Critical
<1>1. prog \in Spinning \cup Mutexes \cup Semaphores \cup {"peterson_atomic"}
  BY DEF Locking, Programs, Peterson
<1>2. Alone
  BY <1>1 DEF IInv, LockWord, PetersonLock
<1> QED
  BY <1>2, ThreadPairs DEF Alone

\* Under a lock that works no update is lost.
LEMMA ExactStep ==
  ASSUME IInv, Exact, NEW t \in Threads, Step(t) \/ Drain(t)
  PROVE  Exact'
<1>1. TypeOK
  BY DEF IInv
<1>2. prog' = prog
  BY DEF Step, Drain, Lock, NoLock, RaiseFlag, GiveTurn, SeeFlag, SeeTurn, Exchange, MutexLock,
         SleepAlone, SemWait, Load, Store, Unlock, Return, Enters, Goes
<1> SUFFICES ASSUME prog \in Locking
             PROVE  /\ \A u \in Threads : /\ pc'[u] = "store" => reg'[u] = Net'
                                          /\ pc'[u] # "unlock" => buf'[u] = <<>>
                                          /\ buf'[u] # <<>> => Len(buf'[u]) = 1 /\ buf'[u][1][2] = Net'
                    /\ (\A u \in Threads : buf'[u] = <<>>) => mem'["counter"] = Net'
  BY <1>2 DEF Exact
<1>3. /\ \A u \in Threads : /\ pc[u] = "store" => reg[u] = Net
                            /\ pc[u] # "unlock" => buf[u] = <<>>
                            /\ buf[u] # <<>> => Len(buf[u]) = 1 /\ buf[u][1][2] = Net
      /\ (\A u \in Threads : buf[u] = <<>>) => mem["counter"] = Net
  BY DEF Exact
<1>4. /\ mem \in [Variables -> Int] /\ "counter" \in Variables /\ reg \in [Threads -> Int]
      /\ buf \in [Threads -> Seq(Variables \X Int)]
      /\ \A u \in Threads : buf[u] \in Seq(Variables \X Int)
      /\ Net \in Int
  BY <1>1, UpdatesAreNat DEF TypeOK, Variables
<1>5. /\ Other(t) \in Threads /\ Other(t) # t /\ \A u \in Threads : u = t \/ u = Other(t)
      /\ pc[t] \in Critical => pc[Other(t)] \notin Critical
  BY ThreadPairs, OneInside
<1>6. CASE Lock(t) \/ Unlock(t) \/ Return(t)
  <2>1. /\ mem'["counter"] = mem["counter"] /\ reg' = reg /\ buf' = buf
        /\ Unlock(t) => buf[t] = <<>>
        /\ \A u \in Threads : /\ pc'[u] = "store" => pc[u] = "store"
                              /\ pc[u] = "unlock" /\ pc'[u] # "unlock" => u = t /\ Unlock(t)
    BY <1>6, CounterRests
  <2>2. Net' = Net
    BY <1>1, <1>6, CounterRests, UpdatesAreNat DEF Net
  <2> QED
    BY <1>3, <2>1, <2>2, Zenon
<1>7. CASE Load(t)
  <2>1. /\ pc[t] = "load" /\ pc'[t] = "store" /\ \A u \in Threads : u # t => pc'[u] = pc[u]
        /\ mem' = mem /\ buf' = buf /\ i' = i
    BY <1>1, <1>7, OneMoves DEF Load
  <2>2. reg'[t] = Read(t, "counter") /\ \A u \in Threads : u # t => reg'[u] = reg[u]
    BY <1>4, <1>7 DEF Load
  <2>3. Net' = Net
    <3>1. \A u \in Threads : Updates(u)' = Updates(u)
      BY <2>1 DEF Updates
    <3> QED
      BY <1>1, <3>1, UpdatesAreNat DEF Net
  <2>4. pc[Other(t)] \notin Critical /\ \A u \in Threads : buf[u] = <<>>
    BY <1>3, <1>5, <2>1 DEF Critical
  <2>5. Read(t, "counter") = mem["counter"]
    <3>1. buf[t] = <<>>
      BY <2>4
    <3>2. Pending(t, "counter") = {}
      BY <3>1 DEF Pending
    <3> QED
      BY <3>2 DEF Read
  <2>6. reg'[t] = Net
    BY <1>3, <2>2, <2>4, <2>5
  <2> QED
    BY <1>3, <2>1, <2>2, <2>3, <2>4, <2>6, Zenon
<1>8. CASE Store(t)
  <2>1. /\ mem' = mem /\ reg' = reg /\ pc[t] = "store" /\ pc'[t] = "unlock"
        /\ pc'[Other(t)] = pc[Other(t)] /\ buf'[Other(t)] = buf[Other(t)]
        /\ Net' = Net + (IF t = 0 THEN 1 ELSE -1)
        /\ buf'[t] = Append(buf[t], <<"counter", IF t = 0 THEN reg[t] + 1 ELSE reg[t] - 1>>)
    BY <1>1, <1>8, StoreCounts
  <2>2. buf[t] = <<>> /\ reg[t] = Net /\ pc[Other(t)] \notin Critical /\ buf[Other(t)] = <<>>
    BY <1>3, <1>5, <2>1 DEF Critical
  <2>3. PICK v : v = IF t = 0 THEN reg[t] + 1 ELSE reg[t] - 1
    OBVIOUS
  <2>4. v = Net'
    BY <1>4, <2>1, <2>2, <2>3
  <2>5. buf'[t] = <<<<"counter", v>>>>
    BY <2>1, <2>2, <2>3
  <2>6. Len(buf'[t]) = 1 /\ buf'[t][1][2] = Net' /\ buf'[t] # <<>>
    BY <2>4, <2>5
  <2>7. pc'[Other(t)] # "store"
    BY <2>1, <2>2 DEF Critical
  <2>8. pc'[t] # "store"
    BY <2>1
  <2> QED
    BY <1>5, <2>1, <2>2, <2>6, <2>7, <2>8, Zenon
<1>9. CASE Drain(t)
  <2>1. /\ buf[t] # <<>> /\ buf' = [buf EXCEPT ![t] = Tail(@)] /\ UNCHANGED <<pc, i, reg>>
        /\ mem' = [mem EXCEPT ![Head(buf[t])[1]] = Head(buf[t])[2]]
    BY <1>9 DEF Drain
  <2>2. Net' = Net
    BY <2>1 DEF Net, Updates
  <2>3. /\ pc[t] = "unlock" /\ Len(buf[t]) = 1 /\ buf[t][1][2] = Net /\ buf[t][1][1] = "counter"
        /\ pc[Other(t)] \notin Critical /\ buf[Other(t)] = <<>>
    <3>1. pc[t] = "unlock" /\ Len(buf[t]) = 1 /\ buf[t][1][2] = Net
      BY <1>3, <2>1
    <3>2. pc[Other(t)] \notin Critical /\ buf[Other(t)] = <<>>
      BY <1>3, <1>5, <3>1 DEF Critical
    <3>3. \A k \in 1..Len(buf[t]) : buf[t][k][1] = "counter"
      BY DEF IInv, Buffered
    <3>4. 1 \in 1..Len(buf[t])
      BY <3>1
    <3>5. buf[t][1][1] = "counter"
      BY <3>3, <3>4, Zenon
    <3> QED
      BY <3>1, <3>2, <3>5, Zenon
  <2>4. /\ buf'[t] = Tail(buf[t]) /\ buf'[Other(t)] = buf[Other(t)]
    BY <1>4, <1>5, <2>1
  <2>5. buf'[t] = <<>>
    <3>1. buf[t] \in Seq(Variables \X Int) /\ Len(buf[t]) = 1
      BY <1>4, <2>3
    <3>2. Tail(buf[t]) = <<>>
      BY <3>1, SingleTail
    <3> QED
      BY <2>4, <3>2
  <2>6. mem'["counter"] = Net
    <3>1. Head(buf[t]) = buf[t][1]
      BY <1>4, <2>1
    <3> QED
      BY <1>4, <2>1, <2>3, <3>1
  <2>7. pc'[t] # "store" /\ pc'[Other(t)] # "store"
    BY <2>1, <2>3 DEF Critical
  <2> QED
    BY <1>5, <2>2, <2>3, <2>4, <2>5, <2>6, <2>7, Zenon
<1> QED
  BY <1>6, <1>7, <1>8, <1>9 DEF Step

\* Only the condition of its loop makes a thread return.
LEMMA FinishedStep ==
  ASSUME IInv, Finished, NEW t \in Threads, Step(t) \/ Drain(t)
  PROVE  Finished'
<1>1. TypeOK
  BY DEF IInv
<1>2. \A u \in Threads : pc[u] = "done" => i[u] = Iterations
  BY DEF Finished
<1>3. CASE Return(t)
  <2>1. i[t] = Iterations /\ i' = i
    BY <1>1, <1>3, IterationsAssumption DEF Return, Again, TypeOK
  <2>2. \A u \in Threads : u # t => pc'[u] = pc[u]
    BY <1>1, <1>3, OneMoves DEF Return
  <2> QED
    BY <1>2, <2>1, <2>2, Zenon DEF Finished
<1>4. CASE Unlock(t)
  <2>1. pc'[t] = "lock" /\ \A u \in Threads : u # t => pc'[u] = pc[u]
    BY <1>1, <1>4, OneMoves DEF Unlock
  <2>2. \A u \in Threads : u # t => i'[u] = i[u]
    BY <1>1, <1>4 DEF Unlock, TypeOK
  <2> QED
    BY <1>2, <2>1, <2>2 DEF Finished
<1>5. CASE Lock(t) \/ Load(t) \/ Store(t)
  <2>1. i' = i /\ \E from, to : Goes(t, from, to) /\ to # "done"
    BY <1>5 DEF Lock, NoLock, RaiseFlag, GiveTurn, SeeFlag, SeeTurn, Exchange, MutexLock,
                SleepAlone, SemWait, Load, Store, Enters
  <2>2. pc'[t] # "done" /\ \A u \in Threads : u # t => pc'[u] = pc[u]
    BY <1>1, <2>1, OneMoves
  <2> QED
    BY <1>2, <2>1, <2>2, Zenon DEF Finished
<1>6. CASE Drain(t)
  BY <1>2, <1>6 DEF Drain, Finished
<1> QED
  BY <1>3, <1>4, <1>5, <1>6 DEF Step

\* The counter starts at zero with nothing stored.
LEMMA CounterInit == Init => CounterInv
<1> SUFFICES ASSUME Init PROVE CounterInv
  OBVIOUS
<1>1. /\ mem["counter"] = 0
      /\ \A t \in Threads : pc[t] = "lock" /\ i[t] = 0 /\ buf[t] = <<>>
  BY DEF Init, Variables
<1>2. Updates(0) = 0 /\ Updates(1) = 0
  BY <1>1 DEF Updates, Threads
<1>3. 0 \in Reachable /\ Net = 0
  BY <1>2 DEF Reachable, Net
<1>4. \A t \in Threads : Len(buf[t]) = 0
  BY <1>1
<1>5. Bounded
  BY <1>1, <1>3, <1>4 DEF Bounded
<1> QED
  BY <1>1, <1>3, <1>5 DEF CounterInv, Exact, Finished

\* The counter is accounted for in every state.
THEOREM CounterAccounted == Spec => [](IInv /\ CounterInv)
<1>1. Init => IInv /\ CounterInv
  BY InitInv, CounterInit
<1>2. IInv /\ CounterInv /\ [Next]_vars => (IInv /\ CounterInv)'
  <2> SUFFICES ASSUME IInv, CounterInv, [Next]_vars PROVE IInv' /\ CounterInv'
    OBVIOUS
  <2>1. IInv'
    BY NextInv
  <2>2. CASE Next
    <3>1. PICK t \in Threads : Step(t) \/ Drain(t)
      BY <2>2 DEF Next
    <3> QED
      BY <2>1, <3>1, BoundedStep, ExactStep, FinishedStep DEF CounterInv
  <2>3. CASE UNCHANGED vars
    BY <2>1, <2>3 DEF vars, CounterInv, Bounded, Reachable, Exact, Net, Updates, Finished
  <2> QED
    BY <2>2, <2>3
<1> QED
  BY <1>1, <1>2, PTL DEF Spec

\* "counter = %d" prints 0 under every lock that works, and no more than was
\* counted under the others, for any number of iterations.
THEOREM CounterIsRightAtJoin == Spec => []CounterAtJoin
<1>1. IInv /\ CounterInv => CounterAtJoin
  <2> SUFFICES ASSUME IInv, CounterInv, \A t \in Threads : pc[t] = "done"
               PROVE  IF prog \in Locking THEN mem["counter"] = 0
                      ELSE mem["counter"] \in -Iterations..Iterations
    BY DEF CounterAtJoin
  <2>1. Updates(0) = Iterations /\ Updates(1) = Iterations
    BY IterationsAssumption DEF CounterInv, Finished, Updates, Threads
  <2>2. prog \in Locking => mem["counter"] = Net
    BY DEF CounterInv, Exact
  <2>3. mem["counter"] \in Reachable
    BY DEF CounterInv, Bounded
  <2> QED
    BY <2>1, <2>2, <2>3, IterationsAssumption DEF Net, Reachable
<1> QED
  BY <1>1, CounterAccounted, PTL
=============================================================================
