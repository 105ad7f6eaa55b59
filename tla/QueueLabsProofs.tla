------------------------- MODULE QueueLabsProofs ---------------------------
(***************************************************************************)
(* Proofs about the programs with message queues, for any queue, any       *)
(* number of children, workers, tasks, clients and requests: mq_notify is  *)
(* never called by who is registered, no message is left in the queue with *)
(* nobody to receive it, but where the module says so, and each result,    *)
(* answer and sum is printed at most once, by who waits for it.            *)
(***************************************************************************)
EXTENDS QueueLabs, FiniteSetTheorems, SequenceTheorems, TLAPS

\* Where a child still sends or waits, it has something left to count.
Loops ==
  /\ child = "block" => blocks > 0
  /\ child = "send" => burst > 0
  /\ \A c \in Children : kid[c] = "recv" => life[c] > 0

\* Which parts of the state each program uses.
Programs ==
  /\ prog = "signal" => restoring = 0 /\ draining = 0
  /\ prog # "signal" => ~usr1 /\ parent \notin {"restore", "drain"}
  /\ prog = "bingo" => ~int /\ parent \notin {"blocked", "suspend", "reap"}

\* children_left counts the children not yet waited for.
Unreaped == {c \in Children : kid[c] # "reaped"}
LeftIsExact == children_left = Cardinality(Unreaped)

\* Notification, registration and the one who restores it exclude each other.
Registration ==
  /\ registered => ~usr1 /\ parent # "restore" /\ restoring = 0
  /\ parent = "restore" => ~usr1
  /\ prog = "thread" => restoring <= 1
  /\ prog = "bingo" => /\ registered => draining = 0
                       /\ restoring + draining <= 1
                       /\ parent = "setup" => ~registered /\ restoring = 0 /\ draining = 0

\* Until the end the next message to an empty queue will be noticed, or is on the
\* books as missed.
Noticed ==
  /\ prog = "signal" /\ ~missed => registered \/ usr1 \/ parent \in {"restore"} \cup Closing
  /\ prog = "thread" => registered \/ restoring > 0 \/ parent \in Closing
  /\ prog = "bingo" /\ ~missed /\ restoring > 0 => queued = 0

QueueInv == Programs /\ Registration /\ Noticed /\ NoneStranded

IInv == TypeOK /\ Loops /\ LeftIsExact /\ QueueInv

-----------------------------------------------------------------------------
\* The invariant holds when main has created the queue and its children.
LEMMA InitInv == Init => IInv
<1> SUFFICES ASSUME Init PROVE IInv
  OBVIOUS
<1> USE QueueAssumption DEF Init
<1>1. Cardinality(Children) \in Nat
  BY FS_CardinalityType
<1>2. kid \in [Children -> {"recv"}] /\ life \in [Children -> 0..LifeSpan]
  OBVIOUS
<1>3. TypeOK
  <2>1. kid \in [Children -> {"recv", "answer", "exit", "zombie", "reaped"}]
    BY <1>2
  <2>2. children_left \in 0..Cardinality(Children) /\ burst \in 0..Burst /\ blocks \in 0..Blocks
    BY <1>1
  <2>3. /\ usr1 \in BOOLEAN /\ int \in BOOLEAN /\ should_exit \in BOOLEAN
        /\ sigchld \in BOOLEAN /\ missed \in BOOLEAN
    OBVIOUS
  <2>4. /\ restoring \in Nat /\ draining \in Nat
        /\ queued \in 0..Capacity /\ numbers \in 0..Capacity
    OBVIOUS
  <2>5. /\ prog \in {"signal", "thread", "bingo"}
        /\ parent \in {"setup", "blocked", "suspend", "restore", "drain", "test", "send"} \cup Closing
        /\ child \in {"block", "send", "kill", "done", "failed"}
    BY DEF Closing, Ended
  <2> QED
    BY <1>2, <2>1, <2>2, <2>3, <2>4, <2>5, Zenon DEF TypeOK
<1>4. Loops
  BY DEF Loops
<1>5. LeftIsExact
  <2>1. Unreaped = Children
    BY DEF Unreaped
  <2> QED
    BY <2>1 DEF LeftIsExact
<1>6. Programs
  BY DEF Programs, Closing, Ended
<1>7. Registration
  BY DEF Registration, Closing, Ended
<1>8. Noticed
  BY DEF Noticed, Closing, Ended
<1>9. NoneStranded
  BY DEF NoneStranded
<1> QED
  BY <1>3, <1>4, <1>5, <1>6, <1>7, <1>8, <1>9 DEF IInv, QueueInv

\* A message that comes keeps the types of queue, signals and threads.
LEMMA EnqueueTypes ==
  ASSUME TypeOK, Enqueue
  PROVE  /\ queued' \in 0..Capacity /\ registered' \in BOOLEAN
         /\ restoring' \in Nat /\ draining' \in Nat
         /\ usr1' \in BOOLEAN /\ int' \in BOOLEAN /\ should_exit' \in BOOLEAN
         /\ missed' \in BOOLEAN
<1> USE QueueAssumption DEF TypeOK
<1>1. queued' \in 0..Capacity /\ registered' \in BOOLEAN
  BY DEF Enqueue
<1>2. restoring' \in Nat /\ draining' \in Nat
  BY DEF Enqueue, Signal, NewThread, NoNotification, threads, signals
<1>3. usr1' \in BOOLEAN /\ int' \in BOOLEAN /\ should_exit' \in BOOLEAN /\ missed' \in BOOLEAN
  BY Zenon DEF Enqueue, Signal, NewThread, NoNotification, threads, signals
<1> QED
  BY <1>1, <1>2, <1>3

\* The variables of the children of Bingo.
LEMMA BingoUnchanged ==
  ASSUME [Next]_vars, ~SigchldHandler, \A c \in Children : ~Kid(c)
  PROVE  UNCHANGED <<kid, life, sigchld, children_left>>
<1> USE DEF lecture, bingo, Goes
<1>1. CASE Child
  BY <1>1 DEF Child, Begin, Send, QueueFull, Kill
<1>2. CASE Main
  BY <1>2 DEF Main, Block, Suspend, Wake, Restore, Drain, Reap, Return
<1>3. CASE Thread
  BY <1>3 DEF Thread, ThreadRestore, ThreadReceive, ThreadEmpty, ThreadFails
<1>4. CASE BingoMain
  BY <1>4 DEF BingoMain, Notify, Test, SendNumber
<1>5. CASE UNCHANGED vars
  BY <1>5 DEF vars
<1> QED
  BY <1>1, <1>2, <1>3, <1>4, <1>5 DEF Next

\* children_left counts the children the handler has not waited for.
LEMMA LeftStep ==
  ASSUME TypeOK, LeftIsExact, [Next]_vars
  PROVE  LeftIsExact' /\ children_left' \in 0..Cardinality(Children)
<1>1. /\ Unreaped \subseteq Children /\ Unreaped' \subseteq Children
      /\ IsFiniteSet(Children)
  BY QueueAssumption DEF Unreaped
<1>2. ASSUME SigchldHandler PROVE LeftIsExact'
  <2> DEFINE old == Unreaped
             reaped == Zombies
  <2>1. reaped \subseteq old /\ IsFiniteSet(old) /\ IsFiniteSet(reaped)
    BY <1>1, FS_Subset DEF Unreaped, Zombies
  <2>2. Unreaped' = old \ reaped
    BY <1>2 DEF SigchldHandler, Unreaped, Zombies
  <2>3. children_left' = Cardinality(old) - Cardinality(reaped)
    BY <1>2 DEF SigchldHandler, LeftIsExact, Counted
  <2> HIDE DEF old, reaped
  <2>4. Cardinality(old \ reaped) = Cardinality(old) - Cardinality(old \cap reaped)
    BY <2>1, FS_Difference
  <2>5. old \cap reaped = reaped
    BY <2>1
  <2> QED
    BY <2>2, <2>3, <2>4, <2>5 DEF LeftIsExact
<1>3. ASSUME NEW c \in Children, Kid(c) PROVE LeftIsExact'
  <2>1. children_left' = children_left
    BY <1>3 DEF Kid, Receive, Answer, Exit
  <2>2. Unreaped' = Unreaped
    BY <1>3 DEF Kid, Receive, Answer, Exit, KidGoes, Unreaped, TypeOK
  <2> QED
    BY <2>1, <2>2 DEF LeftIsExact
<1>4. ASSUME ~SigchldHandler /\ \A c \in Children : ~Kid(c) PROVE LeftIsExact'
  BY <1>4, BingoUnchanged DEF LeftIsExact, Unreaped
<1>5. LeftIsExact'
  BY <1>2, <1>3, <1>4
<1>6. Cardinality(Unreaped') \in Nat /\ Cardinality(Unreaped') <= Cardinality(Children)
  BY <1>1, FS_Subset, FS_CardinalityType
<1>7. Cardinality(Children) \in Nat
  BY <1>1, FS_CardinalityType
<1> QED
  BY <1>5, <1>6, <1>7 DEF LeftIsExact

\* A step of the lectures' child or parent keeps the types.
LEMMA LectureTypes ==
  ASSUME TypeOK, Loops, Child \/ Main
  PROVE  TypeOK'
<1> USE QueueAssumption DEF TypeOK, Goes, queue, threads, signals, lecture, bingo, Closing, Ended
<1>1. CASE Begin
  BY <1>1 DEF Begin, Loops
<1>2. CASE Send
  <2>1. burst' \in 0..Burst /\ child' \in {"block", "send", "kill", "done", "failed"}
    BY <1>2 DEF Send, Loops
  <2> QED
    BY <1>2, <2>1, EnqueueTypes DEF Send
<1>3. CASE QueueFull
  BY <1>3 DEF QueueFull
<1>4. CASE Kill
  BY <1>4 DEF Kill
<1>5. CASE Block
  BY <1>5 DEF Block
<1>6. CASE Suspend
  BY <1>6 DEF Suspend
<1>7. CASE Wake
  BY <1>7 DEF Wake
<1>8. CASE Restore
  BY <1>8 DEF Restore
<1>9. CASE Drain
  BY <1>9 DEF Drain
<1>10. CASE Reap
  BY <1>10 DEF Reap
<1>11. CASE Return
  BY <1>11 DEF Return
<1> QED
  BY <1>1, <1>2, <1>3, <1>4, <1>5, <1>6, <1>7, <1>8, <1>9, <1>10, <1>11 DEF Child, Main

\* A step of a notification thread keeps the types.
LEMMA ThreadTypes ==
  ASSUME TypeOK, Thread
  PROVE  TypeOK'
<1> USE QueueAssumption DEF TypeOK, queue, threads, signals, lecture, bingo, Closing, Ended
<1>1. CASE ThreadRestore
  BY <1>1 DEF ThreadRestore
<1>2. CASE ThreadReceive
  BY <1>2 DEF ThreadReceive
<1>3. CASE ThreadEmpty
  BY <1>3 DEF ThreadEmpty
<1>4. CASE ThreadFails
  BY <1>4 DEF ThreadFails
<1> QED
  BY <1>1, <1>2, <1>3, <1>4 DEF Thread

\* A step of Bingo keeps the types.
LEMMA BingoTypes ==
  ASSUME TypeOK, Loops, children_left' \in 0..Cardinality(Children),
         BingoMain \/ SigchldHandler \/ \E c \in Children : Kid(c)
  PROVE  TypeOK'
<1> USE QueueAssumption DEF TypeOK, Goes, queue, threads, signals, lecture, bingo, Closing, Ended
<1>1. CASE Notify
  BY <1>1 DEF Notify
<1>2. CASE Test
  BY <1>2 DEF Test
<1>3. CASE SendNumber
  BY <1>3 DEF SendNumber
<1>4. ASSUME NEW c \in Children, Receive(c) PROVE TypeOK'
  <2>1. kid' \in [Children -> {"recv", "answer", "exit", "zombie", "reaped"}]
    BY <1>4 DEF Receive, KidGoes
  <2>2. life' \in [Children -> 0..LifeSpan]
    BY <1>4 DEF Receive, KidGoes, Loops
  <2> QED
    BY <1>4, <2>1, <2>2 DEF Receive
<1>5. ASSUME NEW c \in Children, Answer(c) PROVE TypeOK'
  <2>1. kid' \in [Children -> {"recv", "answer", "exit", "zombie", "reaped"}]
    BY <1>5 DEF Answer, KidGoes
  <2>2. CASE Enqueue
    BY <1>5, <2>1, <2>2, EnqueueTypes DEF Answer
  <2>3. CASE UNCHANGED <<queue, threads, signals, missed>>
    BY <1>5, <2>1, <2>3 DEF Answer
  <2> QED
    BY <1>5, <2>2, <2>3 DEF Answer
<1>6. ASSUME NEW c \in Children, Exit(c) PROVE TypeOK'
  <2>1. kid' \in [Children -> {"recv", "answer", "exit", "zombie", "reaped"}]
    BY <1>6 DEF Exit, KidGoes
  <2> QED
    BY <1>6, <2>1 DEF Exit
<1>7. CASE SigchldHandler
  <2>1. kid' \in [Children -> {"recv", "answer", "exit", "zombie", "reaped"}]
    BY <1>7 DEF SigchldHandler
  <2>2. sigchld' \in BOOLEAN
    BY <1>7 DEF SigchldHandler
  <2>3. UNCHANGED <<prog, queue, threads, parent, signals, lecture, life, numbers, missed>>
    BY <1>7 DEF SigchldHandler
  <2> QED
    BY <2>1, <2>2, <2>3
<1> QED
  BY <1>1, <1>2, <1>3, <1>4, <1>5, <1>6, <1>7 DEF BingoMain, Kid

\* What is sent or waited for is counted down to nothing, and not further.
LEMMA LoopStep ==
  ASSUME TypeOK, Loops, [Next]_vars
  PROVE  Loops'
<1> USE DEF lecture, bingo, Goes
<1>1. (child' = "block" => blocks' > 0) /\ (child' = "send" => burst' > 0)
  <2> USE QueueAssumption DEF Loops
  <2>1. CASE Child
    BY <2>1 DEF Child, Begin, Send, QueueFull, Kill, TypeOK
  <2>2. CASE Main
    BY <2>2 DEF Main, Block, Suspend, Wake, Restore, Drain, Reap, Return
  <2>3. CASE Thread
    BY <2>3 DEF Thread, ThreadRestore, ThreadReceive, ThreadEmpty, ThreadFails
  <2>4. CASE BingoMain \/ SigchldHandler
    BY <2>4 DEF BingoMain, Notify, Test, SendNumber, SigchldHandler
  <2>5. CASE \E c \in Children : Kid(c)
    BY <2>5 DEF Kid, Receive, Answer, Exit
  <2>6. CASE UNCHANGED vars
    BY <2>6 DEF vars
  <2> QED
    BY <2>1, <2>2, <2>3, <2>4, <2>5, <2>6 DEF Next
<1>2. ASSUME NEW c \in Children, kid'[c] = "recv" PROVE life'[c] > 0
  <2>1. ASSUME NEW d \in Children, Kid(d) PROVE life'[c] > 0
    BY <1>2, <2>1 DEF Kid, Receive, Answer, Exit, KidGoes, TypeOK, Loops
  <2>2. CASE SigchldHandler
    BY <1>2, <2>2 DEF SigchldHandler, Loops
  <2> QED
    BY <1>2, <2>1, <2>2, BingoUnchanged DEF Loops
<1> QED
  BY <1>1, <1>2 DEF Loops

\* A message that comes is noticed, or is on the books as missed.
LEMMA EnqueueStep ==
  ASSUME TypeOK, QueueInv, Enqueue, UNCHANGED <<prog, parent>>
  PROVE  QueueInv'
<1> USE QueueAssumption
<1>1. /\ queued < Capacity /\ queued' = queued + 1
      /\ registered' <=> registered /\ queued > 0
      /\ registered' \in BOOLEAN /\ usr1' \in BOOLEAN /\ missed' \in BOOLEAN
  BY EnqueueTypes DEF Enqueue
<1> USE DEF TypeOK, QueueInv, Programs, Registration, Noticed, NoneStranded,
        threads, signals, Closing, Ended
<1>2. CASE queued = 0 /\ registered /\ Signal
  <2>1. /\ usr1' <=> parent # "setup"
        /\ missed' <=> missed \/ parent = "setup"
        /\ prog = "signal" /\ UNCHANGED <<threads, int, should_exit>>
    BY <1>2, Zenon DEF Signal
  <2> QED
    BY <1>1, <1>2, <2>1
<1>3. CASE queued = 0 /\ registered /\ NewThread
  BY <1>1, <1>3 DEF NewThread
<1>4. CASE ~(queued = 0 /\ registered) /\ NoNotification
  <2>1. /\ missed' <=> missed \/ (queued = 0 /\ ~registered /\ prog = "bingo" /\ draining = 0)
        /\ UNCHANGED <<threads, signals>>
    BY <1>4, Zenon DEF NoNotification
  <2> QED
    BY <1>1, <1>4, <2>1
<1> QED
  BY <1>2, <1>3, <1>4 DEF Enqueue

\* The lectures' child and parent keep the queue watched.
LEMMA LectureStep ==
  ASSUME TypeOK, QueueInv, Child \/ Main
  PROVE  QueueInv'
<1>1. CASE Send
  BY <1>1, EnqueueStep DEF Send
<1> USE QueueAssumption DEF TypeOK, QueueInv, Programs, Registration, Noticed, NoneStranded,
        Goes, queue, threads, signals, lecture, bingo, Closing, Ended
<1>2. CASE Begin \/ QueueFull
  BY <1>2 DEF Begin, QueueFull
<1>3. CASE Kill
  BY <1>3 DEF Kill
<1>4. CASE Block \/ Suspend
  BY <1>4 DEF Block, Suspend
<1>5. CASE Wake
  BY <1>5 DEF Wake
<1>6. CASE Restore
  BY <1>6 DEF Restore
<1>7. CASE Drain
  BY <1>7 DEF Drain
<1>8. CASE Reap
  BY <1>8 DEF Reap
<1>9. CASE Return
  BY <1>9 DEF Return
<1> QED
  BY <1>1, <1>2, <1>3, <1>4, <1>5, <1>6, <1>7, <1>8, <1>9 DEF Child, Main

\* The notification threads keep the queue watched.
LEMMA ThreadStep ==
  ASSUME TypeOK, QueueInv, Thread
  PROVE  QueueInv'
<1> USE QueueAssumption DEF TypeOK, QueueInv, Programs, Registration, Noticed, NoneStranded,
        Open, queue, threads, signals, lecture, bingo, Closing, Ended
<1>1. CASE ThreadRestore
  BY <1>1 DEF ThreadRestore
<1>2. CASE ThreadReceive
  BY <1>2 DEF ThreadReceive
<1>3. CASE ThreadEmpty
  BY <1>3 DEF ThreadEmpty
<1>4. CASE ThreadFails
  BY <1>4 DEF ThreadFails
<1> QED
  BY <1>1, <1>2, <1>3, <1>4 DEF Thread

\* Bingo's main thread and its children keep the queue watched.
LEMMA BingoStep ==
  ASSUME TypeOK, QueueInv,
         BingoMain \/ SigchldHandler \/ (\E c \in Children : Kid(c)) \/ UNCHANGED vars
  PROVE  QueueInv'
<1>1. ASSUME NEW c \in Children, Answer(c), Enqueue PROVE QueueInv'
  <2>1. UNCHANGED <<prog, parent>>
    BY <1>1, QueueAssumption DEF Answer, Enqueue, TypeOK
  <2> QED
    BY <1>1, <2>1, EnqueueStep
<1> USE QueueAssumption DEF TypeOK, QueueInv, Programs, Registration, Noticed, NoneStranded,
        Goes, queue, threads, signals, lecture, bingo, Closing, Ended
<1>2. ASSUME NEW c \in Children, Answer(c), ~Enqueue PROVE QueueInv'
  BY <1>2 DEF Answer
<1>3. ASSUME NEW c \in Children, Receive(c) \/ Exit(c) PROVE QueueInv'
  BY <1>3 DEF Receive, Exit
<1>4. CASE BingoMain
  BY <1>4 DEF BingoMain, Notify, Test, SendNumber
<1>5. CASE SigchldHandler
  BY <1>5 DEF SigchldHandler
<1>6. CASE UNCHANGED vars
  BY <1>6 DEF vars
<1> QED
  BY <1>1, <1>2, <1>3, <1>4, <1>5, <1>6 DEF Kid

\* The invariant is inductive.
LEMMA NextInv == IInv /\ [Next]_vars => IInv'
<1> SUFFICES ASSUME IInv, [Next]_vars PROVE IInv'
  OBVIOUS
<1>1. TypeOK /\ Loops /\ LeftIsExact /\ QueueInv
  BY DEF IInv
<1>2. LeftIsExact' /\ children_left' \in 0..Cardinality(Children)
  BY <1>1, LeftStep
<1>3. Loops'
  BY <1>1, LoopStep
<1>4. TypeOK'
  <2>1. CASE UNCHANGED vars
    BY <1>1, <2>1 DEF TypeOK, vars, queue, threads, signals, lecture, bingo
  <2> QED
    BY <1>1, <1>2, <2>1, LectureTypes, ThreadTypes, BingoTypes DEF Next
<1>5. QueueInv'
  BY <1>1, LectureStep, ThreadStep, BingoStep DEF Next
<1> QED
  BY <1>2, <1>3, <1>4, <1>5 DEF IInv

-----------------------------------------------------------------------------
(* Sequences *)

\* That a value is in a sequence, and that none is in it twice.
Listed(s, x) == \E k \in DOMAIN s : s[k] = x
OnceEach(s) == \A j, k \in DOMAIN s : s[j] = s[k] => j = k

\* What comes to the end of a queue ...
LEMMA ListedAppend ==
  ASSUME NEW D, NEW s \in Seq(D), NEW x \in D
  PROVE  /\ Append(s, x) \in Seq(D) /\ Len(Append(s, x)) = Len(s) + 1 /\ Append(s, x) # <<>>
         /\ \A y : Listed(Append(s, x), y) <=> Listed(s, y) \/ y = x
         /\ OnceEach(s) /\ ~Listed(s, x) => OnceEach(Append(s, x))
<1>1. /\ Append(s, x) \in Seq(D) /\ Len(Append(s, x)) = Len(s) + 1 /\ Len(s) \in Nat
      /\ DOMAIN s = 1..Len(s) /\ DOMAIN Append(s, x) = 1..Len(s) + 1
  BY AppendProperties, LenProperties
<1>2. /\ \A k \in 1..Len(s) : Append(s, x)[k] = s[k] /\ k \in 1..Len(s) + 1
      /\ Append(s, x)[Len(s) + 1] = x /\ Len(s) + 1 \in 1..Len(s) + 1
      /\ \A k \in 1..Len(s) + 1 : k \in 1..Len(s) \/ k = Len(s) + 1
  BY <1>1, AppendProperties
<1>3. Append(s, x) # <<>>
  BY AppendProperties
<1>4. ASSUME NEW y PROVE Listed(Append(s, x), y) <=> Listed(s, y) \/ y = x
  BY <1>1, <1>2, Zenon DEF Listed
<1>5. OnceEach(s) /\ ~Listed(s, x) => OnceEach(Append(s, x))
  BY <1>1, <1>2, Zenon DEF Listed, OnceEach
<1> QED
  BY <1>1, <1>3, <1>4, <1>5

\* ... and what is taken from its front.
LEMMA ListedTail ==
  ASSUME NEW D, NEW s \in Seq(D), s # <<>>
  PROVE  /\ Head(s) \in D /\ Listed(s, Head(s)) /\ Tail(s) \in Seq(D) /\ Len(Tail(s)) = Len(s) - 1
         /\ OnceEach(s) => OnceEach(Tail(s)) /\ \A y : Listed(Tail(s), y) <=> Listed(s, y) /\ y # Head(s)
<1>1. /\ Tail(s) \in Seq(D) /\ Len(Tail(s)) = Len(s) - 1 /\ Len(s) \in Nat \ {0}
      /\ Head(s) = s[1] /\ Head(s) \in D
      /\ DOMAIN s = 1..Len(s) /\ DOMAIN Tail(s) = 1..Len(s) - 1
  BY HeadTailProperties, LenProperties, EmptySeq
<1>2. /\ 1 \in 1..Len(s) /\ \A k \in 1..Len(s) - 1 : Tail(s)[k] = s[k + 1] /\ k + 1 \in 1..Len(s) /\ k + 1 # 1
      /\ \A k \in 1..Len(s) : k = 1 \/ (k - 1 \in 1..Len(s) - 1 /\ (k - 1) + 1 = k)
  BY <1>1, HeadTailProperties
<1>3. Listed(s, Head(s))
  BY <1>1, <1>2, Zenon DEF Listed
<1>4. ASSUME OnceEach(s) PROVE OnceEach(Tail(s)) /\ \A y : Listed(Tail(s), y) <=> Listed(s, y) /\ y # Head(s)
  <2>1. \A j, k \in 1..Len(s) - 1 : j + 1 = k + 1 => j = k
    BY <1>1
  <2>2. OnceEach(Tail(s))
    <3> SUFFICES ASSUME NEW j \in 1..Len(s) - 1, NEW k \in 1..Len(s) - 1, Tail(s)[j] = Tail(s)[k]
                 PROVE  j = k
      BY <1>1, Zenon DEF OnceEach
    <3>1. s[j + 1] = s[k + 1] /\ j + 1 \in 1..Len(s) /\ k + 1 \in 1..Len(s)
      BY <1>2, Zenon
    <3> QED
      BY <1>1, <1>4, <2>1, <3>1, Zenon DEF OnceEach
  <2>3. ASSUME NEW y PROVE Listed(Tail(s), y) <=> Listed(s, y) /\ y # Head(s)
    <3>1. ASSUME Listed(Tail(s), y) PROVE Listed(s, y) /\ y # Head(s)
      <4>1. PICK k \in 1..Len(s) - 1 : Tail(s)[k] = y
        BY <1>1, <3>1, Zenon DEF Listed
      <4>2. s[k + 1] = y /\ k + 1 \in 1..Len(s) /\ k + 1 # 1
        BY <1>2, <4>1, Zenon
      <4>3. s[1] # y
        BY <1>1, <1>2, <1>4, <4>2, Zenon DEF OnceEach
      <4> QED
        BY <1>1, <4>2, <4>3, Zenon DEF Listed
    <3>2. ASSUME Listed(s, y), y # Head(s) PROVE Listed(Tail(s), y)
      <4>1. PICK k \in 1..Len(s) : s[k] = y
        BY <1>1, <3>2, Zenon DEF Listed
      <4>2. s[1] # y
        BY <1>1, <3>2, Zenon
      <4>3. k # 1
        BY <4>1, <4>2
      <4>4. k - 1 \in 1..Len(s) - 1 /\ (k - 1) + 1 = k
        BY <1>2, <4>3
      <4>5. Tail(s)[k - 1] = y
        BY <1>2, <4>1, <4>4, Zenon
      <4> QED
        BY <1>1, <4>4, <4>5, Zenon DEF Listed
    <3> QED
      BY <3>1, <3>2
  <2> QED
    BY <2>2, <2>3
<1> QED
  BY <1>1, <1>3, <1>4

-----------------------------------------------------------------------------
(* The first version, with one queue *)

\* Where the two are: before the request, while it is in the queue, while the server
\* has it, while the sum is in the queue, and after it has been received.
SumInv ==
  \/ /\ shared = <<>> /\ got = <<>> /\ asker = "send" /\ ~usr1Ask /\ ~usr1Sum
     /\ (summer = "notify" /\ owner = "none") \/ (summer = "spin" /\ owner = "server")
  \/ /\ shared = <<"request">> /\ got = <<>> /\ ~usr1Ask
     /\ asker \in {"notify", "spin", "failed"} /\ (asker = "notify" => owner # "child")
     /\ \/ summer = "notify" /\ ~usr1Sum /\ owner \in {"none", "child"}
        \/ summer = "failed"
        \/ summer = "spin" /\ (usr1Sum => owner # "server")
        \/ summer = "receive" /\ ~usr1Sum /\ owner # "server"
  \/ /\ shared = <<>> /\ got = <<>> /\ ~usr1Ask /\ asker \in {"notify", "spin", "failed"}
     /\ (asker = "notify" => owner # "child")
     /\ summer = "send" /\ ~usr1Sum /\ owner # "server"
  \/ /\ shared = <<"sum">> /\ got = <<>> /\ summer = "spin" /\ ~usr1Sum
     /\ asker \in {"notify", "spin", "failed", "receive"}
     /\ (usr1Ask => asker \in {"spin", "failed"}) /\ (asker = "notify" => owner # "child")
  \/ /\ shared = <<>> /\ got = <<"sum">> /\ summer = "spin" /\ ~usr1Sum /\ ~usr1Ask /\ asker = "spin"

-----------------------------------------------------------------------------
(* The server and its clients *)

ServerTypes ==
  /\ server \in {"setup", "run", "done", "failed"}
  /\ requests \in [Ops -> Seq(S!Request)] /\ watched \in [Ops -> BOOLEAN]
  /\ rearming \in [Ops -> Nat] /\ receiving \in [Ops -> Nat] /\ unnoticed \in [Ops -> Nat]
  /\ answering \subseteq Ops \X S!Request
  /\ sender \in Seq(Clients) /\ Len(sender) <= Typed
  /\ inbox \in [Clients -> Seq(1..Typed)] /\ shown \in [Clients -> Seq(1..Typed)]

\* The numbers of the requests in a queue of the server, and of those it answers.
Asked(o, n) == \E r \in S!Request : Listed(requests[o], r) /\ r.no = n
Answering(n) == \E a \in answering : a[2].no = n

\* A request is in one place, once: in a queue of the server, ...
AskedOnce ==
  \A o \in Ops :
    /\ OnceEach(requests[o])
    /\ \A q, r \in S!Request : Listed(requests[o], q) /\ Listed(requests[o], r) /\ q.no = r.no => q = r
    /\ \A n \in 1..Typed : Asked(o, n) =>
         /\ n <= Len(sender) /\ ~Answering(n)
         /\ \A p \in Ops \ {o} : ~Asked(p, n)
         /\ \A c \in Clients : ~Listed(inbox[c], n) /\ ~Listed(shown[c], n)

\* ... with a thread that answers it, ...
AnsweringOnce ==
  /\ \A a, d \in answering : a[2].no = d[2].no => a = d
  /\ \A n \in 1..Typed : Answering(n) =>
       n <= Len(sender) /\ \A c \in Clients : ~Listed(inbox[c], n) /\ ~Listed(shown[c], n)

\* ... or, answered, in the queue of its client or printed.
AnsweredAt ==
  \A c \in Clients :
    /\ OnceEach(inbox[c]) /\ OnceEach(shown[c])
    /\ \A n \in 1..Typed : Listed(inbox[c], n) \/ Listed(shown[c], n) => n <= Len(sender) /\ sender[n] = c
    /\ \A n \in 1..Typed : ~(Listed(inbox[c], n) /\ Listed(shown[c], n))

ServerInv == ServerTypes /\ S!OneForEachNotice /\ AskedOnce /\ AnsweringOnce /\ AnsweredAt

-----------------------------------------------------------------------------
(* The tasks *)

TaskTypes ==
  /\ master \in {"notify", "send", "wait", "interrupted", "test", "finished", "killed"}
  /\ i \in 1..W!All + 1 /\ tasks \in Seq(1..W!All)
  /\ hand \in [1..Hands -> {"receive", "send", "ended"}]
  /\ todo \in [1..Hands -> 0..TasksEach] /\ held \in [1..Hands -> 0..W!All]
  /\ results \in [1..Hands -> Seq(1..W!All)] /\ notified \in [1..Hands -> BOOLEAN]
  /\ raised \subseteq 1..Hands /\ serving \in 0..Hands /\ cursor \in 0..Hands
  /\ printed \in [1..W!All -> Nat]

\* A worker has a task in its hands from its receipt to its result, and ends after the
\* last; nothing happens before all queues are watched.
HandsBusy ==
  /\ \A w \in 1..Hands :
       /\ hand[w] = "send" <=> held[w] # 0
       /\ hand[w] = "ended" <=> todo[w] = 0
  /\ master = "notify" =>
       /\ tasks = <<>> /\ raised = {} /\ serving = 0 /\ i <= Hands
       /\ \A w \in 1..Hands : hand[w] = "receive" /\ results[w] = <<>>
       /\ \A t \in 1..W!All : printed[t] = 0
  /\ master = "send" => i <= W!All

\* A task that has been sent is in one place at most: in the queue, with a worker, in a
\* queue of results or printed.
TaskOnce ==
  /\ OnceEach(tasks) /\ \A w \in 1..Hands : OnceEach(results[w])
  /\ \A t \in 1..W!All :
       /\ printed[t] \in {0, 1} /\ (printed[t] = 1 => t < i)
       /\ Listed(tasks, t) =>
            t < i /\ printed[t] = 0 /\ \A w \in 1..Hands : held[w] # t /\ ~Listed(results[w], t)
       /\ \A w \in 1..Hands :
            /\ held[w] = t => t < i /\ printed[t] = 0 /\ \A v \in 1..Hands :
                                   ~Listed(results[v], t) /\ (v # w => held[v] # t)
            /\ Listed(results[w], t) => t < i /\ printed[t] = 0 /\ \A v \in 1..Hands \ {w} : ~Listed(results[v], t)

\* The tasks that have a result, as many as the workers have made.
WithResult == {t \in 1..W!All : printed[t] = 1 \/ \E w \in 1..Hands : Listed(results[w], t)}
Made == {q \in (1..Hands) \X (1..TasksEach) : q[2] > todo[q[1]]}
MadeCounted == Cardinality(WithResult) = Cardinality(Made)

\* A result is read by the handler that runs, or by one to come; an unwatched queue has
\* told of its message.
ResultsSeen ==
  /\ serving = 0 => cursor = 0
  /\ \A w \in 1..Hands :
       /\ results[w] # <<>> => raised # {} \/ (serving # 0 /\ (cursor = 0 \/ cursor <= w))
       /\ \/ notified[w] \/ w \in raised \/ (serving = w /\ cursor = 0)
          \/ master = "notify" /\ i <= w

\* When all workers have ended, and no handler is to come, everything is printed.
AllPrinted == master = "finished" /\ ~hasty => \A t \in 1..W!All : printed[t] = 1

TaskInv == TaskTypes /\ HandsBusy /\ TaskOnce /\ MadeCounted /\ ResultsSeen /\ AllPrinted

-----------------------------------------------------------------------------
(* The first version: proofs *)

\* A queue of at most one message.
LEMMA OneMessage ==
  ASSUME NEW m
  PROVE  Append(<<>>, m) = <<m>> /\ Head(<<m>>) = m /\ Tail(<<m>>) = <<>> /\ <<m>> # <<>>
OBVIOUS

\* The server and its child keep to their parts.
LEMMA SumStep ==
  ASSUME SumInv, A!Next
  PROVE  SumInv'
<1> USE OneMessage
<1>1. CASE A!SumNotify
  BY <1>1 DEF SumInv, A!SumNotify, A!signals
<1>2. CASE A!SumReceive
  BY <1>2 DEF SumInv, A!SumReceive
<1>3. CASE A!SumSend
  BY <1>3 DEF SumInv, A!SumSend, A!Send, A!signals
<1>4. CASE A!AskSend
  BY <1>4 DEF SumInv, A!AskSend, A!Send, A!signals
<1>5. CASE A!AskNotify
  BY <1>5 DEF SumInv, A!AskNotify, A!signals
<1>6. CASE A!AskReceive
  BY <1>6 DEF SumInv, A!AskReceive
<1> QED
  BY <1>1, <1>2, <1>3, <1>4, <1>5, <1>6 DEF A!Next, A!SumStep, A!AskStep

\* It holds at the start.
LEMMA SumInit == A!Init => SumInv
BY DEF A!Init, SumInv

\* The child is given the sum at most once, and never its own request.
LEMMA SumsOnly == SumInv => A!OnlySums
BY DEF SumInv, A!OnlySums

-----------------------------------------------------------------------------
(* Families of queues *)

\* Nothing is in an empty queue.
LEMMA ListedEmpty == Len(<<>>) = 0 /\ OnceEach(<<>>) /\ \A x : ~Listed(<<>>, x)
<1>1. Len(<<>>) = 0 /\ DOMAIN <<>> = {}
  OBVIOUS
<1> QED
  BY <1>1, Zenon DEF OnceEach, Listed

\* In a family f of queues, a message x comes to the end of that of c, or the first one
\* of it is taken; g is the family after that.
Puts(f, I, D, c, x, g) == f \in [I -> Seq(D)] /\ c \in I /\ x \in D /\ g = [f EXCEPT ![c] = Append(f[c], x)]
Takes(f, I, D, c, g) == f \in [I -> Seq(D)] /\ c \in I /\ f[c] # <<>> /\ g = [f EXCEPT ![c] = Tail(f[c])]

\* What is in the queues then.
Longer(f, I, D, c, x, g) ==
  /\ g \in [I -> Seq(D)] /\ g[c] # <<>> /\ Len(g[c]) = Len(f[c]) + 1 /\ \A d \in I \ {c} : g[d] = f[d]
  /\ \A d \in I : \A y : Listed(g[d], y) <=> Listed(f[d], y) \/ (d = c /\ y = x)
  /\ ~Listed(f[c], x) => \A d \in I : OnceEach(f[d]) => OnceEach(g[d])
Shorter(f, I, D, c, g) ==
  /\ Head(f[c]) \in D /\ Listed(f[c], Head(f[c]))
  /\ g \in [I -> Seq(D)] /\ Len(g[c]) = Len(f[c]) - 1 /\ \A d \in I \ {c} : g[d] = f[d]
  /\ \A d \in I : OnceEach(g[d])
  /\ \A d \in I : \A y : Listed(g[d], y) <=> Listed(f[d], y) /\ ~(d = c /\ y = Head(f[c]))

\* A message more at the end of a queue of the family.
LEMMA FamilyPuts ==
  ASSUME NEW D, NEW I, NEW f, NEW c, NEW x, NEW g, Puts(f, I, D, c, x, g)
  PROVE  Longer(f, I, D, c, x, g)
<1> USE DEF Puts
<1>1. f[c] \in Seq(D)
  OBVIOUS
<1>2. /\ Append(f[c], x) \in Seq(D) /\ Len(Append(f[c], x)) = Len(f[c]) + 1 /\ Append(f[c], x) # <<>>
      /\ \A y : Listed(Append(f[c], x), y) <=> Listed(f[c], y) \/ y = x
      /\ OnceEach(f[c]) /\ ~Listed(f[c], x) => OnceEach(Append(f[c], x))
  BY <1>1, ListedAppend
<1>3. g[c] = Append(f[c], x) /\ \A d \in I \ {c} : g[d] = f[d]
  BY Zenon
<1>4. g \in [I -> Seq(D)]
  BY <1>2, Zenon
<1>5. ASSUME NEW d \in I PROVE \A y : Listed(g[d], y) <=> Listed(f[d], y) \/ (d = c /\ y = x)
  <2>1. CASE d = c
    BY <1>2, <1>3, <2>1, Zenon
  <2>2. CASE d # c
    BY <1>3, <2>2, Zenon
  <2> QED
    BY <2>1, <2>2
<1>6. ASSUME ~Listed(f[c], x), NEW d \in I, OnceEach(f[d]) PROVE OnceEach(g[d])
  BY <1>2, <1>3, <1>6, Zenon
<1> QED
  BY <1>2, <1>3, <1>4, <1>5, <1>6, Zenon DEF Longer

\* The first message of a queue of the family is gone.
LEMMA FamilyTakes ==
  ASSUME NEW D, NEW I, NEW f, NEW c, NEW g, Takes(f, I, D, c, g), \A d \in I : OnceEach(f[d])
  PROVE  Shorter(f, I, D, c, g)
<1> USE DEF Takes
<1>1. f[c] \in Seq(D) /\ f[c] # <<>>
  OBVIOUS
<1>2. /\ Head(f[c]) \in D /\ Listed(f[c], Head(f[c]))
      /\ Tail(f[c]) \in Seq(D) /\ Len(Tail(f[c])) = Len(f[c]) - 1 /\ OnceEach(Tail(f[c]))
      /\ \A y : Listed(Tail(f[c]), y) <=> Listed(f[c], y) /\ y # Head(f[c])
  BY <1>1, ListedTail, Zenon
<1>3. g[c] = Tail(f[c]) /\ \A d \in I \ {c} : g[d] = f[d]
  BY Zenon
<1>4. g \in [I -> Seq(D)]
  BY <1>2, Zenon
<1>5. ASSUME NEW d \in I
      PROVE  OnceEach(g[d]) /\ \A y : Listed(g[d], y) <=> Listed(f[d], y) /\ ~(d = c /\ y = Head(f[c]))
  <2>1. CASE d = c
    BY <1>2, <1>3, <2>1, Zenon
  <2>2. CASE d # c
    BY <1>3, <2>2, Zenon
  <2> QED
    BY <2>1, <2>2
<1> QED
  BY <1>2, <1>3, <1>4, <1>5, Zenon DEF Shorter

-----------------------------------------------------------------------------
(* The server and its clients: proofs *)

\* Requests are records of a number and a flag.
LEMMA Requests ==
  /\ \A r \in S!Request : r.no \in 1..Typed
  /\ \A n \in 1..Typed : \A z \in BOOLEAN :
       [no |-> n, zero |-> z] \in S!Request /\ [no |-> n, zero |-> z].no = n
BY DEF S!Request

\* It holds at the start.
LEMMA ServerInit == S!Init => ServerInv
<1> SUFFICES ASSUME S!Init PROVE ServerInv
  OBVIOUS
<1> USE DEF S!Init
<1>1. ServerTypes
  <2>1. \A D : <<>> \in Seq(D)
    BY EmptySeq
  <2>2. Len(sender) <= Typed
    BY ListedEmpty, LabAssumption DEF LabAssumption
  <2>3. /\ requests \in [Ops -> Seq(S!Request)] /\ sender \in Seq(Clients)
        /\ inbox \in [Clients -> Seq(1..Typed)] /\ shown \in [Clients -> Seq(1..Typed)]
    BY <2>1, Zenon
  <2>4. rearming \in [Ops -> Nat] /\ receiving \in [Ops -> Nat] /\ unnoticed \in [Ops -> Nat]
    OBVIOUS
  <2> QED
    BY <2>2, <2>3, <2>4, Zenon DEF ServerTypes
<1>2. S!OneForEachNotice
  <2>1. ASSUME NEW o \in Ops PROVE Len(requests[o]) = 0 /\ rearming[o] = 0 /\ receiving[o] = 0 /\ unnoticed[o] = 0
    BY ListedEmpty, Zenon
  <2>2. \A o \in Ops : Len(requests[o]) = rearming[o] + receiving[o] + unnoticed[o]
    BY <2>1
  <2> QED
    BY <2>2, Zenon DEF S!OneForEachNotice
<1>3. AskedOnce
  BY ListedEmpty, Zenon DEF AskedOnce, Asked
<1>4. AnsweringOnce
  BY Zenon DEF AnsweringOnce, Answering
<1>5. AnsweredAt
  BY ListedEmpty, Zenon DEF AnsweredAt
<1> QED
  BY <1>1, <1>2, <1>3, <1>4, <1>5 DEF ServerInv

\* A step that moves no message.
LEMMA NothingMoves ==
  ASSUME AskedOnce, AnsweringOnce, AnsweredAt, UNCHANGED <<requests, answering, sender, inbox, shown>>
  PROVE  AskedOnce' /\ AnsweringOnce' /\ AnsweredAt'
<1>1. /\ \A o \in Ops, n \in 1..Typed : Asked(o, n)' <=> Asked(o, n)
      /\ \A n \in 1..Typed : Answering(n)' <=> Answering(n)
  BY DEF Asked, Answering
<1>2. AskedOnce'
  BY <1>1, Zenon DEF AskedOnce
<1>3. AnsweringOnce'
  BY <1>1, Zenon DEF AnsweringOnce
<1>4. AnsweredAt'
  BY Zenon DEF AnsweredAt
<1> QED
  BY <1>2, <1>3, <1>4

\* A thread of the server takes a request from a queue.
LEMMA ReceiveMoves ==
  ASSUME ServerInv, NEW o \in Ops, S!Receive(o)
  PROVE  AskedOnce' /\ AnsweringOnce' /\ AnsweredAt'
<1> DEFINE r == Head(requests[o])
<1>1. Takes(requests, Ops, S!Request, o, requests') /\ \A p \in Ops : OnceEach(requests[p])
  BY Zenon DEF ServerInv, ServerTypes, AskedOnce, S!Receive, Takes
<1>2. /\ r \in S!Request /\ Listed(requests[o], r)
      /\ \A p \in Ops : \A q : Listed(requests'[p], q) <=> Listed(requests[p], q) /\ ~(p = o /\ q = r)
      /\ \A p \in Ops : OnceEach(requests'[p])
  <2>1. Shorter(requests, Ops, S!Request, o, requests')
    BY <1>1, FamilyTakes, Zenon
  <2> QED
    BY <2>1, Zenon DEF Shorter
<1>3. /\ answering' = answering \cup {<<o, r>>} /\ UNCHANGED <<sender, inbox, shown>>
      /\ \A a \in answering : a[2] \in S!Request
  BY DEF S!Receive, ServerInv, ServerTypes, S!answers
<1>4. r.no \in 1..Typed /\ <<o, r>>[2] = r
  BY <1>2, Requests
<1>5. /\ \A p \in Ops, n \in 1..Typed : Asked(p, n)' => Asked(p, n) /\ ~(p = o /\ n = r.no)
      /\ Asked(o, r.no)
  <2>1. ASSUME NEW p \in Ops, NEW n \in 1..Typed, Asked(p, n)' PROVE Asked(p, n) /\ ~(p = o /\ n = r.no)
    <3>1. PICK q \in S!Request : Listed(requests'[p], q) /\ q.no = n
      BY <2>1, Zenon DEF Asked
    <3>2. Listed(requests[p], q) /\ ~(p = o /\ q = r)
      BY <1>2, <3>1, Zenon
    <3>3. p = o /\ n = r.no => q = r
      BY <1>2, <3>1, <3>2, Zenon DEF ServerInv, AskedOnce
    <3> QED
      BY <3>1, <3>2, <3>3, Zenon DEF Asked
  <2>2. Asked(o, r.no)
    BY <1>2, Zenon DEF Asked
  <2> QED
    BY <2>1, <2>2
<1>6. \A n \in 1..Typed : Answering(n)' <=> Answering(n) \/ n = r.no
  BY <1>3, <1>4, Zenon DEF Answering
<1> HIDE DEF r
<1>7. /\ r.no <= Len(sender) /\ ~Answering(r.no)
      /\ \A p \in Ops \ {o} : ~Asked(p, r.no)
      /\ \A c \in Clients : ~Listed(inbox[c], r.no) /\ ~Listed(shown[c], r.no)
  BY <1>4, <1>5, Zenon DEF ServerInv, AskedOnce
<1>8. AskedOnce'
  <2>1. ASSUME NEW p \in Ops, NEW n \in 1..Typed, Asked(p, n)'
        PROVE  /\ n <= Len(sender) /\ ~Answering(n)' /\ \A d \in Ops \ {p} : ~Asked(d, n)'
               /\ \A c \in Clients : ~Listed(inbox[c], n) /\ ~Listed(shown[c], n)
    <3>1. Asked(p, n) /\ n # r.no
      BY <1>5, <1>7, <2>1, Zenon
    <3>2. /\ n <= Len(sender) /\ ~Answering(n) /\ \A d \in Ops \ {p} : ~Asked(d, n)
          /\ \A c \in Clients : ~Listed(inbox[c], n) /\ ~Listed(shown[c], n)
      BY <3>1, Zenon DEF ServerInv, AskedOnce
    <3> QED
      BY <1>5, <1>6, <3>1, <3>2, Zenon
  <2>2. ASSUME NEW p \in Ops, NEW q \in S!Request, NEW d \in S!Request,
               Listed(requests'[p], q), Listed(requests'[p], d), q.no = d.no
        PROVE  q = d
    BY <1>2, <2>2, Zenon DEF ServerInv, AskedOnce
  <2> QED
    BY <1>2, <1>3, <2>1, <2>2, Zenon DEF AskedOnce
<1>9. AnsweringOnce'
  <2>1. ASSUME NEW a \in answering', NEW d \in answering', a[2].no = d[2].no PROVE a = d
    <3>1. CASE a \in answering /\ d \in answering
      BY <2>1, <3>1, Zenon DEF ServerInv, AnsweringOnce
    <3>2. \A b \in answering : b[2].no # r.no
      BY <1>7, Zenon DEF Answering
    <3> QED
      BY <1>3, <1>4, <2>1, <3>1, <3>2, Zenon
  <2>2. ASSUME NEW n \in 1..Typed, Answering(n)'
        PROVE  n <= Len(sender) /\ \A c \in Clients : ~Listed(inbox[c], n) /\ ~Listed(shown[c], n)
    BY <1>6, <1>7, <2>2, Zenon DEF ServerInv, AnsweringOnce
  <2> QED
    BY <1>3, <2>1, <2>2, Zenon DEF AnsweringOnce
<1>10. AnsweredAt'
  BY <1>3, Zenon DEF ServerInv, AnsweredAt
<1> QED
  BY <1>8, <1>9, <1>10

\* A client takes the next number; its request comes to the end of a queue.
LEMMA SendMoves ==
  ASSUME ServerInv, NEW c \in Clients, S!Send(c)
  PROVE  /\ sender' \in Seq(Clients) /\ Len(sender') <= Typed
         /\ requests' \in [Ops -> Seq(S!Request)]
         /\ AskedOnce' /\ AnsweringOnce' /\ AnsweredAt'
<1>0. PICK n0 : n0 = Len(sender) + 1
  OBVIOUS
<1>1. sender \in Seq(Clients) /\ sender' = Append(sender, c) /\ Len(sender) < Typed
      /\ UNCHANGED <<answering, inbox, shown>> /\ requests \in [Ops -> Seq(S!Request)]
  BY Zenon DEF ServerInv, ServerTypes, S!Send, S!answers
<1>2. /\ sender' \in Seq(Clients) /\ Len(sender') = n0 /\ Len(sender) \in Nat
      /\ \A n \in 1..Len(sender) : sender'[n] = sender[n]
  BY <1>0, <1>1, AppendProperties, LenProperties
<1>3. /\ Len(sender') <= Typed /\ n0 <= Len(sender') /\ n0 \in 1..Typed /\ ~(n0 <= Len(sender))
      /\ \A n \in 1..Typed : n <= Len(sender) => n <= Len(sender') /\ n \in 1..Len(sender)
  BY <1>0, <1>1, <1>2, LabAssumption DEF LabAssumption
<1>4. /\ \A p \in Ops : ~Asked(p, n0)
      /\ ~Answering(n0)
      /\ \A d \in Clients : ~Listed(inbox[d], n0) /\ ~Listed(shown[d], n0)
  BY <1>3, Zenon DEF ServerInv, AskedOnce, AnsweringOnce, AnsweredAt
<1>5. /\ requests' \in [Ops -> Seq(S!Request)] /\ \A p \in Ops : OnceEach(requests'[p])
      /\ \A p \in Ops : \A q \in S!Request : Listed(requests'[p], q) => Listed(requests[p], q) \/ q.no = n0
      /\ \A p, d \in Ops : \A q, r \in S!Request :
           /\ Listed(requests'[p], q) /\ q.no = n0 /\ Listed(requests'[d], r) /\ r.no = n0
           => p = d /\ q = r
  <2>1. CASE UNCHANGED requests
    BY <1>1, <1>4, <2>1, Zenon DEF ServerInv, AskedOnce, Asked
  <2>2. ASSUME NEW o \in Ops, NEW z \in BOOLEAN,
               requests' = [requests EXCEPT ![o] = Append(@, [no |-> Len(sender'), zero |-> z])]
        PROVE  <1>5!:
    <3> DEFINE r == [no |-> n0, zero |-> z]
    <3>1. r \in S!Request /\ r.no = n0
      BY <1>3, Requests
    <3>2. requests' = [requests EXCEPT ![o] = Append(requests[o], r)]
      BY <1>2, <2>2
    <3> HIDE DEF r
    <3>3. Puts(requests, Ops, S!Request, o, r, requests')
      BY <1>1, <3>1, <3>2, Zenon DEF Puts
    <3>4. Longer(requests, Ops, S!Request, o, r, requests')
      BY <3>3, FamilyPuts, Zenon
    <3>5. ~Listed(requests[o], r)
      BY <1>4, <3>1, Zenon DEF Asked
    <3>6. /\ requests' \in [Ops -> Seq(S!Request)] /\ \A p \in Ops : OnceEach(requests'[p])
          /\ \A p \in Ops : \A q : Listed(requests'[p], q) <=> Listed(requests[p], q) \/ (p = o /\ q = r)
      BY <3>4, <3>5, Zenon DEF Longer, ServerInv, AskedOnce
    <3>7. \A p \in Ops : \A q \in S!Request : Listed(requests'[p], q) /\ q.no = n0 => p = o /\ q = r
      BY <1>4, <3>6, Zenon DEF Asked
    <3> QED
      BY <3>1, <3>6, <3>7, Zenon
  <2>3. \A o \in Ops : \A z : z \in (IF o = "s" THEN {FALSE} ELSE BOOLEAN) => z \in BOOLEAN
    BY Zenon
  <2> QED
    BY <2>1, <2>2, <2>3, Zenon DEF S!Send
<1>6. /\ \A p \in Ops, n \in 1..Typed : Asked(p, n)' => Asked(p, n) \/ n = n0
      /\ \A p, d \in Ops : Asked(p, n0)' /\ Asked(d, n0)' => p = d
      /\ \A n \in 1..Typed : Answering(n)' <=> Answering(n)
  <2>1. ASSUME NEW p \in Ops, NEW n \in 1..Typed, Asked(p, n)' PROVE Asked(p, n) \/ n = n0
    <3>1. PICK q \in S!Request : Listed(requests'[p], q) /\ q.no = n
      BY <2>1, Zenon DEF Asked
    <3> QED
      BY <1>5, <3>1, Zenon DEF Asked
  <2>2. ASSUME NEW p \in Ops, NEW d \in Ops, Asked(p, n0)', Asked(d, n0)' PROVE p = d
    <3>1. PICK q \in S!Request : Listed(requests'[p], q) /\ q.no = n0
      BY <2>2, Zenon DEF Asked
    <3>2. PICK r \in S!Request : Listed(requests'[d], r) /\ r.no = n0
      BY <2>2, Zenon DEF Asked
    <3> QED
      BY <1>5, <3>1, <3>2, Zenon
  <2>3. ASSUME NEW n \in 1..Typed PROVE Answering(n)' <=> Answering(n)
    BY <1>1, Zenon DEF Answering
  <2> QED
    BY <2>1, <2>2, <2>3, Zenon
<1>7. AskedOnce'
  <2>1. ASSUME NEW p \in Ops, NEW n \in 1..Typed, Asked(p, n)'
        PROVE  /\ n <= Len(sender') /\ ~Answering(n)' /\ \A d \in Ops \ {p} : ~Asked(d, n)'
               /\ \A d \in Clients : ~Listed(inbox[d], n) /\ ~Listed(shown[d], n)
    <3>1. CASE n = n0
      BY <1>3, <1>4, <1>6, <2>1, <3>1, Zenon
    <3>2. CASE n # n0
      <4>1. /\ n <= Len(sender) /\ ~Answering(n) /\ \A d \in Ops \ {p} : ~Asked(d, n)
            /\ \A d \in Clients : ~Listed(inbox[d], n) /\ ~Listed(shown[d], n)
        BY <1>6, <2>1, <3>2, Zenon DEF ServerInv, AskedOnce
      <4> QED
        BY <1>3, <1>6, <3>2, <4>1, Zenon
    <3> QED
      BY <3>1, <3>2
  <2>2. ASSUME NEW p \in Ops, NEW q \in S!Request, NEW d \in S!Request,
               Listed(requests'[p], q), Listed(requests'[p], d), q.no = d.no
        PROVE  q = d
    <3>1. CASE q.no = n0
      BY <1>5, <2>2, <3>1, Zenon
    <3>2. CASE q.no # n0
      BY <1>5, <2>2, <3>2, Zenon DEF ServerInv, AskedOnce
    <3> QED
      BY <3>1, <3>2
  <2> QED
    BY <1>1, <1>5, <2>1, <2>2, Zenon DEF AskedOnce
<1>8. AnsweringOnce'
  <2>1. ASSUME NEW n \in 1..Typed, Answering(n)'
        PROVE  n <= Len(sender') /\ \A d \in Clients : ~Listed(inbox[d], n) /\ ~Listed(shown[d], n)
    BY <1>3, <1>6, <2>1, Zenon DEF ServerInv, AnsweringOnce
  <2>2. \A a, d \in answering : a[2].no = d[2].no => a = d
    BY Zenon DEF ServerInv, AnsweringOnce
  <2> QED
    BY <1>1, <2>1, <2>2, Zenon DEF AnsweringOnce
<1>9. AnsweredAt'
  <2>1. ASSUME NEW d \in Clients, NEW n \in 1..Typed, Listed(inbox[d], n) \/ Listed(shown[d], n)
        PROVE  n <= Len(sender') /\ sender'[n] = d
    <3>1. n <= Len(sender) /\ sender[n] = d
      BY <2>1, Zenon DEF ServerInv, AnsweredAt
    <3> QED
      BY <1>2, <1>3, <3>1, Zenon
  <2> QED
    BY <1>1, <2>1, Zenon DEF ServerInv, AnsweredAt
<1> QED
  BY <1>2, <1>3, <1>5, <1>7, <1>8, <1>9

\* A request is answered: its number comes to the queue of its client, or is printed
\* there, or the server fails.
LEMMA AnswerMoves ==
  ASSUME ServerInv, NEW a \in answering, S!Answer(a)
  PROVE  /\ inbox' \in [Clients -> Seq(1..Typed)] /\ shown' \in [Clients -> Seq(1..Typed)]
         /\ AskedOnce' /\ AnsweringOnce' /\ AnsweredAt'
<1>0. PICK n0 : n0 = a[2].no
  OBVIOUS
<1>1. PICK c0 : c0 = sender[n0]
  OBVIOUS
<1>2. n0 \in 1..Typed /\ Answering(n0)
  <2>1. a[2] \in S!Request
    BY Zenon DEF ServerInv, ServerTypes
  <2> QED
    BY <1>0, <2>1, Requests, Zenon DEF Answering
<1>3. n0 <= Len(sender) /\ \A c \in Clients : ~Listed(inbox[c], n0) /\ ~Listed(shown[c], n0)
  BY <1>2, Zenon DEF ServerInv, AnsweringOnce
<1>4. c0 \in Clients
  <2>1. sender \in Seq(Clients) /\ n0 \in 1..Len(sender)
    <3>1. sender \in Seq(Clients) /\ Len(sender) \in Nat
      BY LenProperties, Zenon DEF ServerInv, ServerTypes
    <3> QED
      BY <1>2, <1>3, <3>1
  <2> QED
    BY <1>1, <2>1, ElementOfSeq, Zenon
<1>5. /\ answering' = answering \ {a} /\ UNCHANGED <<requests, sender>>
      /\ inbox \in [Clients -> Seq(1..Typed)] /\ shown \in [Clients -> Seq(1..Typed)]
      /\ \A c \in Clients : OnceEach(inbox[c]) /\ OnceEach(shown[c])
  BY Zenon DEF S!Answer, S!queues, ServerInv, ServerTypes, AnsweredAt
<1>6. \/ UNCHANGED <<inbox, shown>>
      \/ UNCHANGED inbox /\ Puts(shown, Clients, 1..Typed, c0, n0, shown')
      \/ UNCHANGED shown /\ Puts(inbox, Clients, 1..Typed, c0, n0, inbox')
  BY <1>0, <1>1, <1>2, <1>4, <1>5, Zenon DEF S!Answer, S!Deliver, S!answers, Puts
<1>7. /\ inbox' \in [Clients -> Seq(1..Typed)] /\ shown' \in [Clients -> Seq(1..Typed)]
      /\ \A c \in Clients : OnceEach(inbox'[c]) /\ OnceEach(shown'[c])
      /\ \A c \in Clients : \A n : Listed(inbox'[c], n) => Listed(inbox[c], n) \/ (c = c0 /\ n = n0)
      /\ \A c \in Clients : \A n : Listed(shown'[c], n) => Listed(shown[c], n) \/ (c = c0 /\ n = n0)
      /\ \A c \in Clients : ~(Listed(inbox'[c], n0) /\ Listed(shown'[c], n0))
  <2>1. CASE UNCHANGED <<inbox, shown>>
    BY <1>3, <1>5, <2>1, Zenon
  <2>2. CASE UNCHANGED inbox /\ Puts(shown, Clients, 1..Typed, c0, n0, shown')
    <3>1. Longer(shown, Clients, 1..Typed, c0, n0, shown')
      BY <2>2, FamilyPuts, Zenon
    <3>2. ~Listed(shown[c0], n0)
      BY <1>3, <1>4, Zenon
    <3> QED
      BY <1>3, <1>5, <2>2, <3>1, <3>2, Zenon DEF Longer
  <2>3. CASE UNCHANGED shown /\ Puts(inbox, Clients, 1..Typed, c0, n0, inbox')
    <3>1. Longer(inbox, Clients, 1..Typed, c0, n0, inbox')
      BY <2>3, FamilyPuts, Zenon
    <3>2. ~Listed(inbox[c0], n0)
      BY <1>3, <1>4, Zenon
    <3> QED
      BY <1>3, <1>5, <2>3, <3>1, <3>2, Zenon DEF Longer
  <2> QED
    BY <1>6, <2>1, <2>2, <2>3
<1>8. /\ \A n \in 1..Typed : Answering(n)' => Answering(n) /\ n # n0
      /\ \A p \in Ops, n \in 1..Typed : Asked(p, n)' <=> Asked(p, n)
  <2>1. ASSUME NEW n \in 1..Typed, Answering(n)' PROVE Answering(n) /\ n # n0
    <3>1. PICK d \in answering : d # a /\ d[2].no = n
      BY <1>5, <2>1, Zenon DEF Answering
    <3>2. n # n0
      BY <1>0, <3>1, Zenon DEF ServerInv, AnsweringOnce
    <3> QED
      BY <3>1, <3>2, Zenon DEF Answering
  <2>2. ASSUME NEW p \in Ops, NEW n \in 1..Typed PROVE Asked(p, n)' <=> Asked(p, n)
    BY <1>5, Zenon DEF Asked
  <2> QED
    BY <2>1, <2>2
<1>9. AskedOnce'
  <2>1. ASSUME NEW p \in Ops, NEW n \in 1..Typed, Asked(p, n)'
        PROVE  /\ n <= Len(sender) /\ ~Answering(n)' /\ \A d \in Ops \ {p} : ~Asked(d, n)'
               /\ \A c \in Clients : ~Listed(inbox'[c], n) /\ ~Listed(shown'[c], n)
    <3>1. /\ n <= Len(sender) /\ ~Answering(n) /\ \A d \in Ops \ {p} : ~Asked(d, n)
          /\ \A c \in Clients : ~Listed(inbox[c], n) /\ ~Listed(shown[c], n)
      BY <1>8, <2>1, Zenon DEF ServerInv, AskedOnce
    <3> QED
      BY <1>2, <1>7, <1>8, <3>1, Zenon
  <2> QED
    BY <1>5, <2>1, Zenon DEF ServerInv, AskedOnce
<1>10. AnsweringOnce'
  <2>1. ASSUME NEW n \in 1..Typed, Answering(n)'
        PROVE  n <= Len(sender) /\ \A c \in Clients : ~Listed(inbox'[c], n) /\ ~Listed(shown'[c], n)
    BY <1>7, <1>8, <2>1, Zenon DEF ServerInv, AnsweringOnce
  <2>2. \A d, e \in answering' : d[2].no = e[2].no => d = e
    BY <1>5, Zenon DEF ServerInv, AnsweringOnce
  <2> QED
    BY <1>5, <2>1, <2>2, Zenon DEF AnsweringOnce
<1>11. AnsweredAt'
  <2>1. ASSUME NEW c \in Clients, NEW n \in 1..Typed, Listed(inbox'[c], n) \/ Listed(shown'[c], n)
        PROVE  n <= Len(sender) /\ sender[n] = c
    <3>1. CASE Listed(inbox[c], n) \/ Listed(shown[c], n)
      BY <3>1, Zenon DEF ServerInv, AnsweredAt
    <3>2. CASE c = c0 /\ n = n0
      BY <1>1, <1>3, <3>2, Zenon
    <3>3. /\ Listed(inbox'[c], n) => Listed(inbox[c], n) \/ (c = c0 /\ n = n0)
          /\ Listed(shown'[c], n) => Listed(shown[c], n) \/ (c = c0 /\ n = n0)
      BY <1>7
    <3> QED
      BY <2>1, <3>1, <3>2, <3>3
  <2>2. ASSUME NEW c \in Clients, NEW n \in 1..Typed PROVE ~(Listed(inbox'[c], n) /\ Listed(shown'[c], n))
    <3>1. CASE n = n0
      BY <1>7, <3>1, Zenon
    <3>2. CASE n # n0
      <4>1. ~(Listed(inbox[c], n) /\ Listed(shown[c], n))
        BY Zenon DEF ServerInv, AnsweredAt
      <4>2. Listed(inbox'[c], n) => Listed(inbox[c], n)
        BY <1>7, <3>2
      <4>3. Listed(shown'[c], n) => Listed(shown[c], n)
        BY <1>7, <3>2
      <4> QED
        BY <4>1, <4>2, <4>3
    <3> QED
      BY <3>1, <3>2
  <2> QED
    BY <1>5, <1>7, <2>1, <2>2, Zenon DEF AnsweredAt
<1> QED
  BY <1>7, <1>9, <1>10, <1>11

\* A client prints the first answer of its queue, in the reading thread or in the handler.
LEMMA TakeMoves ==
  ASSUME ServerInv, NEW c \in Clients, inbox[c] # <<>>,
         shown' = [shown EXCEPT ![c] = Append(@, Head(inbox[c]))],
         inbox' = [inbox EXCEPT ![c] = Tail(@)], UNCHANGED <<requests, answering, sender>>
  PROVE  /\ inbox' \in [Clients -> Seq(1..Typed)] /\ shown' \in [Clients -> Seq(1..Typed)]
         /\ AskedOnce' /\ AnsweringOnce' /\ AnsweredAt'
<1>0. PICK n0 : n0 = Head(inbox[c])
  OBVIOUS
<1>1. Takes(inbox, Clients, 1..Typed, c, inbox') /\ \A d \in Clients : OnceEach(inbox[d])
  BY Zenon DEF ServerInv, ServerTypes, AnsweredAt, Takes
<1>2. Shorter(inbox, Clients, 1..Typed, c, inbox')
  BY ONLY <1>1, FamilyTakes, Zenon
<1>3. n0 \in 1..Typed /\ Listed(inbox[c], n0) /\ ~Listed(shown[c], n0)
  BY <1>0, <1>2, Zenon DEF ServerInv, AnsweredAt, Shorter
<1>4. Puts(shown, Clients, 1..Typed, c, n0, shown')
  BY <1>0, <1>3, Zenon DEF Puts, ServerInv, ServerTypes
<1>5. Longer(shown, Clients, 1..Typed, c, n0, shown')
  BY ONLY <1>4, FamilyPuts, Zenon
<1>6. /\ inbox' \in [Clients -> Seq(1..Typed)] /\ shown' \in [Clients -> Seq(1..Typed)]
      /\ \A d \in Clients : OnceEach(inbox'[d]) /\ OnceEach(shown'[d])
  BY ONLY <1>2, <1>3, <1>5, ServerInv, Zenon DEF Shorter, Longer, ServerInv, AnsweredAt
<1>7. /\ \A d \in Clients : \A n : Listed(inbox'[d], n) <=> Listed(inbox[d], n) /\ ~(d = c /\ n = n0)
      /\ \A d \in Clients : \A n : Listed(shown'[d], n) <=> Listed(shown[d], n) \/ (d = c /\ n = n0)
  BY ONLY <1>0, <1>2, <1>5, Zenon DEF Shorter, Longer
<1>8. /\ \A p \in Ops, n \in 1..Typed : Asked(p, n)' <=> Asked(p, n)
      /\ \A n \in 1..Typed : Answering(n)' <=> Answering(n)
      /\ requests' = requests /\ answering' = answering /\ sender' = sender
  BY DEF Asked, Answering
<1>9. AskedOnce'
  <2>1. ASSUME NEW p \in Ops, NEW n \in 1..Typed, Asked(p, n)'
        PROVE  /\ n <= Len(sender) /\ ~Answering(n)' /\ \A d \in Ops \ {p} : ~Asked(d, n)'
               /\ \A d \in Clients : ~Listed(inbox'[d], n) /\ ~Listed(shown'[d], n)
    <3>1. /\ n <= Len(sender) /\ ~Answering(n) /\ \A d \in Ops \ {p} : ~Asked(d, n)
          /\ \A d \in Clients : ~Listed(inbox[d], n) /\ ~Listed(shown[d], n)
      BY <1>8, <2>1, Zenon DEF ServerInv, AskedOnce
    <3> QED
      BY <1>3, <1>7, <1>8, <3>1, Zenon
  <2> QED
    BY ONLY <1>8, <2>1, ServerInv, Zenon DEF ServerInv, AskedOnce
<1>10. AnsweringOnce'
  <2>1. ASSUME NEW n \in 1..Typed, Answering(n)'
        PROVE  n <= Len(sender) /\ \A d \in Clients : ~Listed(inbox'[d], n) /\ ~Listed(shown'[d], n)
    <3>1. n <= Len(sender) /\ \A d \in Clients : ~Listed(inbox[d], n) /\ ~Listed(shown[d], n)
      BY <1>8, <2>1, Zenon DEF ServerInv, AnsweringOnce
    <3> QED
      BY <1>3, <1>7, <3>1, Zenon
  <2> QED
    BY ONLY <1>8, <2>1, ServerInv, Zenon DEF ServerInv, AnsweringOnce
<1>11. AnsweredAt'
  <2>1. ASSUME NEW d \in Clients, NEW n \in 1..Typed, Listed(inbox'[d], n) \/ Listed(shown'[d], n)
        PROVE  n <= Len(sender) /\ sender[n] = d
    <3>1. Listed(inbox[d], n) \/ Listed(shown[d], n)
      BY <1>3, <1>7, <2>1, Zenon
    <3> QED
      BY <3>1, Zenon DEF ServerInv, AnsweredAt
  <2>2. ASSUME NEW d \in Clients, NEW n \in 1..Typed PROVE ~(Listed(inbox'[d], n) /\ Listed(shown'[d], n))
    BY <1>7, Zenon DEF ServerInv, AnsweredAt
  <2> QED
    BY ONLY <1>6, <1>8, <2>1, <2>2, Zenon DEF AnsweredAt
<1> QED
  BY <1>6, <1>9, <1>10, <1>11

\* The types of the counters of the server and of its queues, and what they count.
Counts ==
  /\ server \in {"setup", "run", "done", "failed"}
  /\ requests \in [Ops -> Seq(S!Request)] /\ watched \in [Ops -> BOOLEAN]
  /\ rearming \in [Ops -> Nat] /\ receiving \in [Ops -> Nat] /\ unnoticed \in [Ops -> Nat]
  /\ S!OneForEachNotice

\* The lengths are numbers.
LEMMA Lengths == requests \in [Ops -> Seq(S!Request)] => \A o \in Ops : Len(requests[o]) \in Nat
<1> SUFFICES ASSUME requests \in [Ops -> Seq(S!Request)], NEW o \in Ops PROVE Len(requests[o]) \in Nat
  OBVIOUS
<1>1. requests[o] \in Seq(S!Request)
  BY Zenon
<1> QED
  BY <1>1, LenProperties

\* A thread of the server registers or receives, or main does.
LEMMA ServiceCounts ==
  ASSUME ServerInv, NEW o \in Ops, S!Watch(o) \/ S!Restore(o) \/ S!Receive(o)
  PROVE  Counts'
<1>1. Counts /\ \A p \in Ops : OnceEach(requests[p])
  BY Zenon DEF ServerInv, ServerTypes, Counts, AskedOnce
<1>2. CASE S!Watch(o)
  <2>1. S!Up /\ UNCHANGED <<requests, rearming, receiving, unnoticed>>
    BY <1>2, Zenon DEF S!Watch, S!Up, S!queues
  <2>2. server' \in {"setup", "run", "done", "failed"} /\ watched' \in [Ops -> BOOLEAN]
    BY <1>1, <1>2, Zenon DEF S!Watch, Counts
  <2> QED
    BY <1>1, <2>1, <2>2, Zenon DEF Counts, S!OneForEachNotice
<1>3. CASE S!Restore(o)
  <2>1. /\ S!Up /\ UNCHANGED <<requests, unnoticed>> /\ rearming[o] > 0
        /\ rearming' = [rearming EXCEPT ![o] = @ - 1] /\ receiving' = [receiving EXCEPT ![o] = @ + 1]
    BY <1>3, Zenon DEF S!Restore, S!queues
  <2>2. server' \in {"setup", "run", "done", "failed"} /\ watched' \in [Ops -> BOOLEAN]
    BY <1>1, <1>3, Zenon DEF S!Restore, Counts
  <2>3. rearming \in [Ops -> Nat] /\ receiving \in [Ops -> Nat] /\ unnoticed \in [Ops -> Nat]
    BY <1>1, Zenon DEF Counts
  <2>4. rearming' \in [Ops -> Nat] /\ receiving' \in [Ops -> Nat]
        /\ \A p \in Ops : rearming'[p] + receiving'[p] = rearming[p] + receiving[p]
    BY <2>1, <2>3
  <2>5. \A p \in Ops : rearming'[p] + receiving'[p] + unnoticed[p] = rearming[p] + receiving[p] + unnoticed[p]
    BY <2>3, <2>4
  <2>6. \A p \in Ops : Len(requests'[p]) = rearming'[p] + receiving'[p] + unnoticed'[p]
    BY <1>1, <2>1, <2>5, Zenon DEF Counts, S!OneForEachNotice
  <2> QED
    BY <1>1, <2>1, <2>2, <2>4, <2>6, Zenon DEF Counts, S!OneForEachNotice
<1>4. CASE S!Receive(o)
  <2>1. /\ S!Up /\ UNCHANGED <<server, watched, rearming, unnoticed>> /\ receiving[o] > 0
        /\ receiving' = [receiving EXCEPT ![o] = @ - 1]
        /\ Takes(requests, Ops, S!Request, o, requests')
    BY <1>1, <1>4, Zenon DEF S!Receive, Takes, Counts
  <2>2. Shorter(requests, Ops, S!Request, o, requests')
    BY ONLY <1>1, <2>1, FamilyTakes, Zenon
  <2>3. /\ rearming \in [Ops -> Nat] /\ receiving \in [Ops -> Nat] /\ unnoticed \in [Ops -> Nat]
        /\ \A p \in Ops : Len(requests[p]) = rearming[p] + receiving[p] + unnoticed[p]
    BY <1>1, <2>1, Zenon DEF Counts, S!OneForEachNotice
  <2>4. requests' \in [Ops -> Seq(S!Request)]
    BY <2>2, Zenon DEF Shorter
  <2>5. Len(requests'[o]) = Len(requests[o]) - 1 /\ \A p \in Ops \ {o} : Len(requests'[p]) = Len(requests[p])
    BY <2>2, Zenon DEF Shorter
  <2>6. receiving' \in [Ops -> Nat] /\ receiving'[o] = receiving[o] - 1 /\ \A p \in Ops \ {o} : receiving'[p] = receiving[p]
    BY <2>1, <2>3
  <2>7. \A p \in Ops : Len(requests'[p]) = rearming[p] + receiving'[p] + unnoticed[p]
    <3>1. Len(requests'[o]) = rearming[o] + receiving'[o] + unnoticed[o]
      <4>1. /\ rearming[o] \in Nat /\ receiving[o] \in Nat /\ unnoticed[o] \in Nat
            /\ Len(requests[o]) = rearming[o] + receiving[o] + unnoticed[o]
        BY <2>3, Zenon
      <4> QED
        BY <2>5, <2>6, <4>1
    <3>2. \A p \in Ops \ {o} : Len(requests'[p]) = rearming[p] + receiving'[p] + unnoticed[p]
      BY <2>3, <2>5, <2>6, Zenon
    <3> QED
      BY <3>1, <3>2, Zenon
  <2> QED
    BY <1>1, <2>1, <2>4, <2>6, <2>7, Zenon DEF Counts, S!OneForEachNotice
<1> QED
  BY <1>2, <1>3, <1>4

\* A request raises the count of what it is told of, or of what nobody was told.
LEMMA SendCounts ==
  ASSUME ServerInv, NEW c \in Clients, S!Send(c)
  PROVE  Counts'
<1>1. Counts /\ UNCHANGED <<server, receiving>>
  BY Zenon DEF ServerInv, ServerTypes, Counts, S!Send
<1>2. CASE UNCHANGED <<requests, unnoticed, watched, rearming>>
  BY <1>1, <1>2, Zenon DEF Counts, S!OneForEachNotice, S!Up
<1>3. ASSUME NEW o \in Ops, NEW r \in S!Request, NEW notice \in BOOLEAN,
             requests' = [requests EXCEPT ![o] = Append(@, r)],
             watched' = [watched EXCEPT ![o] = @ /\ ~notice],
             rearming' = [rearming EXCEPT ![o] = IF notice THEN @ + 1 ELSE @],
             unnoticed' = [unnoticed EXCEPT ![o] = IF notice THEN @ ELSE @ + 1]
      PROVE  Counts'
  <2>1. Puts(requests, Ops, S!Request, o, r, requests')
    BY <1>1, <1>3, Zenon DEF Counts, Puts
  <2>2. Longer(requests, Ops, S!Request, o, r, requests')
    BY ONLY <2>1, FamilyPuts, Zenon
  <2>3. requests' \in [Ops -> Seq(S!Request)]
    BY <2>2, Zenon DEF Longer
  <2>4. Len(requests'[o]) = Len(requests[o]) + 1 /\ \A p \in Ops \ {o} : Len(requests'[p]) = Len(requests[p])
    BY <2>2, Zenon DEF Longer
  <2>5. rearming \in [Ops -> Nat] /\ receiving \in [Ops -> Nat] /\ unnoticed \in [Ops -> Nat]
    BY <1>1, Zenon DEF Counts
  <2>6. /\ rearming' \in [Ops -> Nat] /\ unnoticed' \in [Ops -> Nat]
        /\ rearming'[o] + unnoticed'[o] = rearming[o] + unnoticed[o] + 1
        /\ \A p \in Ops \ {o} : rearming'[p] = rearming[p] /\ unnoticed'[p] = unnoticed[p]
    <3>1. CASE notice
      <4>1. rearming' = [rearming EXCEPT ![o] = rearming[o] + 1] /\ unnoticed' = [unnoticed EXCEPT ![o] = unnoticed[o]]
        BY <1>3, <3>1, Zenon
      <4> QED
        BY <4>1, <2>5
    <3>2. CASE ~notice
      <4>1. rearming' = [rearming EXCEPT ![o] = rearming[o]] /\ unnoticed' = [unnoticed EXCEPT ![o] = unnoticed[o] + 1]
        BY <1>3, <3>2, Zenon
      <4> QED
        BY <4>1, <2>5
    <3> QED
      BY <3>1, <3>2
  <2>7. watched' \in [Ops -> BOOLEAN]
    <3>1. (watched[o] /\ ~notice) \in BOOLEAN /\ watched \in [Ops -> BOOLEAN]
      BY <1>1, Zenon DEF Counts
    <3> QED
      BY <1>3, <3>1, Zenon
  <2>8. ASSUME S!Up, NEW p \in Ops PROVE Len(requests'[p]) = rearming'[p] + receiving[p] + unnoticed'[p]
    <3>1. \A d \in Ops : Len(requests[d]) = rearming[d] + receiving[d] + unnoticed[d]
      BY <1>1, <2>8, Zenon DEF Counts, S!OneForEachNotice
    <3>2. Len(requests'[o]) = rearming'[o] + receiving[o] + unnoticed'[o]
      <4>1. /\ rearming[o] \in Nat /\ receiving[o] \in Nat /\ unnoticed[o] \in Nat
            /\ rearming'[o] \in Nat /\ unnoticed'[o] \in Nat
        BY <2>5, <2>6, Zenon
      <4>2. rearming'[o] + unnoticed'[o] = rearming[o] + unnoticed[o] + 1
        BY <2>6
      <4>3. rearming[o] + receiving[o] + unnoticed[o] + 1 = rearming'[o] + receiving[o] + unnoticed'[o]
        BY ONLY <4>1, <4>2
      <4> QED
        BY <2>4, <3>1, <4>3, Zenon
    <3> QED
      BY <2>4, <2>6, <3>1, <3>2, Zenon
  <2> QED
    BY <1>1, <2>3, <2>6, <2>7, <2>8, Zenon DEF Counts, S!OneForEachNotice, S!Up
<1> QED
  <2>1. \A o \in Ops : \A z : z \in (IF o = "s" THEN {FALSE} ELSE BOOLEAN) => z \in BOOLEAN
    BY Zenon
  <2>2. \A z \in BOOLEAN : [no |-> Len(sender'), zero |-> z] \in S!Request
    <3>1. sender \in Seq(Clients) /\ sender' = Append(sender, c) /\ Len(sender) < Typed
      BY Zenon DEF ServerInv, ServerTypes, S!Send
    <3>2. Len(sender') = Len(sender) + 1 /\ Len(sender) \in Nat
      BY <3>1, AppendProperties, LenProperties
    <3>3. Len(sender') \in 1..Typed
      BY <3>1, <3>2, LabAssumption DEF LabAssumption
    <3> QED
      BY <3>3, Requests, Zenon
  <2>3. CASE server = "done"
    BY <1>2, <2>3, Zenon DEF S!Send
  <2>4. CASE server # "done"
    <3>1. PICK o \in Ops, z \in BOOLEAN :
            LET notice == requests[o] = <<>> /\ watched[o] /\ S!Up
            IN  /\ requests' = [requests EXCEPT ![o] = Append(@, [no |-> Len(sender'), zero |-> z])]
                /\ watched' = [watched EXCEPT ![o] = @ /\ ~notice]
                /\ rearming' = [rearming EXCEPT ![o] = IF notice THEN @ + 1 ELSE @]
                /\ unnoticed' = [unnoticed EXCEPT ![o] = IF notice THEN @ ELSE @ + 1]
      BY <2>1, <2>4, Zenon DEF S!Send
    <3>2. (requests[o] = <<>> /\ watched[o] /\ S!Up) \in BOOLEAN
      BY Zenon
    <3> QED
      BY <1>3, <2>2, <3>1, <3>2, Zenon
  <2> QED
    BY <2>3, <2>4

\* A thread that takes a request records it.
LEMMA AnsweringTypes ==
  ASSUME ServerInv, S!Next
  PROVE  answering' \subseteq Ops \X S!Request
<1>1. answering \subseteq Ops \X S!Request /\ requests \in [Ops -> Seq(S!Request)]
  BY Zenon DEF ServerInv, ServerTypes
<1>2. ASSUME NEW o \in Ops, S!Receive(o) PROVE answering' \subseteq Ops \X S!Request
  <2>1. Takes(requests, Ops, S!Request, o, requests') /\ \A p \in Ops : OnceEach(requests[p])
    BY Zenon, <1>2 DEF ServerInv, ServerTypes, AskedOnce, S!Receive, Takes
  <2>2. Shorter(requests, Ops, S!Request, o, requests')
    BY ONLY <2>1, FamilyTakes, Zenon
  <2>3. answering' = answering \cup {<<o, Head(requests[o])>>} /\ Head(requests[o]) \in S!Request
    BY <1>2, <2>2, Zenon DEF Shorter, S!Receive
  <2> QED
    BY <1>1, <2>3
<1>3. ASSUME NEW a \in answering, S!Answer(a) PROVE answering' \subseteq Ops \X S!Request
  BY <1>1, <1>3, Zenon DEF S!Answer
<1>4. ASSUME NEW o \in Ops, S!Watch(o) \/ S!Restore(o) PROVE UNCHANGED answering
  BY <1>4, Zenon DEF S!Watch, S!Restore
<1>5. ASSUME S!Interrupt PROVE UNCHANGED answering
  BY <1>5, Zenon DEF S!Interrupt
<1>6. ASSUME NEW c \in Clients, S!Send(c) \/ S!Reader(c) \/ S!ClientMain(c) PROVE UNCHANGED answering
  BY <1>6, Zenon DEF S!Send, S!Reader, S!Arm, S!Take, S!Block, S!TimeOut, S!ClientMain, S!Notified, S!HandlerTake,
     S!Rearm, S!Quit, S!atServer
<1> QED
  BY <1>1, <1>2, <1>3, <1>4, <1>5, <1>6, Zenon DEF S!Next, S!Service, S!Reply

\* The counters of the server count right after every step.
LEMMA CountsStep ==
  ASSUME ServerInv, S!Next
  PROVE  Counts'
<1>1. Counts
  BY Zenon DEF ServerInv, ServerTypes, Counts
<1>2. CASE S!Service
  BY <1>2, ServiceCounts, Zenon DEF S!Service
<1>3. ASSUME NEW a \in answering, S!Answer(a) PROVE Counts'
  <2>1. UNCHANGED <<requests, unnoticed, watched, rearming, receiving>> /\ server' \in {server, "failed"}
    BY <1>3, Zenon DEF S!Answer, S!queues
  <2>2. S!Up' => S!Up
    BY <2>1 DEF S!Up
  <2>3. server' \in {"setup", "run", "done", "failed"}
    BY <1>1, <2>1, Zenon DEF Counts
  <2> QED
    BY <1>1, <2>1, <2>2, <2>3, Zenon DEF Counts, S!OneForEachNotice
<1>4. CASE S!Interrupt
  <2>1. UNCHANGED <<requests, unnoticed, watched, rearming, receiving>> /\ server' \in {"done", "failed"}
    BY <1>4, Zenon DEF S!Interrupt, S!queues
  <2>2. ~S!Up'
    BY <2>1 DEF S!Up
  <2> QED
    BY <1>1, <2>1, <2>2, Zenon DEF Counts, S!OneForEachNotice
<1>5. ASSUME NEW c \in Clients, S!Send(c) PROVE Counts'
  BY <1>5, SendCounts, Zenon
<1>6. ASSUME NEW c \in Clients, S!Reader(c) \/ S!ClientMain(c) PROVE Counts'
  <2>1. UNCHANGED <<server, requests, unnoticed, watched, rearming, receiving>>
    BY <1>6, Zenon DEF S!Reader, S!Arm, S!Take, S!Block, S!TimeOut, S!ClientMain, S!Notified, S!HandlerTake,
       S!Rearm, S!Quit, S!atServer, S!queues
  <2> QED
    BY <1>1, <2>1, Zenon DEF Counts, S!OneForEachNotice, S!Up
<1> QED
  BY <1>2, <1>3, <1>4, <1>5, <1>6, Zenon DEF S!Next, S!Reply

\* The numbers and the answers are where they should be after every step.
LEMMA MovesStep ==
  ASSUME ServerInv, S!Next
  PROVE  /\ sender' \in Seq(Clients) /\ Len(sender') <= Typed
         /\ inbox' \in [Clients -> Seq(1..Typed)] /\ shown' \in [Clients -> Seq(1..Typed)]
         /\ AskedOnce' /\ AnsweringOnce' /\ AnsweredAt'
<1>1. /\ sender \in Seq(Clients) /\ Len(sender) <= Typed
      /\ inbox \in [Clients -> Seq(1..Typed)] /\ shown \in [Clients -> Seq(1..Typed)]
      /\ AskedOnce /\ AnsweringOnce /\ AnsweredAt
  BY Zenon DEF ServerInv, ServerTypes
<1>2. CASE UNCHANGED <<requests, answering, sender, inbox, shown>>
  BY <1>1, <1>2, NothingMoves, Zenon
<1>3. ASSUME NEW o \in Ops, S!Watch(o) \/ S!Restore(o) PROVE UNCHANGED <<requests, answering, sender, inbox, shown>>
  BY <1>3, Zenon DEF S!Watch, S!Restore, S!queues, S!answers
<1> DEFINE Rest == /\ sender' \in Seq(Clients) /\ Len(sender') <= Typed
                   /\ inbox' \in [Clients -> Seq(1..Typed)] /\ shown' \in [Clients -> Seq(1..Typed)]
                   /\ AskedOnce' /\ AnsweringOnce' /\ AnsweredAt'
<1>4. ASSUME NEW o \in Ops, S!Receive(o) PROVE Rest
  BY <1>1, <1>4, ReceiveMoves, Zenon DEF S!Receive, S!answers
<1>5. ASSUME NEW a \in answering, S!Answer(a) PROVE Rest
  BY <1>1, <1>5, AnswerMoves, Zenon DEF S!Answer
<1>6. ASSUME S!Interrupt PROVE Rest
  BY <1>2, <1>6, Zenon DEF S!Interrupt, S!queues, S!answers
<1>7. ASSUME NEW c \in Clients, S!Send(c) PROVE Rest
  BY <1>1, <1>7, SendMoves, Zenon DEF S!Send, S!answers
<1>8. ASSUME NEW c \in Clients, S!Take(c) PROVE Rest
  <2>1. /\ inbox[c] # <<>> /\ shown' = [shown EXCEPT ![c] = Append(@, Head(inbox[c]))]
        /\ inbox' = [inbox EXCEPT ![c] = Tail(@)] /\ UNCHANGED <<requests, answering, sender>>
    BY <1>8, Zenon DEF S!Take, S!atServer, S!queues
  <2> QED
    BY <1>1, <2>1, TakeMoves, Zenon
<1>9. ASSUME NEW c \in Clients, S!HandlerTake(c), ~UNCHANGED <<inbox, shown>> PROVE Rest
  <2>1. /\ inbox[c] # <<>> /\ shown' = [shown EXCEPT ![c] = Append(@, Head(inbox[c]))]
        /\ inbox' = [inbox EXCEPT ![c] = Tail(@)] /\ UNCHANGED <<requests, answering, sender>>
    BY <1>9, Zenon DEF S!HandlerTake, S!atServer, S!queues
  <2> QED
    BY <1>1, <2>1, TakeMoves, Zenon
<1>10. ASSUME NEW c \in Clients,
              \/ S!Arm(c) \/ S!Block(c) \/ S!TimeOut(c) \/ S!Notified(c) \/ S!Rearm(c) \/ S!Quit(c)
              \/ S!HandlerTake(c) /\ UNCHANGED <<inbox, shown>>
       PROVE  UNCHANGED <<requests, answering, sender, inbox, shown>>
  BY <1>10, Zenon DEF S!Arm, S!Block, S!TimeOut, S!Notified, S!Rearm, S!Quit, S!HandlerTake, S!atServer, S!queues, S!answers
<1> HIDE DEF Rest
<1>11. UNCHANGED <<requests, answering, sender, inbox, shown>> => Rest
  BY <1>2 DEF Rest
<1>12. ASSUME NEW c \in Clients, S!Reader(c) \/ S!ClientMain(c) PROVE Rest
  <2>1. CASE S!Reader(c)
    BY <1>8, <1>10, <1>11, <2>1, Zenon DEF S!Reader
  <2>2. CASE S!ClientMain(c)
    <3>1. S!Notified(c) \/ S!Rearm(c) \/ S!Quit(c) \/ S!HandlerTake(c)
      BY <2>2, Zenon DEF S!ClientMain
    <3>2. CASE S!HandlerTake(c)
      BY <1>9, <1>10, <1>11, <3>2, Zenon
    <3> QED
      BY <1>10, <1>11, <3>1, <3>2, Zenon
  <2> QED
    BY <1>12, <2>1, <2>2
<1>13. ASSUME S!Service PROVE Rest
  BY <1>3, <1>4, <1>11, <1>13, Zenon DEF S!Service
<1>14. ASSUME S!Reply PROVE Rest
  BY <1>5, <1>14, Zenon DEF S!Reply
<1>15. Rest
  BY <1>6, <1>7, <1>12, <1>13, <1>14, Zenon DEF S!Next
<1> QED
  BY <1>15 DEF Rest

\* Every step of the server and of its clients keeps its invariant.
LEMMA ServerStep == ServerInv /\ S!Next => ServerInv'
BY AnsweringTypes, CountsStep, MovesStep, Zenon DEF ServerInv, ServerTypes, Counts

\* An answer is printed once, by the client that asked.
LEMMA ServerSafe == ServerInv => S!OneForEachNotice /\ S!ShownOnce
<1> SUFFICES ASSUME ServerInv PROVE S!ShownOnce
  BY DEF ServerInv
<1> SUFFICES ASSUME NEW c \in Clients, NEW j \in 1..Len(shown[c]), NEW k \in 1..Len(shown[c])
             PROVE  sender[shown[c][j]] = c /\ (shown[c][j] = shown[c][k] => j = k)
  BY Zenon DEF S!ShownOnce
<1>1. shown[c] \in Seq(1..Typed) /\ OnceEach(shown[c])
  BY Zenon DEF ServerInv, ServerTypes, AnsweredAt
<1>2. DOMAIN shown[c] = 1..Len(shown[c]) /\ shown[c][j] \in 1..Typed
  BY <1>1, LenProperties, ElementOfSeq
<1>3. Listed(shown[c], shown[c][j])
  BY <1>2, Zenon DEF Listed
<1> QED
  BY <1>1, <1>2, <1>3, Zenon DEF OnceEach, ServerInv, AnsweredAt

-----------------------------------------------------------------------------
(* The tasks: proofs *)

\* There is a task for every worker at least.
LEMMA AllTasks ==
  /\ Hands \in Nat /\ Hands >= 1 /\ TasksEach \in Nat /\ TasksEach >= 1
  /\ W!All \in Nat /\ Hands <= W!All
<1>1. Hands \in Nat /\ Hands >= 1 /\ TasksEach \in Nat /\ TasksEach >= 1
  BY LabAssumption DEF LabAssumption
<1>2. Hands * TasksEach \in Nat /\ Hands * TasksEach = Hands + Hands * (TasksEach - 1)
  BY <1>1
<1>3. Hands * (TasksEach - 1) \in Nat
  BY <1>1
<1> QED
  BY <1>1, <1>2, <1>3 DEF W!All

\* It holds at the start.
LEMMA TaskInit == W!Init => TaskInv
<1> SUFFICES ASSUME W!Init PROVE TaskInv
  OBVIOUS
<1>0. /\ master = "notify" /\ i = 1 /\ tasks = <<>> /\ raised = {} /\ serving = 0 /\ cursor = 0
      /\ \A w \in 1..Hands : hand[w] = "receive" /\ todo[w] = TasksEach /\ held[w] = 0 /\ results[w] = <<>>
      /\ \A x \in 1..W!All : printed[x] = 0
  BY Zenon DEF W!Init
<1>a. /\ \A x \in 1..W!All : x # 0
      /\ 1 \in 1..Hands /\ 0 # 1 /\ TasksEach # 0 /\ \A w \in 1..Hands : 1 <= w
      /\ 1 <= Hands /\ 1 <= W!All
      /\ "receive" # "send" /\ "receive" # "ended" /\ "notify" # "send" /\ "notify" # "finished"
      /\ ~(0 = 1)
  BY AllTasks
<1>b. /\ \A w \in 1..Hands : OnceEach(results[w]) /\ \A x : ~Listed(results[w], x)
      /\ OnceEach(tasks) /\ \A x : ~Listed(tasks, x)
  BY <1>0, ListedEmpty, Zenon
<1>1. TaskTypes
  <2>1. \A D : <<>> \in Seq(D)
    BY EmptySeq
  <2>2. tasks \in Seq(1..W!All) /\ results \in [1..Hands -> Seq(1..W!All)]
    BY <2>1, Zenon DEF W!Init
  <2>3. 1 \in 1..W!All + 1 /\ TasksEach \in 0..TasksEach /\ 0 \in 0..W!All /\ 0 \in 0..Hands /\ 0 \in Nat
    BY AllTasks
  <2>4. master \in {"notify", "send", "wait", "interrupted", "test", "finished", "killed"} /\ i \in 1..W!All + 1
    BY <2>3, Zenon DEF W!Init
  <2>5. hand \in [1..Hands -> {"receive", "send", "ended"}] /\ notified \in [1..Hands -> BOOLEAN]
    BY Zenon DEF W!Init
  <2>6. todo \in [1..Hands -> 0..TasksEach] /\ held \in [1..Hands -> 0..W!All]
    BY <2>3, Zenon DEF W!Init
  <2>7. raised \subseteq 1..Hands /\ serving \in 0..Hands /\ cursor \in 0..Hands /\ printed \in [1..W!All -> Nat]
    BY <2>3, Zenon DEF W!Init
  <2> QED
    BY <2>2, <2>4, <2>5, <2>6, <2>7, Zenon DEF TaskTypes
<1>2. HandsBusy
  BY <1>0, <1>a, Zenon DEF HandsBusy
<1>3. TaskOnce
  BY <1>0, <1>a, <1>b, Zenon DEF TaskOnce
<1>4. MadeCounted
  <2>1. WithResult = {}
    BY <1>0, <1>a, <1>b, Zenon DEF WithResult
  <2>2. Made = {}
    <3>1. \A y \in 1..TasksEach : ~(y > TasksEach)
      BY AllTasks
    <3>2. \A q \in (1..Hands) \X (1..TasksEach) : q[1] \in 1..Hands /\ q[2] \in 1..TasksEach
      BY Zenon
    <3> QED
      BY <1>0, <3>1, <3>2, Zenon DEF Made
  <2> QED
    BY <2>1, <2>2, Zenon DEF MadeCounted
<1>5. ResultsSeen
  BY <1>0, <1>a, Zenon DEF ResultsSeen
<1>6. AllPrinted
  BY <1>0, <1>a, Zenon DEF AllPrinted
<1> QED
  BY <1>1, <1>2, <1>3, <1>4, <1>5, <1>6, Zenon DEF TaskInv

\* The state of a program that has all its results.
LEMMA TaskSafe == TaskInv => W!ResultsComplete
<1> SUFFICES ASSUME TaskInv PROVE W!ResultsComplete
  OBVIOUS
<1>1. \A t \in 1..W!All : printed[t] \in {0, 1}
  BY Zenon DEF TaskInv, TaskOnce
<1>2. \A t \in 1..W!All : printed[t] <= 1
  BY <1>1
<1> QED
  BY <1>2, Zenon DEF TaskInv, AllPrinted, W!ResultsComplete

\* Steps that move no task.
LEMMA NoTaskMoves ==
  ASSUME TaskInv, UNCHANGED <<i, tasks, held, todo, results, printed>>
  PROVE  TaskOnce' /\ MadeCounted'
<1>1. WithResult' = WithResult /\ Made' = Made
  BY Zenon DEF WithResult, Made
<1> QED
  BY <1>1, Zenon DEF TaskInv, TaskOnce, MadeCounted

\* The parent registers for a queue of results.
LEMMA RegisterStep ==
  ASSUME TaskInv, W!Register
  PROVE  TaskInv'
<1>1. /\ master = "notify" /\ serving = 0 /\ master' \in {"notify", "send"}
      /\ master' = (IF i = Hands THEN "send" ELSE "notify") /\ i' = (IF i = Hands THEN 1 ELSE i + 1)
      /\ notified' = [notified EXCEPT ![i] = TRUE]
      /\ UNCHANGED <<tasks, hand, todo, held, results, raised, serving, cursor, printed>>
  BY Zenon DEF W!Register, W!Goes, W!worker, W!handler
<1>2. i \in 1..W!All + 1 /\ i <= Hands
  BY <1>1, Zenon DEF TaskInv, TaskTypes, HandsBusy
<1>3. /\ i \in 1..Hands /\ i' \in 1..W!All + 1
      /\ (master' = "notify" => i' <= Hands) /\ (master' = "send" => i' <= W!All)
      /\ \A w \in 1..Hands : i <= w /\ w # i => i # Hands /\ i' <= w
      /\ i # Hands => master' = "notify"
  BY <1>1, <1>2, AllTasks
<1>4. /\ \A w \in 1..Hands : hand[w] = "receive" /\ held[w] = 0 /\ results[w] = <<>>
      /\ tasks = <<>> /\ \A t \in 1..W!All : printed[t] = 0
  <2>1. \A w \in 1..Hands : hand[w] = "receive" => hand[w] # "send"
    OBVIOUS
  <2> QED
    BY <1>1, <2>1, Zenon DEF TaskInv, HandsBusy
<1>5. \A t \in 1..W!All : printed[t] \in {0, 1} /\ printed[t] # 1 /\ t # 0
  BY <1>4, AllTasks
<1>6. TaskTypes'
  <2>1. notified \in [1..Hands -> BOOLEAN]
    BY Zenon DEF TaskInv, TaskTypes
  <2>2. notified' \in [1..Hands -> BOOLEAN]
    BY <1>1, <2>1, Zenon
  <2>3. master' \in {"notify", "send", "wait", "interrupted", "test", "finished", "killed"}
    BY <1>1
  <2> QED
    BY <1>1, <1>3, <2>2, <2>3, Zenon DEF TaskInv, TaskTypes
<1>7. HandsBusy'
  BY <1>1, <1>3, Zenon DEF TaskInv, HandsBusy
<1>8. TaskOnce'
  <2>1. tasks' = tasks /\ results' = results /\ held' = held /\ printed' = printed
    BY <1>1, Zenon
  <2>2. /\ OnceEach(tasks) /\ \A w \in 1..Hands : OnceEach(results[w])
        /\ \A t \in 1..W!All : printed[t] \in {0, 1} /\ printed[t] # 1 /\ ~Listed(tasks, t)
        /\ \A t \in 1..W!All : \A w \in 1..Hands : held[w] # t /\ ~Listed(results[w], t)
    BY <1>4, <1>5, ListedEmpty, Zenon
  <2> QED
    BY ONLY <2>1, <2>2, Zenon DEF TaskOnce
<1>9. MadeCounted'
  <2>1. WithResult' = WithResult /\ Made' = Made
    BY <1>1, Zenon DEF WithResult, Made
  <2> QED
    BY <2>1, Zenon DEF TaskInv, MadeCounted
<1>10. ResultsSeen'
  <2>1. ASSUME NEW w \in 1..Hands, w # i
        PROVE  notified'[w] \/ w \in raised \/ (serving = w /\ cursor = 0) \/ (master' = "notify" /\ i' <= w)
    <3>1. notified'[w] = notified[w]
      <4>1. notified \in [1..Hands -> BOOLEAN]
        BY Zenon DEF TaskInv, TaskTypes
      <4> QED
        BY <1>1, <2>1, <4>1, Zenon
    <3>2. notified[w] \/ w \in raised \/ (serving = w /\ cursor = 0) \/ i <= w
      BY Zenon DEF TaskInv, ResultsSeen
    <3> QED
      BY <1>3, <2>1, <3>1, <3>2, Zenon
  <2>2. notified'[i]
    <3>1. notified \in [1..Hands -> BOOLEAN]
      BY Zenon DEF TaskInv, TaskTypes
    <3> QED
      BY <1>1, <1>3, <3>1, Zenon
  <2> QED
    BY <1>1, <2>1, <2>2, Zenon DEF TaskInv, ResultsSeen
<1>11. AllPrinted'
  BY <1>1 DEF AllPrinted
<1> QED
  BY <1>6, <1>7, <1>8, <1>9, <1>10, <1>11, Zenon DEF TaskInv

\* The parent sends the next task.
LEMMA SendTaskStep ==
  ASSUME TaskInv, W!SendTask
  PROVE  TaskInv'
<1>1. /\ master = "send" /\ serving = 0
      /\ master' = (IF i = W!All THEN "wait" ELSE "send") /\ i' = i + 1 /\ tasks' = Append(tasks, i)
      /\ UNCHANGED <<hand, todo, held, results, notified, raised, serving, cursor, printed>>
  BY Zenon DEF W!SendTask, W!Goes, W!worker, W!handler
<1>2. i \in 1..W!All + 1 /\ i <= W!All
  BY <1>1, Zenon DEF TaskInv, TaskTypes, HandsBusy
<1>3. /\ i \in 1..W!All /\ i' \in 1..W!All + 1 /\ ~(i < i) /\ i < i'
      /\ \A t \in 1..W!All : t < i => t < i'
      /\ master' # "notify" /\ master' # "finished" /\ master # "notify" /\ (master' = "send" => i' <= W!All)
      /\ master' \in {"notify", "send", "wait", "interrupted", "test", "finished", "killed"}
  BY <1>1, <1>2, AllTasks
<1>4. /\ tasks' \in Seq(1..W!All) /\ \A t : Listed(tasks', t) <=> Listed(tasks, t) \/ t = i
      /\ OnceEach(tasks) /\ ~Listed(tasks, i) => OnceEach(tasks')
  <2>1. tasks \in Seq(1..W!All)
    BY Zenon DEF TaskInv, TaskTypes
  <2>2. /\ Append(tasks, i) \in Seq(1..W!All)
        /\ \A t : Listed(Append(tasks, i), t) <=> Listed(tasks, t) \/ t = i
        /\ OnceEach(tasks) /\ ~Listed(tasks, i) => OnceEach(Append(tasks, i))
    BY <1>3, <2>1, ListedAppend
  <2> QED
    BY <1>1, <2>2, Zenon
<1>5. /\ ~Listed(tasks, i) /\ printed[i] = 0 /\ OnceEach(tasks)
      /\ \A w \in 1..Hands : held[w] # i /\ ~Listed(results[w], i)
  <2>1. /\ ~Listed(tasks, i) /\ printed[i] \in {0, 1} /\ printed[i] # 1 /\ OnceEach(tasks)
        /\ \A w \in 1..Hands : held[w] # i /\ ~Listed(results[w], i)
    BY <1>3, Zenon DEF TaskInv, TaskOnce
  <2> QED
    BY <2>1
<1>6. TaskTypes'
  BY <1>1, <1>3, <1>4, Zenon DEF TaskInv, TaskTypes
<1>7. HandsBusy'
  BY <1>1, <1>3, Zenon DEF TaskInv, HandsBusy
<1>8. TaskOnce'
  <2>1. ASSUME NEW t \in 1..W!All
        PROVE  /\ printed[t] \in {0, 1} /\ (printed[t] = 1 => t < i')
               /\ Listed(tasks', t) =>
                    t < i' /\ printed[t] = 0 /\ \A w \in 1..Hands : held[w] # t /\ ~Listed(results[w], t)
    <3>1. CASE t = i
      BY <1>3, <1>5, <3>1, Zenon
    <3>2. CASE t # i
      BY <1>3, <1>4, <3>2, Zenon DEF TaskInv, TaskOnce
    <3>3. printed[t] \in {0, 1}
      BY Zenon DEF TaskInv, TaskOnce
    <3>4. printed[t] = 1 => t < i'
      BY <1>3, Zenon DEF TaskInv, TaskOnce
    <3> QED
      BY <3>1, <3>2, <3>3, <3>4, Zenon
  <2>2. ASSUME NEW t \in 1..W!All, NEW w \in 1..Hands
        PROVE  /\ held[w] = t => t < i' /\ printed[t] = 0 /\ \A v \in 1..Hands :
                                   ~Listed(results[v], t) /\ (v # w => held[v] # t)
               /\ Listed(results[w], t) => t < i' /\ printed[t] = 0 /\ \A v \in 1..Hands \ {w} : ~Listed(results[v], t)
    BY <1>3, Zenon DEF TaskInv, TaskOnce
  <2>3. OnceEach(tasks') /\ \A w \in 1..Hands : OnceEach(results[w])
    BY <1>4, <1>5, Zenon DEF TaskInv, TaskOnce
  <2> QED
    BY <1>1, <2>1, <2>2, <2>3, Zenon DEF TaskOnce
<1>9. MadeCounted'
  <2>1. WithResult' = WithResult /\ Made' = Made
    BY <1>1, Zenon DEF WithResult, Made
  <2> QED
    BY <2>1, Zenon DEF TaskInv, MadeCounted
<1>10. ResultsSeen'
  BY <1>1, <1>3, Zenon DEF TaskInv, ResultsSeen
<1>11. AllPrinted'
  BY <1>3, Zenon DEF AllPrinted
<1> QED
  BY <1>6, <1>7, <1>8, <1>9, <1>10, <1>11, Zenon DEF TaskInv

\* wait has counted all workers: each task has its result, and that has been printed.
LEMMA WaitedAll ==
  ASSUME TaskInv, raised = {}, serving = 0, master # "notify", \A w \in 1..Hands : hand[w] = "ended"
  PROVE  \A t \in 1..W!All : printed[t] = 1
<1>1. \A w \in 1..Hands : todo[w] = 0 /\ results[w] = <<>>
  <2>1. \A w \in 1..Hands : todo[w] = 0
    BY Zenon DEF TaskInv, HandsBusy
  <2>2. \A w \in 1..Hands : results[w] = <<>>
    BY Zenon DEF TaskInv, ResultsSeen
  <2> QED
    BY <2>1, <2>2
<1>2. Made = (1..Hands) \X (1..TasksEach)
  <2>1. \A q \in (1..Hands) \X (1..TasksEach) : todo[q[1]] = 0 /\ q[2] \in 1..TasksEach
    BY <1>1, Zenon
  <2>2. \A y \in 1..TasksEach : y > 0
    BY AllTasks
  <2> QED
    BY <2>1, <2>2, Zenon DEF Made
<1>3. Cardinality(Made) = W!All
  <2>1. /\ IsFiniteSet(1..Hands) /\ Cardinality(1..Hands) = Hands
        /\ IsFiniteSet(1..TasksEach) /\ Cardinality(1..TasksEach) = TasksEach
    BY AllTasks, FS_Interval
  <2>2. Cardinality((1..Hands) \X (1..TasksEach)) = Cardinality(1..Hands) * Cardinality(1..TasksEach)
    BY <2>1, FS_Product, Zenon
  <2> QED
    BY <1>2, <2>1, <2>2, Zenon DEF W!All
<1>4. IsFiniteSet(1..W!All) /\ Cardinality(1..W!All) = W!All
  BY AllTasks, FS_Interval
<1>5. WithResult \subseteq 1..W!All /\ Cardinality(WithResult) = Cardinality(1..W!All)
  <2>1. WithResult \subseteq 1..W!All
    BY Zenon DEF WithResult
  <2>2. Cardinality(WithResult) = Cardinality(Made)
    BY Zenon DEF TaskInv, MadeCounted
  <2> QED
    BY <1>3, <1>4, <2>1, <2>2, Zenon
<1>6. WithResult = 1..W!All
  BY <1>4, <1>5, FS_Subset, Zenon
<1> QED
  BY <1>1, <1>6, ListedEmpty, Zenon DEF WithResult

\* The parent waits, and looks why wait returned.
LEMMA WaitStep ==
  ASSUME TaskInv, W!AllWaited \/ W!SetErrno \/ W!TestErrno
  PROVE  TaskInv'
<1>1. /\ master \in {"wait", "interrupted", "test"} /\ master' \in {"finished", "test", "wait"} /\ serving = 0
      /\ UNCHANGED <<i, tasks, hand, todo, held, results, notified, raised, serving, cursor, printed>>
  BY Zenon DEF W!AllWaited, W!SetErrno, W!TestErrno, W!Goes, W!worker, W!handler
<1>2. /\ master # "notify" /\ master' # "notify" /\ master' # "send"
      /\ master' \in {"notify", "send", "wait", "interrupted", "test", "finished", "killed"}
  BY <1>1
<1>3. TaskTypes'
  BY <1>1, <1>2, Zenon DEF TaskInv, TaskTypes
<1>4. HandsBusy'
  BY <1>1, <1>2, Zenon DEF TaskInv, HandsBusy
<1>5. TaskOnce' /\ MadeCounted'
  BY <1>1, NoTaskMoves, Zenon
<1>6. ResultsSeen'
  BY <1>1, <1>2, Zenon DEF TaskInv, ResultsSeen
<1>7. AllPrinted'
  <2>1. CASE W!AllWaited
    <3>1. raised = {} /\ \A w \in 1..Hands : hand[w] = "ended"
      BY <2>1, Zenon DEF W!AllWaited
    <3>2. \A t \in 1..W!All : printed[t] = 1
      BY <1>1, <1>2, <3>1, WaitedAll, Zenon
    <3> QED
      BY <1>1, <3>2, Zenon DEF AllPrinted
  <2>2. CASE W!SetErrno
    <3>1. master' # "finished"
      BY <2>2 DEF W!SetErrno, W!Goes
    <3> QED
      BY <3>1, Zenon DEF AllPrinted
  <2>3. CASE W!TestErrno
    <3>1. master' = (IF errno = "EINTR" THEN "wait" ELSE "finished") /\ hasty' = (errno # "EINTR")
      BY <2>3, Zenon DEF W!TestErrno, W!Goes
    <3>2. "wait" # "finished"
      OBVIOUS
    <3>3. ~(master' = "finished" /\ ~hasty')
      BY <3>1, <3>2, Zenon
    <3> QED
      BY <3>3, Zenon DEF AllPrinted
  <2> QED
    BY <2>1, <2>2, <2>3
<1> QED
  BY <1>3, <1>4, <1>5, <1>6, <1>7, Zenon DEF TaskInv

\* SIGRTMIN is delivered to the parent.
LEMMA DeliverStep ==
  ASSUME TaskInv, NEW w \in 1..Hands, W!Deliver(w)
  PROVE  TaskInv'
<1>1. /\ w \in raised /\ serving = 0 /\ raised' = raised \ {w} /\ serving' = w
      /\ master' = (IF master = "wait" THEN "interrupted" ELSE master)
      /\ UNCHANGED <<i, tasks, hand, todo, held, results, notified, cursor, printed, hasty>>
  BY Zenon DEF W!Deliver, W!worker
<1>2. cursor = 0
  BY <1>1, Zenon DEF TaskInv, ResultsSeen
<1>3. master # "notify"
  BY <1>1, Zenon DEF TaskInv, HandsBusy
<1>4. /\ master' # "notify" /\ (master' = "send" => master = "send") /\ (master' = "finished" => master = "finished")
      /\ (master \in {"notify", "send", "wait", "interrupted", "test", "finished", "killed"} =>
          master' \in {"notify", "send", "wait", "interrupted", "test", "finished", "killed"})
      /\ w # 0 /\ w \in 0..Hands /\ \A v \in 1..Hands : v # 0
  BY <1>1, <1>3, AllTasks
<1>5. TaskTypes'
  BY <1>1, <1>4, Zenon DEF TaskInv, TaskTypes
<1>6. HandsBusy'
  BY <1>1, <1>4, Zenon DEF TaskInv, HandsBusy
<1>7. TaskOnce' /\ MadeCounted'
  BY <1>1, NoTaskMoves, Zenon
<1>8. ResultsSeen'
  <2>1. ASSUME NEW v \in 1..Hands PROVE notified[v] \/ v \in raised' \/ serving' = v
    <3>1. notified[v] \/ v \in raised
      BY <1>1, <1>3, <1>4, Zenon DEF TaskInv, ResultsSeen
    <3> QED
      BY <1>1, <3>1, Zenon
  <2> QED
    BY <1>1, <1>2, <1>4, <2>1, Zenon DEF ResultsSeen
<1>9. AllPrinted'
  BY <1>1, <1>4, Zenon DEF TaskInv, AllPrinted
<1> QED
  BY <1>5, <1>6, <1>7, <1>8, <1>9, Zenon DEF TaskInv

\* The handler registers for the queue that told of its message.
LEMMA NotifyAgainStep ==
  ASSUME TaskInv, W!NotifyAgain
  PROVE  TaskInv'
<1>1. /\ serving # 0 /\ cursor = 0 /\ cursor' = 1 /\ notified' = [notified EXCEPT ![serving] = TRUE]
      /\ master' \in {"killed", master}
      /\ UNCHANGED <<i, tasks, hand, todo, held, results, raised, serving, printed, hasty>>
  BY Zenon DEF W!NotifyAgain, W!worker
<1>2. master # "notify" /\ serving \in 0..Hands /\ notified \in [1..Hands -> BOOLEAN]
  BY <1>1, Zenon DEF TaskInv, HandsBusy, TaskTypes
<1>3. /\ master' # "notify" /\ (master' = "send" => master = "send") /\ (master' = "finished" => master = "finished")
      /\ (master \in {"notify", "send", "wait", "interrupted", "test", "finished", "killed"} =>
          master' \in {"notify", "send", "wait", "interrupted", "test", "finished", "killed"})
      /\ serving \in 1..Hands /\ 1 \in 0..Hands /\ \A v \in 1..Hands : 1 <= v
  BY <1>1, <1>2, AllTasks
<1>4. notified' \in [1..Hands -> BOOLEAN] /\ notified'[serving] /\ \A v \in 1..Hands : notified[v] => notified'[v]
  BY <1>1, <1>2, <1>3, Zenon
<1>5. TaskTypes'
  BY <1>1, <1>3, <1>4, Zenon DEF TaskInv, TaskTypes
<1>6. HandsBusy'
  BY <1>1, <1>3, Zenon DEF TaskInv, HandsBusy
<1>7. TaskOnce' /\ MadeCounted'
  BY <1>1, NoTaskMoves, Zenon
<1>8. ResultsSeen'
  <2>1. ASSUME NEW v \in 1..Hands PROVE notified'[v] \/ v \in raised
    <3>1. notified[v] \/ v \in raised \/ serving = v
      BY <1>1, <1>2, Zenon DEF TaskInv, ResultsSeen
    <3> QED
      BY <1>4, <3>1, Zenon
  <2> QED
    BY <1>1, <1>3, <2>1, Zenon DEF TaskInv, ResultsSeen
<1>9. AllPrinted'
  BY <1>1, <1>3, Zenon DEF TaskInv, AllPrinted
<1> QED
  BY <1>5, <1>6, <1>7, <1>8, <1>9, Zenon DEF TaskInv

\* The handler finds a queue empty, and goes to the next or returns.
LEMMA QueueReadStep ==
  ASSUME TaskInv, W!QueueRead
  PROVE  TaskInv'
<1>1. /\ serving # 0 /\ cursor # 0 /\ results[cursor] = <<>>
      /\ cursor' = (IF cursor = Hands THEN 0 ELSE cursor + 1)
      /\ serving' = (IF cursor = Hands THEN 0 ELSE serving)
      /\ UNCHANGED <<master, i, tasks, hand, todo, held, results, notified, raised, printed, hasty>>
  BY Zenon DEF W!QueueRead, W!master_, W!worker
<1>2. master # "notify" /\ serving \in 0..Hands /\ cursor \in 0..Hands
  BY <1>1, Zenon DEF TaskInv, HandsBusy, TaskTypes
<1>3. /\ serving' \in 0..Hands /\ cursor' \in 0..Hands /\ (serving' = 0 => cursor' = 0)
      /\ \A w \in 1..Hands : cursor <= w /\ w # cursor => serving' # 0 /\ cursor' <= w
  BY <1>1, <1>2, AllTasks
<1>4. TaskTypes'
  BY <1>1, <1>3, Zenon DEF TaskInv, TaskTypes
<1>5. HandsBusy'
  BY <1>1, <1>2, Zenon DEF TaskInv, HandsBusy
<1>6. TaskOnce' /\ MadeCounted'
  BY <1>1, NoTaskMoves, Zenon
<1>7. ResultsSeen'
  <2>1. ASSUME NEW w \in 1..Hands, results[w] # <<>>
        PROVE  raised # {} \/ (serving' # 0 /\ (cursor' = 0 \/ cursor' <= w))
    <3>1. raised # {} \/ cursor <= w
      BY <1>1, <2>1, Zenon DEF TaskInv, ResultsSeen
    <3>2. w # cursor
      BY <1>1, <2>1, Zenon
    <3> QED
      BY <1>3, <3>1, <3>2, Zenon
  <2>2. ASSUME NEW w \in 1..Hands PROVE notified[w] \/ w \in raised
    BY <1>1, <1>2, Zenon DEF TaskInv, ResultsSeen
  <2> QED
    BY <1>1, <1>3, <2>1, <2>2, Zenon DEF ResultsSeen
<1>8. AllPrinted'
  BY <1>1, Zenon DEF TaskInv, AllPrinted
<1> QED
  BY <1>4, <1>5, <1>6, <1>7, <1>8, Zenon DEF TaskInv

\* The handler prints a result.
LEMMA ReadResultStep ==
  ASSUME TaskInv, W!ReadResult
  PROVE  TaskInv'
<1>0. PICK c, t0 : c = cursor /\ t0 = Head(results[c])
  OBVIOUS
<1>1. /\ serving # 0 /\ c # 0 /\ results[c] # <<>>
      /\ printed' = [printed EXCEPT ![t0] = printed[t0] + 1] /\ results' = [results EXCEPT ![c] = Tail(results[c])]
      /\ UNCHANGED <<master, i, tasks, hand, todo, held, notified, raised, serving, cursor, hasty>>
  BY <1>0, Zenon DEF W!ReadResult, W!master_, W!worker
<1>2. /\ master # "notify" /\ c \in 0..Hands /\ results \in [1..Hands -> Seq(1..W!All)]
      /\ printed \in [1..W!All -> Nat] /\ \A v \in 1..Hands : OnceEach(results[v])
  BY <1>0, <1>1, Zenon DEF TaskInv, HandsBusy, TaskTypes, TaskOnce
<1>3. c \in 1..Hands
  <2>1. c \in 0..Hands /\ c # 0
    BY <1>1, <1>2, Zenon
  <2> QED
    BY <2>1, AllTasks
<1>4. Takes(results, 1..Hands, 1..W!All, c, results')
  BY <1>1, <1>2, <1>3, Zenon DEF Takes
<1>5. Shorter(results, 1..Hands, 1..W!All, c, results')
  BY ONLY <1>2, <1>4, FamilyTakes, Zenon
<1>6. /\ t0 \in 1..W!All /\ Listed(results[c], t0) /\ results' \in [1..Hands -> Seq(1..W!All)]
      /\ \A v \in 1..Hands : OnceEach(results'[v])
      /\ \A v \in 1..Hands : \A y : Listed(results'[v], y) <=> Listed(results[v], y) /\ ~(v = c /\ y = t0)
      /\ \A v \in 1..Hands \ {c} : results'[v] = results[v]
  BY ONLY <1>0, <1>5, Zenon DEF Shorter
<1>7. /\ printed[t0] = 0 /\ t0 < i /\ ~Listed(tasks, t0) /\ \A w \in 1..Hands : held[w] # t0
      /\ \A v \in 1..Hands \ {c} : ~Listed(results[v], t0)
  BY <1>3, <1>6, Zenon DEF TaskInv, TaskOnce
<1>8. /\ printed' \in [1..W!All -> Nat] /\ printed'[t0] = 1
      /\ \A t \in 1..W!All \ {t0} : printed'[t] = printed[t]
  <2>1. printed[t0] + 1 = 1 /\ 1 \in Nat
    BY <1>7
  <2>2. printed' = [printed EXCEPT ![t0] = 1]
    BY <1>1, <2>1, Zenon
  <2> QED
    BY <1>2, <1>6, <2>1, <2>2, Zenon
<1>9. TaskTypes'
  BY <1>1, <1>6, <1>8, Zenon DEF TaskInv, TaskTypes
<1>10. HandsBusy'
  BY <1>1, <1>2, Zenon DEF TaskInv, HandsBusy
<1>11. TaskOnce'
  <2>1. ASSUME NEW t \in 1..W!All
        PROVE  /\ printed'[t] \in {0, 1} /\ (printed'[t] = 1 => t < i)
               /\ Listed(tasks, t) =>
                    t < i /\ printed'[t] = 0 /\ \A w \in 1..Hands : held[w] # t /\ ~Listed(results'[w], t)
               /\ \A w \in 1..Hands :
                    /\ held[w] = t => t < i /\ printed'[t] = 0 /\ \A v \in 1..Hands :
                                           ~Listed(results'[v], t) /\ (v # w => held[v] # t)
                    /\ Listed(results'[w], t) =>
                         t < i /\ printed'[t] = 0 /\ \A v \in 1..Hands \ {w} : ~Listed(results'[v], t)
    <3>1. CASE t = t0
      <4>1. \A v \in 1..Hands : ~Listed(results'[v], t0)
        BY <1>6, <1>7, Zenon
      <4>2. printed'[t0] \in {0, 1}
        BY <1>8
      <4> QED
        BY <1>7, <3>1, <4>1, <4>2, Zenon
    <3>2. CASE t # t0
      <4>1. printed'[t] = printed[t] /\ \A v \in 1..Hands : Listed(results'[v], t) <=> Listed(results[v], t)
        BY <1>6, <1>8, <3>2, Zenon
      <4>2. /\ printed[t] \in {0, 1} /\ (printed[t] = 1 => t < i)
            /\ Listed(tasks, t) =>
                 t < i /\ printed[t] = 0 /\ \A w \in 1..Hands : held[w] # t /\ ~Listed(results[w], t)
            /\ \A w \in 1..Hands :
                 /\ held[w] = t => t < i /\ printed[t] = 0 /\ \A v \in 1..Hands :
                                        ~Listed(results[v], t) /\ (v # w => held[v] # t)
                 /\ Listed(results[w], t) =>
                      t < i /\ printed[t] = 0 /\ \A v \in 1..Hands \ {w} : ~Listed(results[v], t)
        BY Zenon DEF TaskInv, TaskOnce
      <4> QED
        BY <4>1, <4>2, Zenon
    <3> QED
      BY <3>1, <3>2
  <2>2. OnceEach(tasks)
    BY Zenon DEF TaskInv, TaskOnce
  <2>3. tasks' = tasks /\ held' = held /\ i' = i
    BY <1>1, Zenon
  <2> QED
    BY ONLY <1>6, <2>1, <2>2, <2>3, Zenon DEF TaskOnce
<1>12. MadeCounted'
  <2>1. ASSUME NEW t \in 1..W!All
        PROVE  (printed'[t] = 1 \/ \E w \in 1..Hands : Listed(results'[w], t)) <=>
               (printed[t] = 1 \/ \E w \in 1..Hands : Listed(results[w], t))
    <3>1. CASE t = t0
      BY <1>3, <1>6, <1>8, <3>1, Zenon
    <3>2. CASE t # t0
      BY <1>6, <1>8, <3>2, Zenon
    <3> QED
      BY <3>1, <3>2
  <2>2. WithResult' = WithResult
    BY <2>1, Zenon DEF WithResult
  <2>3. Made' = Made
    BY <1>1, Zenon DEF Made
  <2> QED
    BY <2>2, <2>3, Zenon DEF TaskInv, MadeCounted
<1>13. ResultsSeen'
  <2>1. \A w \in 1..Hands : results'[w] # <<>> => results[w] # <<>>
    BY <1>1, <1>6, Zenon
  <2> QED
    BY ONLY <1>1, <2>1, TaskInv, Zenon DEF TaskInv, ResultsSeen
<1>14. AllPrinted'
  <2>1. ~(master = "finished" /\ ~hasty)
    <3>1. printed[t0] # 1
      BY <1>7
    <3> QED
      BY <1>6, <3>1, Zenon DEF TaskInv, AllPrinted
  <2> QED
    BY <1>1, <2>1, Zenon DEF AllPrinted
<1> QED
  BY <1>9, <1>10, <1>11, <1>12, <1>13, <1>14, Zenon DEF TaskInv

\* A worker takes a task.
LEMMA TakeTaskStep ==
  ASSUME TaskInv, NEW c \in 1..Hands, W!Receive(c)
  PROVE  TaskInv'
<1>0. PICK t0 : t0 = Head(tasks)
  OBVIOUS
<1>1. /\ hand[c] = "receive" /\ tasks # <<>> /\ tasks' = Tail(tasks)
      /\ hand' = [hand EXCEPT ![c] = "send"] /\ held' = [held EXCEPT ![c] = t0]
      /\ UNCHANGED <<master, i, todo, results, notified, raised, serving, cursor, printed, hasty>>
  BY <1>0, Zenon DEF W!Receive, W!master_, W!handler
<1>2. /\ master # "notify" /\ hand \in [1..Hands -> {"receive", "send", "ended"}]
      /\ held \in [1..Hands -> 0..W!All] /\ tasks \in Seq(1..W!All) /\ OnceEach(tasks)
  BY <1>1, Zenon DEF TaskInv, HandsBusy, TaskTypes, TaskOnce
<1>3. /\ t0 \in 1..W!All /\ Listed(tasks, t0) /\ tasks' \in Seq(1..W!All) /\ OnceEach(tasks')
      /\ \A y : Listed(tasks', y) <=> Listed(tasks, y) /\ y # t0
  <2>1. /\ Head(tasks) \in 1..W!All /\ Listed(tasks, Head(tasks)) /\ Tail(tasks) \in Seq(1..W!All)
        /\ OnceEach(Tail(tasks)) /\ \A y : Listed(Tail(tasks), y) <=> Listed(tasks, y) /\ y # Head(tasks)
    BY <1>1, <1>2, ListedTail, Zenon
  <2> QED
    BY <1>0, <1>1, <2>1, Zenon
<1>4. t0 # 0 /\ t0 \in 0..W!All
  BY <1>3, AllTasks
<1>5. /\ hand' \in [1..Hands -> {"receive", "send", "ended"}] /\ held' \in [1..Hands -> 0..W!All]
      /\ hand'[c] = "send" /\ held'[c] = t0
      /\ \A w \in 1..Hands \ {c} : hand'[w] = hand[w] /\ held'[w] = held[w]
  BY <1>1, <1>2, <1>4, Zenon
<1>6. TaskTypes'
  BY <1>1, <1>3, <1>5, Zenon DEF TaskInv, TaskTypes
<1>7. HandsBusy'
  <2>1. todo[c] # 0 /\ "send" # "ended"
    <3>1. hand[c] # "ended"
      BY <1>1
    <3> QED
      BY <3>1, Zenon DEF TaskInv, HandsBusy
  <2>2. ASSUME NEW w \in 1..Hands
        PROVE  (hand'[w] = "send" <=> held'[w] # 0) /\ (hand'[w] = "ended" <=> todo[w] = 0)
    <3>1. CASE w = c
      BY <1>4, <1>5, <2>1, <3>1, Zenon
    <3>2. CASE w # c
      BY <1>5, <3>2, Zenon DEF TaskInv, HandsBusy
    <3> QED
      BY <3>1, <3>2
  <2>3. master = "send" => i <= W!All
    BY Zenon DEF TaskInv, HandsBusy
  <2> QED
    BY <1>1, <1>2, <2>2, <2>3, Zenon DEF HandsBusy
<1>8. /\ printed[t0] = 0 /\ t0 < i /\ \A w \in 1..Hands : held[w] # t0 /\ ~Listed(results[w], t0)
  BY <1>3, Zenon DEF TaskInv, TaskOnce
<1>9. TaskOnce'
  <2>1. ASSUME NEW t \in 1..W!All
        PROVE  /\ printed[t] \in {0, 1} /\ (printed[t] = 1 => t < i)
               /\ Listed(tasks', t) =>
                    t < i /\ printed[t] = 0 /\ \A w \in 1..Hands : held'[w] # t /\ ~Listed(results[w], t)
               /\ \A w \in 1..Hands :
                    /\ held'[w] = t => t < i /\ printed[t] = 0 /\ \A v \in 1..Hands :
                                           ~Listed(results[v], t) /\ (v # w => held'[v] # t)
                    /\ Listed(results[w], t) =>
                         t < i /\ printed[t] = 0 /\ \A v \in 1..Hands \ {w} : ~Listed(results[v], t)
    <3>0. /\ printed[t] \in {0, 1} /\ (printed[t] = 1 => t < i)
          /\ Listed(tasks, t) =>
               t < i /\ printed[t] = 0 /\ \A w \in 1..Hands : held[w] # t /\ ~Listed(results[w], t)
          /\ \A w \in 1..Hands :
               /\ held[w] = t => t < i /\ printed[t] = 0 /\ \A v \in 1..Hands :
                                      ~Listed(results[v], t) /\ (v # w => held[v] # t)
               /\ Listed(results[w], t) =>
                    t < i /\ printed[t] = 0 /\ \A v \in 1..Hands \ {w} : ~Listed(results[v], t)
      BY Zenon DEF TaskInv, TaskOnce
    <3>1. CASE t = t0
      <4>1. \A w \in 1..Hands : held'[w] = t0 => w = c
        BY <1>5, <1>8, Zenon
      <4>2. ~Listed(tasks', t0)
        BY <1>3, Zenon
      <4> QED
        BY <1>8, <3>0, <3>1, <4>1, <4>2, Zenon
    <3>2. CASE t # t0
      <4>1. Listed(tasks', t) => Listed(tasks, t)
        BY <1>3, Zenon
      <4>2. \A w \in 1..Hands : held'[w] = t => held[w] = t /\ w # c
        BY <1>5, <3>2, Zenon
      <4> QED
        BY <3>0, <4>1, <4>2, Zenon
    <3> QED
      BY <3>1, <3>2
  <2>2. \A w \in 1..Hands : OnceEach(results[w])
    BY Zenon DEF TaskInv, TaskOnce
  <2>3. results' = results /\ printed' = printed /\ i' = i
    BY <1>1, Zenon
  <2> QED
    BY ONLY <1>3, <2>1, <2>2, <2>3, Zenon DEF TaskOnce
<1>10. MadeCounted'
  <2>1. WithResult' = WithResult /\ Made' = Made
    BY <1>1, Zenon DEF WithResult, Made
  <2> QED
    BY <2>1, Zenon DEF TaskInv, MadeCounted
<1>11. ResultsSeen'
  BY <1>1, <1>2, Zenon DEF TaskInv, ResultsSeen
<1>12. AllPrinted'
  BY <1>1, Zenon DEF TaskInv, AllPrinted
<1> QED
  BY <1>6, <1>7, <1>9, <1>10, <1>11, <1>12, Zenon DEF TaskInv

\* A worker sends a result: one more has been made.
LEMMA OneMoreMade ==
  ASSUME NEW c \in 1..Hands, todo \in [1..Hands -> 0..TasksEach], todo[c] # 0,
         todo' = [todo EXCEPT ![c] = todo[c] - 1]
  PROVE  /\ todo' \in [1..Hands -> 0..TasksEach] /\ todo'[c] = todo[c] - 1
         /\ \A w \in 1..Hands \ {c} : todo'[w] = todo[w]
         /\ IsFiniteSet(Made) /\ Cardinality(Made') = Cardinality(Made) + 1
<1>1. /\ todo[c] \in 1..TasksEach /\ todo[c] - 1 \in 0..TasksEach
      /\ \A y \in 1..TasksEach : y > todo[c] - 1 <=> y > todo[c] \/ y = todo[c]
      /\ ~(todo[c] > todo[c])
  <2>1. todo[c] \in 0..TasksEach
    OBVIOUS
  <2> QED
    BY <2>1, AllTasks
<1>2. /\ todo' \in [1..Hands -> 0..TasksEach] /\ todo'[c] = todo[c] - 1
      /\ \A w \in 1..Hands \ {c} : todo'[w] = todo[w]
  BY <1>1, Zenon
<1>3. PICK p : p = <<c, todo[c]>>
  OBVIOUS
<1>4. p \in (1..Hands) \X (1..TasksEach) /\ p[1] = c /\ p[2] = todo[c]
  BY <1>1, <1>3
<1>5. Made' = Made \cup {p} /\ p \notin Made
  <2>1. p \notin Made
    BY <1>1, <1>4, Zenon DEF Made
  <2>2. ASSUME NEW q \in (1..Hands) \X (1..TasksEach)
        PROVE  q[2] > todo'[q[1]] <=> q[2] > todo[q[1]] \/ q = p
    <3>1. q[1] \in 1..Hands /\ q[2] \in 1..TasksEach /\ q = <<q[1], q[2]>>
      OBVIOUS
    <3>2. CASE q[1] = c
      <4>1. q[2] > todo[c] - 1 <=> q[2] > todo[c] \/ q[2] = todo[c]
        BY <1>1, <3>1
      <4>2. q[2] = todo[c] <=> q = p
        BY <1>3, <1>4, <3>1, <3>2, Zenon
      <4>3. todo'[q[1]] = todo[c] - 1 /\ todo[q[1]] = todo[c]
        BY <1>2, <3>2, Zenon
      <4> QED
        BY <4>1, <4>2, <4>3, Zenon
    <3>3. CASE q[1] # c
      <4>1. todo'[q[1]] = todo[q[1]] /\ q # p
        BY <1>2, <1>4, <3>1, <3>3, Zenon
      <4> QED
        BY <4>1, Zenon
    <3> QED
      BY <3>2, <3>3
  <2>3. Made' = {q \in (1..Hands) \X (1..TasksEach) : q[2] > todo[q[1]] \/ q = p}
    BY <2>2, Zenon DEF Made
  <2>4. Made' = Made \cup {p}
    BY <1>4, <2>3, Zenon DEF Made
  <2> QED
    BY <2>1, <2>4
<1>6. IsFiniteSet(Made)
  <2>1. IsFiniteSet(1..Hands) /\ IsFiniteSet(1..TasksEach)
    BY AllTasks, FS_Interval
  <2>2. IsFiniteSet((1..Hands) \X (1..TasksEach))
    BY <2>1, FS_Product, Zenon
  <2>3. Made \subseteq (1..Hands) \X (1..TasksEach)
    BY Zenon DEF Made
  <2> QED
    BY <2>2, <2>3, FS_Subset, Zenon
<1>7. Cardinality(Made') = Cardinality(Made) + 1
  BY <1>5, <1>6, FS_AddElement, Zenon
<1> QED
  BY <1>2, <1>6, <1>7

\* The result goes to the end of the queue of its worker, and raises the signal if it
\* is the first one there and the parent is registered.
LEMMA SendResultStep ==
  ASSUME TaskInv, NEW c \in 1..Hands, W!SendResult(c)
  PROVE  TaskInv'
<1>0. PICK t0 : t0 = held[c]
  OBVIOUS
<1>1. /\ hand[c] = "send" /\ hand' = [hand EXCEPT ![c] = IF todo[c] = 1 THEN "ended" ELSE "receive"]
      /\ todo' = [todo EXCEPT ![c] = todo[c] - 1] /\ held' = [held EXCEPT ![c] = 0]
      /\ results' = [results EXCEPT ![c] = Append(results[c], t0)]
      /\ UNCHANGED <<master, i, tasks, serving, cursor, printed, hasty>>
  BY <1>0, Zenon DEF W!SendResult, W!master_
<1>2. /\ hand \in [1..Hands -> {"receive", "send", "ended"}] /\ todo \in [1..Hands -> 0..TasksEach]
      /\ held \in [1..Hands -> 0..W!All] /\ results \in [1..Hands -> Seq(1..W!All)]
      /\ notified \in [1..Hands -> BOOLEAN] /\ raised \subseteq 1..Hands
      /\ \A v \in 1..Hands : OnceEach(results[v])
  BY Zenon DEF TaskInv, TaskTypes, TaskOnce
<1>3. t0 # 0 /\ todo[c] # 0 /\ master # "notify"
  <2>1. hand[c] # "ended" /\ hand[c] # "receive"
    BY <1>1
  <2> QED
    BY <1>0, <1>1, <2>1, Zenon DEF TaskInv, HandsBusy
<1>4. t0 \in 1..W!All /\ 0 \in 0..W!All
  <2>1. t0 \in 0..W!All
    BY <1>0, <1>2, Zenon
  <2> QED
    BY <1>3, <2>1, AllTasks
<1>5. /\ todo' \in [1..Hands -> 0..TasksEach] /\ todo'[c] = todo[c] - 1
      /\ \A w \in 1..Hands \ {c} : todo'[w] = todo[w]
      /\ IsFiniteSet(Made) /\ Cardinality(Made') = Cardinality(Made) + 1
  BY <1>1, <1>2, <1>3, OneMoreMade, Zenon
<1>6. /\ hand' \in [1..Hands -> {"receive", "send", "ended"}] /\ held' \in [1..Hands -> 0..W!All]
      /\ hand'[c] = (IF todo[c] = 1 THEN "ended" ELSE "receive") /\ held'[c] = 0
      /\ \A w \in 1..Hands \ {c} : hand'[w] = hand[w] /\ held'[w] = held[w]
  BY <1>1, <1>2, <1>4, Zenon
<1>7. Puts(results, 1..Hands, 1..W!All, c, t0, results')
  BY <1>1, <1>2, <1>4, Zenon DEF Puts
<1>8. Longer(results, 1..Hands, 1..W!All, c, t0, results')
  BY ONLY <1>7, FamilyPuts, Zenon
<1>9. /\ printed[t0] = 0 /\ t0 < i /\ ~Listed(tasks, t0)
      /\ \A v \in 1..Hands : ~Listed(results[v], t0) /\ (v # c => held[v] # t0)
  BY <1>0, <1>4, Zenon DEF TaskInv, TaskOnce
<1>10. /\ results' \in [1..Hands -> Seq(1..W!All)]
       /\ \A v \in 1..Hands \ {c} : results'[v] = results[v]
       /\ \A v \in 1..Hands : \A y : Listed(results'[v], y) <=> Listed(results[v], y) \/ (v = c /\ y = t0)
       /\ \A v \in 1..Hands : OnceEach(results'[v])
  BY <1>2, <1>8, <1>9, Zenon DEF Longer
<1>11. /\ raised' \subseteq 1..Hands /\ notified' \in [1..Hands -> BOOLEAN] /\ raised \subseteq raised'
       /\ results[c] = <<>> /\ notified[c] => c \in raised'
       /\ \A w \in 1..Hands : notified[w] => notified'[w] \/ w \in raised'
  <2>1. CASE results[c] = <<>> /\ notified[c]
    <3>1. raised' = raised \cup {c} /\ notified' = [notified EXCEPT ![c] = FALSE]
      BY <2>1, Zenon DEF W!SendResult
    <3>2. notified' \in [1..Hands -> BOOLEAN] /\ \A w \in 1..Hands \ {c} : notified'[w] = notified[w]
      BY <1>2, <3>1, Zenon
    <3> QED
      BY <1>2, <3>1, <3>2, Zenon
  <2>2. CASE ~(results[c] = <<>> /\ notified[c])
    <3>1. raised' = raised /\ notified' = notified
      BY <2>2, Zenon DEF W!SendResult
    <3> QED
      BY <1>2, <2>2, <3>1, Zenon
  <2> QED
    BY <2>1, <2>2
<1>12. TaskTypes'
  BY <1>1, <1>5, <1>6, <1>10, <1>11, Zenon DEF TaskInv, TaskTypes
<1>13. HandsBusy'
  <2>1. (todo[c] = 1 <=> todo[c] - 1 = 0)
    <3>1. todo[c] \in 0..TasksEach
      BY <1>2, Zenon
    <3> QED
      BY <3>1, AllTasks
  <2>2. "ended" # "send" /\ "receive" # "send" /\ "receive" # "ended"
    OBVIOUS
  <2>3. ASSUME NEW w \in 1..Hands
        PROVE  (hand'[w] = "send" <=> held'[w] # 0) /\ (hand'[w] = "ended" <=> todo'[w] = 0)
    <3>1. CASE w = c
      <4>1. hand'[c] # "send" /\ held'[c] = 0
        BY <1>6, <2>2, Zenon
      <4>2. hand'[c] = "ended" <=> todo'[c] = 0
        BY <1>5, <1>6, <2>1, <2>2, Zenon
      <4> QED
        BY <3>1, <4>1, <4>2, Zenon
    <3>2. CASE w # c
      <4>1. hand'[w] = hand[w] /\ held'[w] = held[w] /\ todo'[w] = todo[w]
        BY ONLY <1>5, <1>6, <3>2, w \in 1..Hands, Zenon
      <4>2. (hand[w] = "send" <=> held[w] # 0) /\ (hand[w] = "ended" <=> todo[w] = 0)
        BY Zenon DEF TaskInv, HandsBusy
      <4> QED
        BY ONLY <4>1, <4>2, Zenon
    <3> QED
      BY <3>1, <3>2
  <2>4. master = "send" => i <= W!All
    BY Zenon DEF TaskInv, HandsBusy
  <2> QED
    BY <1>1, <1>3, <2>3, <2>4, Zenon DEF HandsBusy
<1>14. TaskOnce'
  <2>1. ASSUME NEW t \in 1..W!All
        PROVE  /\ printed[t] \in {0, 1} /\ (printed[t] = 1 => t < i)
               /\ Listed(tasks, t) =>
                    t < i /\ printed[t] = 0 /\ \A w \in 1..Hands : held'[w] # t /\ ~Listed(results'[w], t)
               /\ \A w \in 1..Hands :
                    /\ held'[w] = t => t < i /\ printed[t] = 0 /\ \A v \in 1..Hands :
                                           ~Listed(results'[v], t) /\ (v # w => held'[v] # t)
                    /\ Listed(results'[w], t) =>
                         t < i /\ printed[t] = 0 /\ \A v \in 1..Hands \ {w} : ~Listed(results'[v], t)
    <3>0. /\ printed[t] \in {0, 1} /\ (printed[t] = 1 => t < i)
          /\ Listed(tasks, t) =>
               t < i /\ printed[t] = 0 /\ \A w \in 1..Hands : held[w] # t /\ ~Listed(results[w], t)
          /\ \A w \in 1..Hands :
               /\ held[w] = t => t < i /\ printed[t] = 0 /\ \A v \in 1..Hands :
                                      ~Listed(results[v], t) /\ (v # w => held[v] # t)
               /\ Listed(results[w], t) =>
                    t < i /\ printed[t] = 0 /\ \A v \in 1..Hands \ {w} : ~Listed(results[v], t)
      BY Zenon DEF TaskInv, TaskOnce
    <3>a. \A w \in 1..Hands : held'[w] = t => held[w] = t /\ w # c
      <4>1. t # 0
        BY AllTasks
      <4> QED
        BY <1>6, <4>1, Zenon
    <3>1. CASE t = t0
      <4>1. \A w \in 1..Hands : held'[w] # t0
        BY <1>9, <3>a, <3>1, Zenon
      <4>2. \A w \in 1..Hands : Listed(results'[w], t0) => w = c
        BY <1>9, <1>10, Zenon
      <4> QED
        BY <1>9, <3>0, <3>1, <4>1, <4>2, Zenon
    <3>2. CASE t # t0
      <4>1. \A w \in 1..Hands : Listed(results'[w], t) <=> Listed(results[w], t)
        BY <1>10, <3>2, Zenon
      <4> QED
        BY <3>0, <3>a, <4>1, Zenon
    <3> QED
      BY <3>1, <3>2
  <2>2. OnceEach(tasks)
    BY Zenon DEF TaskInv, TaskOnce
  <2>3. tasks' = tasks /\ printed' = printed /\ i' = i
    BY <1>1, Zenon
  <2> QED
    BY ONLY <1>10, <2>1, <2>2, <2>3, Zenon DEF TaskOnce
<1>15. MadeCounted'
  <2>1. ASSUME NEW t \in 1..W!All
        PROVE  (printed[t] = 1 \/ \E w \in 1..Hands : Listed(results'[w], t)) <=>
               (printed[t] = 1 \/ \E w \in 1..Hands : Listed(results[w], t)) \/ t = t0
    BY <1>10, Zenon
  <2>2. WithResult' = WithResult \cup {t0}
    <3>1. WithResult' = {t \in 1..W!All : (printed[t] = 1 \/ \E w \in 1..Hands : Listed(results[w], t)) \/ t = t0}
      BY <1>1, <2>1, Zenon DEF WithResult
    <3> QED
      BY <1>4, <3>1, Zenon DEF WithResult
  <2>3. t0 \notin WithResult
    <3>1. printed[t0] # 1
      BY <1>9
    <3> QED
      BY <1>9, <3>1, Zenon DEF WithResult
  <2>4. IsFiniteSet(WithResult)
    <3>1. IsFiniteSet(1..W!All)
      BY AllTasks, FS_Interval
    <3>2. WithResult \subseteq 1..W!All
      BY Zenon DEF WithResult
    <3> QED
      BY <3>1, <3>2, FS_Subset, Zenon
  <2>5. Cardinality(WithResult') = Cardinality(WithResult) + 1
    BY <2>2, <2>3, <2>4, FS_AddElement, Zenon
  <2> QED
    BY <1>5, <2>5, Zenon DEF TaskInv, MadeCounted
<1>16. ResultsSeen'
  <2>1. ASSUME NEW w \in 1..Hands, results'[w] # <<>>
        PROVE  raised' # {} \/ (serving # 0 /\ (cursor = 0 \/ cursor <= w))
    <3>1. CASE results[w] # <<>>
      <4>1. raised # {} \/ (serving # 0 /\ (cursor = 0 \/ cursor <= w))
        BY <3>1, Zenon DEF TaskInv, ResultsSeen
      <4>2. raised # {} => raised' # {}
        BY <1>11, Zenon
      <4> QED
        BY <4>1, <4>2
    <3>2. CASE results[w] = <<>>
      <4>1. w = c
        BY <1>10, <2>1, <3>2, Zenon
      <4>2. notified[c] \/ c \in raised \/ (serving = c /\ cursor = 0)
        BY <1>3, Zenon DEF TaskInv, ResultsSeen
      <4>3. c # 0
        BY AllTasks
      <4> QED
        BY <1>11, <3>2, <4>1, <4>2, <4>3, Zenon
    <3> QED
      BY <3>1, <3>2
  <2>2. ASSUME NEW w \in 1..Hands PROVE notified'[w] \/ w \in raised' \/ (serving = w /\ cursor = 0)
    <3>1. notified[w] \/ w \in raised \/ (serving = w /\ cursor = 0)
      BY <1>3, Zenon DEF TaskInv, ResultsSeen
    <3> QED
      BY <1>11, <3>1, Zenon
  <2>3. serving = 0 => cursor = 0
    BY Zenon DEF TaskInv, ResultsSeen
  <2> QED
    BY <1>1, <2>1, <2>2, <2>3, Zenon DEF ResultsSeen
<1>17. AllPrinted'
  BY <1>1, Zenon DEF TaskInv, AllPrinted
<1> QED
  BY <1>12, <1>13, <1>14, <1>15, <1>16, <1>17, Zenon DEF TaskInv

\* Every step of the parent, of its handler and of a worker keeps the invariant.
LEMMA TaskStep == TaskInv /\ W!Next => TaskInv'
BY RegisterStep, SendTaskStep, WaitStep, DeliverStep, NotifyAgainStep, QueueReadStep, ReadResultStep, TakeTaskStep,
   SendResultStep, Zenon DEF W!Next, W!Master, W!Handler, W!Hand

-----------------------------------------------------------------------------
(* All programs *)

LabInv == IInv /\ TaskInv /\ ServerInv /\ SumInv

\* A program that does not run keeps its state, and with it its invariant.
LEMMA Idle ==
  /\ IInv /\ UNCHANGED vars => IInv'
  /\ TaskInv /\ UNCHANGED taskVars => TaskInv'
  /\ ServerInv /\ UNCHANGED serverVars => ServerInv'
  /\ SumInv /\ UNCHANGED sumVars => SumInv'
<1>1. IInv /\ UNCHANGED vars => IInv'
  BY NextInv
<1>2. ASSUME TaskInv, UNCHANGED taskVars PROVE TaskInv'
  <2>1. UNCHANGED <<master, i, tasks, hand, todo, held, results, notified, raised, serving, cursor, printed, hasty>>
    BY <1>2 DEF taskVars
  <2>2. TaskOnce' /\ MadeCounted'
    BY <1>2, <2>1, NoTaskMoves, Zenon
  <2> QED
    BY <1>2, <2>1, <2>2, Zenon DEF TaskInv, TaskTypes, HandsBusy, ResultsSeen, AllPrinted
<1>3. ASSUME ServerInv, UNCHANGED serverVars PROVE ServerInv'
  <2>1. UNCHANGED <<server, requests, watched, rearming, receiving, answering, unnoticed, sender, inbox, shown>>
    BY <1>3 DEF serverVars
  <2>2. AskedOnce' /\ AnsweringOnce' /\ AnsweredAt'
    BY <1>3, <2>1, NothingMoves, Zenon DEF ServerInv
  <2> QED
    BY <1>3, <2>1, <2>2, Zenon DEF ServerInv, ServerTypes, S!OneForEachNotice, S!Up
<1>4. SumInv /\ UNCHANGED sumVars => SumInv'
  BY DEF SumInv, sumVars
<1> QED
  BY <1>1, <1>2, <1>3, <1>4

\* The invariant of the four programs is inductive.
LEMMA LabInductive ==
  /\ LabInit => LabInv
  /\ LabInv /\ [LabNext]_labVars => LabInv'
<1>1. LabInit => LabInv
  BY InitInv, TaskInit, ServerInit, SumInit, Zenon DEF LabInit, LabInv
<1>2. ASSUME LabInv, LabNext PROVE LabInv'
  <2>1. CASE OnlyNotify /\ Next
    BY <1>2, <2>1, NextInv, Idle DEF LabInv, OnlyNotify
  <2>2. CASE OnlyTasks /\ W!Next
    BY <1>2, <2>2, TaskStep, Idle, Zenon DEF LabInv, OnlyTasks
  <2>3. CASE OnlyServer /\ S!Next
    BY <1>2, <2>3, ServerStep, Idle, Zenon DEF LabInv, OnlyServer
  <2>4. CASE OnlySum /\ A!Next
    BY <1>2, <2>4, SumStep, Idle, Zenon DEF LabInv, OnlySum
  <2>5. LectureChild \/ ParentMain \/ NotifyThread \/ Reaper \/ (\E c \in Children : BingoKid(c)) => OnlyNotify /\ Next
    BY Zenon DEF LectureChild, ParentMain, NotifyThread, Reaper, BingoKid, Next
  <2>6. TaskMaster \/ TaskHandler \/ (\E w \in 1..Hands : TaskHand(w)) => OnlyTasks /\ W!Next
    BY Zenon DEF TaskMaster, TaskHandler, TaskHand, W!Next
  <2>7. ServerThreads \/ StopServer \/ (\E c \in Clients : TypeRequest(c) \/ ClientReader(c) \/ ClientMain(c))
          => OnlyServer /\ S!Next
    BY Zenon DEF ServerThreads, StopServer, TypeRequest, ClientReader, ClientMain, S!Next
  <2>8. SumServer \/ TypeSum \/ SumClient => OnlySum /\ A!Next
    BY Zenon DEF SumServer, TypeSum, SumClient, A!Next
  <2> QED
    BY <1>2, <2>1, <2>2, <2>3, <2>4, <2>5, <2>6, <2>7, <2>8, Zenon DEF LabNext
<1>3. ASSUME LabInv, UNCHANGED labVars PROVE LabInv'
  BY <1>3, Idle DEF LabInv, labVars
<1> QED
  BY <1>1, <1>2, <1>3

\* It holds in every state of every behaviour.
LEMMA Invariance == LabSpec => []LabInv
<1> QED
  BY LabInductive, PTL DEF LabSpec

\* The results of the tasks, the answers of the server and the sum of its first version
\* are each printed at most once, by who asked; all results are when the parent has
\* seen its workers end; and the messages that the server leaves in a queue are those
\* nobody was told of (Lab - 6/example.c:61-94, 259; server.c:47-53; client.c:60, 152;
\* Example Task/task.c:52-73).
THEOREM AnswersAreGivenOnce == LabSpec => []AnsweredOnce
<1>1. LabInv => AnsweredOnce
  BY TaskSafe, ServerSafe, SumsOnly, Zenon DEF LabInv, AnsweredOnce
<1> QED
  BY <1>1, Invariance, PTL

\* The types of the programs' state, with the bounds of the queues and the count of
\* children, which the handler of SIGCHLD keeps above zero (Bingo.c:61-77).
THEOREM TypeCorrect == LabSpec => []TypeOK
<1>1. LabInv => TypeOK
  BY DEF LabInv, IInv
<1> QED
  BY <1>1, Invariance, PTL

\* No message lies in the queue with nobody to receive it, but for a notification
\* that came before sigprocmask in 08 or before mq_notify in Bingo (08:107, Bingo.c:57).
THEOREM NobodyStranded == LabSpec => []NoneStranded
<1>1. LabInv => NoneStranded
  BY DEF LabInv, IInv, QueueInv
<1> QED
  BY <1>1, Invariance, PTL

\* mq_notify never fails with EBUSY, and one thread at a time serves Bingo's queue
\* (08:118, 09:40, Bingo.c:57).
THEOREM NotifyNeverBusy == LabSpec => []NotifyNotBusy
<1>1. LabInv => NotifyNotBusy
  BY DEF LabInv, IInv, QueueInv, Registration, NotifyNotBusy
<1> QED
  BY <1>1, Invariance, PTL
=============================================================================
