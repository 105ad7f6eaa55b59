---------------------------- MODULE QueueNotify ----------------------------
(***************************************************************************)
(* Programs whose parent is notified of messages in a queue: by a signal   *)
(* in Lecture Codes/02_mqueue/08_async_notification_signal.c, by a thread  *)
(* in 09_async_notification_thread.c and in Lab - 6/Tutorial/Bingo.c.      *)
(* mq_notify registers the process for one message that comes to an empty  *)
(* queue; whoever is notified registers again and empties the queue, in    *)
(* Bingo the other way round.                                              *)
(*                                                                         *)
(* An operator named Faulty... is the definition that follows it with a    *)
(* plausible mistake in it; no specification uses one.                     *)
(***************************************************************************)
EXTENDS Integers, FiniteSets

CONSTANTS Capacity,   \* mq_maxmsg of every queue
          Blocks,     \* the blocks of messages of the lectures' child
          Burst,      \* the longest block
          Children,   \* the children of Bingo
          LifeSpan    \* LIFE_SPAN

ASSUME QueueAssumption ==
  /\ Capacity \in Nat \ {0} /\ Blocks \in Nat \ {0} /\ Burst \in Nat \ {0}
  /\ LifeSpan \in Nat \ {0} /\ IsFiniteSet(Children)

VARIABLES prog,         \* the program that runs
          queued,       \* the messages in the queue with the notification
          registered,   \* the parent is registered for it
          restoring,    \* notification threads about to call mq_notify
          draining,     \* notification threads that receive until the queue is empty
          parent,       \* where the main thread of the parent is
          usr1, int,    \* SIGUSR1, SIGINT are pending in the parent
          should_exit,
          child,        \* where the child of the lectures is
          blocks,       \* the blocks it has still to send
          burst,        \* the messages it has still to send of this one
          kid, life,    \* where each child of Bingo is, the numbers it still waits for
          numbers,      \* the messages in /bingo_out
          sigchld,      \* SIGCHLD is pending
          children_left,
          missed        \* history: a notification found nobody to empty the queue

queue == <<queued, registered>>
threads == <<restoring, draining>>
signals == <<usr1, int, should_exit>>
lecture == <<child, blocks, burst>>
bingo == <<kid, life, numbers, sigchld, children_left>>
vars == <<prog, queue, threads, parent, signals, lecture, bingo, missed>>

Ended == {"done", "failed", "killed"}
Closing == {"reap", "close"} \cup Ended

TypeOK ==
  /\ prog \in {"signal", "thread", "bingo"}
  /\ queued \in 0..Capacity /\ registered \in BOOLEAN
  /\ restoring \in Nat /\ draining \in Nat
  /\ parent \in {"setup", "blocked", "suspend", "restore", "drain", "test", "send"} \cup Closing
  /\ usr1 \in BOOLEAN /\ int \in BOOLEAN /\ should_exit \in BOOLEAN
  /\ child \in {"block", "send", "kill", "done", "failed"}
  /\ blocks \in 0..Blocks /\ burst \in 0..Burst
  /\ kid \in [Children -> {"recv", "answer", "exit", "zombie", "reaped"}]
  /\ life \in [Children -> 0..LifeSpan]
  /\ numbers \in 0..Capacity /\ sigchld \in BOOLEAN
  /\ children_left \in 0..Cardinality(Children)
  /\ missed \in BOOLEAN

\* The queues are empty: those of Bingo, which are not unlinked first, too.
Init ==
  /\ prog \in {"signal", "thread", "bingo"}
  /\ queued = 0
  /\ registered \in BOOLEAN /\ (registered <=> prog # "bingo")
  /\ restoring = 0 /\ draining = 0
  /\ parent = "setup"
  /\ usr1 = FALSE /\ int = FALSE /\ should_exit = FALSE
  /\ child = "block" /\ blocks = Blocks /\ burst = 0
  /\ kid = [c \in Children |-> "recv"] /\ life \in [Children -> 1..LifeSpan]
  /\ numbers = 0 /\ sigchld = FALSE /\ children_left = Cardinality(Children)
  /\ missed = FALSE

-----------------------------------------------------------------------------
(* The queue *)

\* What the notification of a message does.
Signal ==
  /\ prog = "signal"
  /\ usr1' = (parent # "setup") /\ missed' = (missed \/ parent = "setup")
  /\ UNCHANGED <<threads, int, should_exit>>

NewThread ==
  /\ prog # "signal"
  /\ IF prog = "thread" THEN restoring' = restoring + 1 /\ UNCHANGED draining
     ELSE draining' = draining + 1 /\ UNCHANGED restoring
  /\ UNCHANGED <<signals, missed>>

\* In Bingo a message to an empty queue is missed when no thread is there to receive it.
NoNotification ==
  /\ missed' = (missed \/ (queued = 0 /\ ~registered /\ prog = "bingo" /\ draining = 0))
  /\ UNCHANGED <<threads, signals>>

\* mq_send, where there is room: a message that comes to an empty queue uses up
\* the registration.
Enqueue ==
  /\ queued < Capacity /\ queued' = queued + 1
  /\ registered' = (registered /\ queued > 0)
  /\ IF queued = 0 /\ registered THEN Signal \/ NewThread ELSE NoNotification

-----------------------------------------------------------------------------
(* The child of the lectures *)

Begin ==
  /\ prog # "bingo" /\ child = "block"
  /\ burst' \in 1..Burst /\ blocks' = blocks - 1 /\ child' = "send"
  /\ UNCHANGED <<prog, queue, threads, parent, signals, bingo, missed>>

Send ==
  /\ prog # "bingo" /\ child = "send" /\ Enqueue
  /\ burst' = burst - 1
  /\ child' = IF burst > 1 THEN "send" ELSE IF blocks > 0 THEN "block" ELSE "kill"
  /\ UNCHANGED <<prog, parent, blocks, bingo>>

\* The queue is O_NONBLOCK for the child as well: it returns without the signal.
QueueFull ==
  /\ prog # "bingo" /\ child = "send" /\ queued = Capacity
  /\ child' = "failed"
  /\ UNCHANGED <<prog, queue, threads, parent, signals, blocks, burst, bingo, missed>>

\* SIGINT is handled where it is not blocked: by the main thread before it blocks
\* it, by a notification thread, or later in sigsuspend.
Kill ==
  /\ prog # "bingo" /\ child = "kill" /\ child' = "done"
  /\ \/ /\ parent = "setup" \/ (parent = "blocked" /\ restoring + draining > 0)
        /\ should_exit' = TRUE /\ UNCHANGED int
     \/ parent # "setup" /\ int' = TRUE /\ UNCHANGED should_exit
  /\ UNCHANGED <<prog, queue, threads, parent, usr1, blocks, burst, bingo, missed>>

Child == Begin \/ Send \/ QueueFull \/ Kill

-----------------------------------------------------------------------------
(* The parent of the lectures *)

Goes(from, to) == parent = from /\ parent' = to /\ UNCHANGED <<prog, lecture, bingo, missed>>

Block ==
  /\ prog # "bingo" /\ Goes("setup", "blocked")
  /\ UNCHANGED <<queue, threads, signals>>

Suspend ==
  /\ prog # "bingo" /\ Goes("blocked", "suspend")
  /\ UNCHANGED <<queue, threads, signals>>

FaultyWake ==
  /\ usr1 \/ int
  /\ usr1' = FALSE /\ int' = FALSE /\ should_exit' = (should_exit \/ int)
  /\ Goes("suspend", IF prog = "signal" THEN "restore" ELSE "reap")
  /\ UNCHANGED <<queue, threads>>

\* sigsuspend returns when the handlers of all pending signals have.
Wake ==
  /\ usr1 \/ int
  /\ usr1' = FALSE /\ int' = FALSE /\ should_exit' = (should_exit \/ int)
  /\ Goes("suspend", IF should_exit' THEN "reap" ELSE "restore")
  /\ UNCHANGED <<queue, threads>>

\* mq_notify fails for who is registered already.
Restore ==
  /\ Goes("restore", IF registered THEN "failed" ELSE "drain")
  /\ registered' = TRUE
  /\ UNCHANGED <<queued, threads, signals>>

Drain ==
  /\ \/ Goes("drain", "drain") /\ queued > 0 /\ queued' = queued - 1
     \/ Goes("drain", "suspend") /\ queued = 0 /\ UNCHANGED queued
  /\ UNCHANGED <<registered, threads, signals>>

Reap ==
  /\ child \in {"done", "failed"}
  /\ Goes("reap", "close")
  /\ UNCHANGED <<queue, threads, signals>>

\* main returns, and with it the notification threads.
Return ==
  /\ Goes("close", "done")
  /\ restoring' = 0 /\ draining' = 0
  /\ UNCHANGED <<queue, signals>>

Main == Block \/ Suspend \/ Wake \/ Restore \/ Drain \/ Reap \/ Return

-----------------------------------------------------------------------------
(* Notification threads *)

Open == parent \notin {"close"} \cup Ended

FaultyThreadRestore ==
  /\ Open /\ restoring > 0 /\ restoring' = restoring - 1
  /\ registered' = TRUE
  /\ UNCHANGED <<prog, queued, draining, parent, signals, lecture, bingo, missed>>

\* mq_notify comes before the loop in 09, after it in Bingo; it would fail
\* for who is registered already.
ThreadRestore ==
  /\ Open /\ restoring > 0 /\ restoring' = restoring - 1
  /\ registered' = TRUE
  /\ parent' = IF registered THEN "failed" ELSE parent
  /\ draining' = IF prog = "thread" THEN draining + 1 ELSE draining
  /\ UNCHANGED <<prog, queued, signals, lecture, bingo, missed>>

ThreadReceive ==
  /\ Open /\ draining > 0 /\ queued > 0 /\ queued' = queued - 1
  /\ UNCHANGED <<prog, registered, threads, parent, signals, lecture, bingo, missed>>

\* EAGAIN
ThreadEmpty ==
  /\ Open /\ draining > 0 /\ queued = 0 /\ draining' = draining - 1
  /\ restoring' = IF prog = "bingo" THEN restoring + 1 ELSE restoring
  /\ UNCHANGED <<prog, queue, parent, signals, lecture, bingo, missed>>

\* Calls on the queue that main has closed fail: the process exits, in Bingo with
\* everybody else in its group.
ThreadFails ==
  /\ parent = "close" /\ restoring + draining > 0
  /\ parent' = IF prog = "bingo" THEN "killed" ELSE "failed"
  /\ UNCHANGED <<prog, queue, threads, signals, lecture, bingo, missed>>

Thread == ThreadRestore \/ ThreadReceive \/ ThreadEmpty \/ ThreadFails

-----------------------------------------------------------------------------
(* Bingo *)

\* mq_notify, when all children run.
Notify ==
  /\ prog = "bingo" /\ Goes("setup", "test")
  /\ registered' = TRUE
  /\ UNCHANGED <<queued, threads, signals>>

Test ==
  /\ Goes("test", IF children_left > 0 THEN "send" ELSE "close")
  /\ UNCHANGED <<queue, threads, signals>>

\* mq_send waits for room; a signal only repeats it.
SendNumber ==
  /\ parent = "send" /\ parent' = "test"
  /\ numbers < Capacity /\ numbers' = numbers + 1
  /\ UNCHANGED <<prog, queue, threads, signals, lecture, kid, life, sigchld, children_left, missed>>

KidGoes(c, from, to) == kid[c] = from /\ kid' = [kid EXCEPT ![c] = to]

\* A number is received; it is that of the child, or the last, or neither.
Receive(c) ==
  /\ prog = "bingo" /\ parent # "killed"
  /\ \/ KidGoes(c, "recv", "answer")
     \/ KidGoes(c, "recv", "recv") /\ life[c] > 1
  /\ numbers > 0 /\ numbers' = numbers - 1
  /\ life' = [life EXCEPT ![c] = @ - 1]
  /\ UNCHANGED <<prog, queue, threads, parent, signals, lecture, sigchld, children_left, missed>>

\* The only message of the child; who finds the queue full kills the group.
Answer(c) ==
  /\ prog = "bingo" /\ parent # "killed"
  /\ \/ KidGoes(c, "answer", "exit") /\ Enqueue /\ UNCHANGED parent
     \/ /\ kid[c] = "answer" /\ queued = Capacity /\ parent' = "killed"
        /\ UNCHANGED <<kid, queue, threads, signals, missed>>
  /\ UNCHANGED <<prog, lecture, life, numbers, sigchld, children_left>>

Exit(c) ==
  /\ prog = "bingo" /\ parent # "killed"
  /\ KidGoes(c, "exit", "zombie")
  /\ sigchld' = TRUE
  /\ UNCHANGED <<prog, queue, threads, parent, signals, lecture, life, numbers, children_left, missed>>

Zombies == {c \in Children : kid[c] = "zombie"}

FaultySigchldHandler ==
  /\ sigchld /\ parent \notin Ended /\ sigchld' = FALSE
  /\ \E c \in Zombies : kid' = [kid EXCEPT ![c] = "reaped"]
  /\ children_left' = children_left - 1
  /\ UNCHANGED <<prog, queue, threads, parent, signals, lecture, life, numbers, missed>>

\* The children that waitpid returns to the loop of the handler.
Counted == Cardinality(Zombies)

\* waitpid until nobody is left to wait for: one SIGCHLD may stand for several.
SigchldHandler ==
  /\ sigchld /\ parent \notin Ended /\ sigchld' = FALSE
  /\ kid' = [c \in Children |-> IF c \in Zombies THEN "reaped" ELSE kid[c]]
  /\ children_left' = children_left - Counted
  /\ UNCHANGED <<prog, queue, threads, parent, signals, lecture, life, numbers, missed>>

Kid(c) == Receive(c) \/ Answer(c) \/ Exit(c)

BingoMain == Notify \/ Test \/ SendNumber

-----------------------------------------------------------------------------
Next ==
  \/ Child \/ Main \/ Thread
  \/ BingoMain \/ SigchldHandler \/ \E c \in Children : Kid(c)

-----------------------------------------------------------------------------
(* Properties *)

\* Messages in the queue are being received, or somebody is about to, until the
\* program ends: 09 restores the notification before it empties the queue, so that
\* a message that comes between finds it (09_async_notification_thread.c:33-58).
\* 08 misses a notification before sigprocmask (:107), and Bingo a message that
\* comes between the last mq_receive and mq_notify (Bingo.c:41-58).
NoneStranded ==
  queued > 0 /\ ~missed =>
    \/ prog = "signal" /\ (usr1 \/ parent \in {"restore", "drain"})
    \/ restoring + draining > 0
    \/ parent \in Closing

\* mq_notify never finds the process registered (08:118, 09:40, Bingo.c:57); in
\* Bingo there is at most one notification thread at a time.
NotifyNotBusy ==
  /\ registered => parent # "restore" /\ restoring = 0
  /\ prog = "bingo" => restoring + draining <= 1

\* The parent of the lectures waits for SIGINT, which does not come from a child
\* that found the queue full, or came before sigsuspend (08:107-112, 09:130-135).
SleepsForEver ==
  parent = "suspend" /\ ~usr1 /\ ~int /\ (child = "failed" \/ should_exit)

\* The parent of Bingo waits for room, and nobody is left to receive (Bingo.c:110).
SendsForEver ==
  parent = "send" /\ numbers = Capacity /\ \A c \in Children : kid[c] = "reaped"
=============================================================================
