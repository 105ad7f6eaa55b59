----------------------------- MODULE TaskQueue -----------------------------
(***************************************************************************)
(* Lab - 6/example.c: a parent puts tasks into a queue, workers take them  *)
(* and put each result into a queue of their own.  SIGRTMIN tells the      *)
(* parent of a message in an empty result queue; its handler asks for the  *)
(* next notification of that queue and then reads all of them.  The sums   *)
(* are left out: a task is its number.                                     *)
(*                                                                         *)
(* An operator named Faulty... is the definition that follows it with a    *)
(* plausible mistake in it; no specification uses one.                     *)
(***************************************************************************)
EXTENDS Integers, Sequences

CONSTANTS Hands,      \* n, the number of workers
          TasksEach,  \* the tasks of a worker, 5 in the code
          MaxMsgs     \* MAX_MSGS, not less than TasksEach

VARIABLES master,     \* where the parent is
          i,          \* the counter of its loops
          tasks,      \* the tasks in the queue
          hand,       \* where each worker is
          todo,       \* the tasks it has still to take
          held,       \* the task in its hands, or 0
          results,    \* the queue of its results
          notified,   \* the parent is registered for that queue
          raised,     \* the workers whose SIGRTMIN is pending in the parent
          serving,    \* the worker whose notification is handled, or 0
          cursor,     \* the queue the handler reads, 0 before mq_notify
          errno,
          printed,    \* history: how often each result was printed
          hasty       \* history: errno did not say any more why wait failed

master_ == <<master, i>>
handler == <<raised, serving, cursor, errno, printed>>
worker == <<hand, todo, held>>

All == Hands * TasksEach

TypeOK ==
  /\ master \in {"notify", "send", "wait", "interrupted", "test", "finished", "killed"}
  /\ i \in 1..All + 1 /\ tasks \in Seq(1..All) /\ Len(tasks) <= MaxMsgs
  /\ hand \in [1..Hands -> {"receive", "send", "ended"}]
  /\ todo \in [1..Hands -> 0..TasksEach] /\ held \in [1..Hands -> 0..All]
  /\ results \in [1..Hands -> Seq(1..All)] /\ notified \in [1..Hands -> BOOLEAN]
  /\ raised \subseteq 1..Hands /\ serving \in 0..Hands /\ cursor \in 0..Hands
  /\ errno \in {"", "EINTR", "EAGAIN", "ECHILD"}
  /\ printed \in [1..All -> Nat] /\ hasty \in BOOLEAN

Init ==
  /\ master = "notify" /\ i = 1 /\ tasks = <<>>
  /\ hand = [w \in 1..Hands |-> "receive"]
  /\ todo = [w \in 1..Hands |-> TasksEach] /\ held = [w \in 1..Hands |-> 0]
  /\ results = [w \in 1..Hands |-> <<>>] /\ notified = [w \in 1..Hands |-> FALSE]
  /\ raised = {} /\ serving = 0 /\ cursor = 0 /\ errno = ""
  /\ printed = [t \in 1..All |-> 0] /\ hasty = FALSE

-----------------------------------------------------------------------------
(* The parent; its handler runs where the parent is *)

Goes(from, to) == master = from /\ serving = 0 /\ master' = to

\* mq_notify for each result queue
Register ==
  /\ Goes("notify", IF i = Hands THEN "send" ELSE "notify")
  /\ i' = IF i = Hands THEN 1 ELSE i + 1
  /\ notified' = [notified EXCEPT ![i] = TRUE]
  /\ UNCHANGED <<tasks, worker, results, handler, hasty>>

\* mq_timedsend, whose time is long over: it fails at once while the queue is full,
\* and the loop tries again.
SendTask ==
  /\ Len(tasks) < MaxMsgs
  /\ Goes("send", IF i = All THEN "wait" ELSE "send")
  /\ tasks' = Append(tasks, i) /\ i' = i + 1
  /\ UNCHANGED <<worker, results, notified, handler, hasty>>

\* SIGCHLD is ignored: wait returns when all workers have ended.  A signal of
\* theirs is delivered before that.
AllWaited ==
  /\ Goes("wait", "finished")
  /\ \A w \in 1..Hands : hand[w] = "ended"
  /\ raised = {} /\ errno' = "ECHILD"
  /\ UNCHANGED <<i, tasks, worker, results, notified, raised, serving, cursor, printed, hasty>>

\* wait fails after the handler has returned: errno is set then ...
SetErrno ==
  /\ Goes("interrupted", "test") /\ errno' = "EINTR"
  /\ UNCHANGED <<i, tasks, worker, results, notified, raised, serving, cursor, printed, hasty>>

\* ... and tested, maybe after another signal.
TestErrno ==
  /\ Goes("test", IF errno = "EINTR" THEN "wait" ELSE "finished")
  /\ hasty' = (errno # "EINTR")
  /\ UNCHANGED <<i, tasks, worker, results, notified, handler>>

Master == Register \/ SendTask \/ AllWaited \/ SetErrno \/ TestErrno

-----------------------------------------------------------------------------
(* mq_handler; SIGRTMIN is blocked while it runs *)

Deliver(w) ==
  /\ w \in raised /\ serving = 0 /\ master # "killed"
  /\ raised' = raised \ {w} /\ serving' = w
  /\ master' = IF master = "wait" THEN "interrupted" ELSE master
  /\ UNCHANGED <<i, tasks, worker, results, notified, cursor, errno, printed, hasty>>

\* Who is registered already fails, and kills the group.
NotifyAgain ==
  /\ serving # 0 /\ cursor = 0 /\ cursor' = 1
  /\ notified' = [notified EXCEPT ![serving] = TRUE]
  /\ master' = IF notified[serving] THEN "killed" ELSE master
  /\ UNCHANGED <<i, tasks, worker, results, raised, serving, errno, printed, hasty>>

ReadResult ==
  /\ serving # 0 /\ cursor # 0 /\ results[cursor] # <<>>
  /\ printed' = [printed EXCEPT ![Head(results[cursor])] = @ + 1]
  /\ results' = [results EXCEPT ![cursor] = Tail(@)]
  /\ UNCHANGED <<master_, tasks, worker, notified, raised, serving, cursor, errno, hasty>>

FaultyQueueRead ==
  /\ serving # 0 /\ cursor # 0
  /\ cursor' = IF cursor = Hands THEN 0 ELSE cursor + 1
  /\ serving' = IF cursor = Hands THEN 0 ELSE serving
  /\ errno' = "EAGAIN"
  /\ UNCHANGED <<master_, tasks, worker, results, notified, raised, printed, hasty>>

\* EAGAIN: the next queue; the handler returns after the last one.
QueueRead ==
  /\ serving # 0 /\ cursor # 0 /\ results[cursor] = <<>>
  /\ cursor' = IF cursor = Hands THEN 0 ELSE cursor + 1
  /\ serving' = IF cursor = Hands THEN 0 ELSE serving
  /\ errno' = "EAGAIN"
  /\ UNCHANGED <<master_, tasks, worker, results, notified, raised, printed, hasty>>

Handler == (\E w \in 1..Hands : Deliver(w)) \/ NotifyAgain \/ ReadResult \/ QueueRead

-----------------------------------------------------------------------------
(* child_work *)

Receive(w) ==
  /\ hand[w] = "receive" /\ tasks # <<>>
  /\ hand' = [hand EXCEPT ![w] = "send"]
  /\ held' = [held EXCEPT ![w] = Head(tasks)] /\ tasks' = Tail(tasks)
  /\ UNCHANGED <<master_, todo, results, notified, handler, hasty>>

\* There is always room.  The first message of an empty queue uses up the
\* registration.
SendResult(w) ==
  /\ hand[w] = "send"
  /\ hand' = [hand EXCEPT ![w] = IF todo[w] = 1 THEN "ended" ELSE "receive"]
  /\ todo' = [todo EXCEPT ![w] = @ - 1] /\ held' = [held EXCEPT ![w] = 0]
  /\ results' = [results EXCEPT ![w] = Append(@, held[w])]
  /\ IF results[w] = <<>> /\ notified[w]
     THEN raised' = raised \cup {w} /\ notified' = [notified EXCEPT ![w] = FALSE]
     ELSE UNCHANGED <<raised, notified>>
  /\ UNCHANGED <<master_, tasks, serving, cursor, errno, printed, hasty>>

Hand(w) == master # "killed" /\ (Receive(w) \/ SendResult(w))

Next == Master \/ Handler \/ \E w \in 1..Hands : Hand(w)

-----------------------------------------------------------------------------
(* Properties *)

\* A result is printed at most once, and every one is when "All workers have finished"
\* is (example.c:262), unless the handler changed errno between the return of wait and
\* its test: then the loop ends while workers still run (:259).
ResultsComplete ==
  /\ \A t \in 1..All : printed[t] <= 1
  /\ master = "finished" /\ ~hasty => \A t \in 1..All : printed[t] = 1

\* In the end the parent has sent all tasks, and every worker got its five.
AllFinished == master = "finished" /\ \A w \in 1..Hands : hand[w] = "ended"
=============================================================================
