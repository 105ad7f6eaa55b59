----------------------------- MODULE QueueLabs -----------------------------
(***************************************************************************)
(* The programs with message queues: those of QueueNotify, the tasks of    *)
(* Lab - 6/example.c, the server and the clients of Example Task, and its  *)
(* first version with one queue.  A behaviour runs one of them.            *)
(***************************************************************************)
EXTENDS QueueNotify, Sequences

CONSTANTS Hands, TasksEach, MaxMsgs,  \* of TaskQueue
          Ops, Clients, Typed         \* of TaskServer

ASSUME LabAssumption ==
  /\ Hands \in Nat \ {0} /\ TasksEach \in Nat \ {0} /\ MaxMsgs \in Nat /\ TasksEach <= MaxMsgs
  /\ "s" \in Ops /\ Typed \in Nat

VARIABLES lab,
          master, i, tasks, hand, todo, held, results, notified, raised, serving, cursor,
          errno, printed, hasty,
          server, requests, watched, rearming, receiving, answering, unnoticed, client,
          sender, reader, inbox, named, armed, alarm, shown,
          summer, asker, shared, owner, usr1Sum, usr1Ask, got

taskVars == <<master, i, tasks, hand, todo, held, results, notified, raised, serving, cursor,
              errno, printed, hasty>>
serverVars == <<server, requests, watched, rearming, receiving, answering, unnoticed, client,
                sender, reader, inbox, named, armed, alarm, shown>>
sumVars == <<summer, asker, shared, owner, usr1Sum, usr1Ask, got>>
labVars == <<lab, vars, taskVars, serverVars, sumVars>>

W == INSTANCE TaskQueue
S == INSTANCE TaskServer
A == INSTANCE SumQueue

\* A program that does not run has one initial state.
LabInit ==
  /\ lab \in {"notify", "tasks", "server", "sums"}
  /\ Init /\ (lab = "notify" \/ (prog = "signal" /\ life = [c \in Children |-> 1]))
  /\ W!Init /\ S!Init /\ A!Init

OnlyNotify == lab = "notify" /\ UNCHANGED <<lab, taskVars, serverVars, sumVars>>
OnlyTasks == lab = "tasks" /\ UNCHANGED <<lab, vars, serverVars, sumVars>>
OnlyServer == lab = "server" /\ UNCHANGED <<lab, vars, taskVars, sumVars>>
OnlySum == lab = "sums" /\ UNCHANGED <<lab, vars, taskVars, serverVars>>

LectureChild == OnlyNotify /\ Child
ParentMain == OnlyNotify /\ (Main \/ BingoMain)
NotifyThread == OnlyNotify /\ Thread
Reaper == OnlyNotify /\ SigchldHandler
BingoKid(c) == OnlyNotify /\ Kid(c)

TaskMaster == OnlyTasks /\ W!Master
TaskHandler == OnlyTasks /\ W!Handler
TaskHand(w) == OnlyTasks /\ W!Hand(w)

ServerThreads == OnlyServer /\ (S!Service \/ S!Reply)
StopServer == OnlyServer /\ S!Interrupt
TypeRequest(c) == OnlyServer /\ S!Send(c)
ClientReader(c) == OnlyServer /\ S!Reader(c)
ClientMain(c) == OnlyServer /\ S!ClientMain(c)

SumServer == OnlySum /\ A!SumStep
TypeSum == OnlySum /\ A!AskSend
SumClient == OnlySum /\ A!AskStep

LabNext ==
  \/ LectureChild \/ ParentMain \/ NotifyThread \/ Reaper \/ TaskMaster \/ TaskHandler
  \/ ServerThreads \/ StopServer \/ SumServer \/ TypeSum \/ SumClient
  \/ \E c \in Children : BingoKid(c)
  \/ \E w \in 1..Hands : TaskHand(w)
  \/ \E c \in Clients : TypeRequest(c) \/ ClientReader(c) \/ ClientMain(c)

\* Every process and thread runs until it blocks, and signals are delivered; a user
\* may type nothing, or never interrupt the server.
LabSpec ==
  /\ LabInit /\ [][LabNext]_labVars
  /\ WF_labVars(LectureChild) /\ WF_labVars(ParentMain) /\ WF_labVars(NotifyThread)
  /\ WF_labVars(Reaper) /\ \A c \in Children : WF_labVars(BingoKid(c))
  /\ WF_labVars(TaskMaster) /\ WF_labVars(TaskHandler) /\ \A w \in 1..Hands : WF_labVars(TaskHand(w))
  /\ WF_labVars(ServerThreads)
  /\ \A c \in Clients : WF_labVars(ClientReader(c)) /\ WF_labVars(ClientMain(c))
  /\ WF_labVars(SumServer) /\ WF_labVars(SumClient)

-----------------------------------------------------------------------------
(* Properties *)

\* The type invariants of the four models.
TypesOK == TypeOK /\ W!TypeOK /\ S!TypeOK /\ A!TypeOK

\* Requests, tasks and answers are not done twice on their way through the queues, and what
\* stays behind is known: the result of every task is printed once, unless the handler came
\* between wait and the test of errno (Lab - 6/example.c:61-94, 259-262), a message stays in a
\* queue of the server only when none told of it (server.c:47-53), an answer is printed at
\* most once, by the client that asked (client.c:60, 152), and never is a request taken for
\* an answer (Example Task/task.c:52-73).
AnsweredOnce ==
  W!ResultsComplete /\ S!OneForEachNotice /\ S!ShownOnce /\ A!OnlySums

\* Every program ends or comes to rest, each child of Bingo counted off however their
\* signals merge (Bingo.c:61-77), but for a parent or a client that waits for what
\* has been or was taken (08:107-112, Bingo.c:110, Lab - 6/example.c:259, client.c:60,
\* Example Task/task.c:144).
EachRests ==
  <>[](/\ lab = "notify" => parent \in Ended \/ SleepsForEver \/ SendsForEver
       /\ lab = "tasks" => W!AllFinished
       /\ lab = "server" => S!ClientsQuit
       /\ lab = "sums" => A!SumArrived)
=============================================================================
