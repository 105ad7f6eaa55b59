----------------------------- MODULE TaskServer -----------------------------
(***************************************************************************)
(* Lab - 6/Example Task/task_programs: server.c computes for the clients   *)
(* of client.c.  The server has one queue per operation and a notification *)
(* thread for each of its messages; a client has one queue for the answers *)
(* which a thread reads, or the handler of SIGUSR1 when that thread did    *)
(* not wait for the message.  The users of the clients type well-formed    *)
(* requests.                                                               *)
(***************************************************************************)
EXTENDS Integers, Sequences

CONSTANTS Ops,        \* the operations; the second operand of all but "s" may be zero
          Clients,
          Typed       \* the requests the users type

VARIABLES server,     \* where the main thread of the server is
          requests,   \* its queues
          watched,    \* the server is registered for the queue
          rearming,   \* notification threads before mq_notify
          receiving,  \* notification threads before mq_receive
          answering,  \* requests received and not yet answered
          unnoticed,  \* history: messages that came without a notification
          client,     \* where the main thread of each client is
          sender,     \* the client of each request typed
          reader,     \* where its reading thread is
          inbox,      \* the answers in its queue
          named,      \* the name of its queue exists
          armed,      \* whose variable its registration points to, or "no"
          alarm,      \* whose variable a pending SIGUSR1 points to, or "no"
          shown       \* history: the answers it has printed

atServer == <<server, watched, rearming, receiving, answering>>
queues == <<requests, unnoticed>>
answers == <<inbox, armed, alarm, shown>>
threads == <<client, reader, named>>

Request == [no : 1..Typed, zero : BOOLEAN]
Ended == {"done", "failed"}
Frames == {"no", "reader", "handler"}

TypeOK ==
  /\ server \in {"setup", "run", "done", "failed"}
  /\ \A o \in Ops : requests[o] \in Seq(Request)
  /\ watched \in [Ops -> BOOLEAN]
  /\ rearming \in [Ops -> Nat] /\ receiving \in [Ops -> Nat] /\ unnoticed \in [Ops -> Nat]
  /\ \A a \in answering : a[1] \in Ops /\ a[2] \in Request
  /\ client \in [Clients -> {"spin", "receive", "blocked", "notify"} \cup Ended]
  /\ sender \in Seq(Clients) /\ Len(sender) <= Typed
  /\ reader \in [Clients -> {"notify", "call", "blocked", "over"}]
  /\ \A c \in Clients : inbox[c] \in Seq(1..Typed) /\ shown[c] \in Seq(1..Typed)
  /\ named \in [Clients -> BOOLEAN] /\ armed \in [Clients -> Frames] /\ alarm \in [Clients -> Frames]

Init ==
  /\ server = "setup"
  /\ requests = [o \in Ops |-> <<>>] /\ watched = [o \in Ops |-> FALSE]
  /\ rearming = [o \in Ops |-> 0] /\ receiving = [o \in Ops |-> 0]
  /\ answering = {} /\ unnoticed = [o \in Ops |-> 0]
  /\ client = [c \in Clients |-> "spin"] /\ sender = <<>>
  /\ reader = [c \in Clients |-> "notify"]
  /\ inbox = [c \in Clients |-> <<>>] /\ named = [c \in Clients |-> TRUE]
  /\ armed = [c \in Clients |-> "no"] /\ alarm = [c \in Clients |-> "no"]
  /\ shown = [c \in Clients |-> <<>>]

-----------------------------------------------------------------------------
(* The server *)

\* mq_notify for a queue; the loop of main spins when all three have it.
Watch(o) ==
  /\ server = "setup" /\ ~watched[o]
  /\ watched' = [watched EXCEPT ![o] = TRUE]
  /\ server' = IF \A p \in Ops \ {o} : watched[p] THEN "run" ELSE "setup"
  /\ UNCHANGED <<queues, rearming, receiving, answering, threads, sender, answers>>

Up == server \in {"setup", "run"}

\* SIGINT: main closes and unlinks the queues and returns.  The names of the queues remain
\* when it comes before its handler is set, or when a thread finds its queue closed and exits
\* before they are unlinked.
Interrupt ==
  /\ Up /\ server' \in {"failed"} \cup (IF server = "run" THEN {"done"} ELSE {})
  /\ UNCHANGED <<queues, watched, rearming, receiving, answering, threads, sender, answers>>

\* A notification thread registers again, or exits with all others when the process
\* is registered already, ...
Restore(o) ==
  /\ Up /\ rearming[o] > 0
  /\ rearming' = [rearming EXCEPT ![o] = @ - 1]
  /\ receiving' = [receiving EXCEPT ![o] = @ + 1]
  /\ watched' = [watched EXCEPT ![o] = TRUE]
  /\ server' = IF watched[o] THEN "failed" ELSE server
  /\ UNCHANGED <<queues, answering, threads, sender, answers>>

\* ... receives one message, waiting for it if need be, ...
Receive(o) ==
  /\ Up /\ receiving[o] > 0 /\ requests[o] # <<>>
  /\ receiving' = [receiving EXCEPT ![o] = @ - 1]
  /\ answering' = answering \cup {<<o, Head(requests[o])>>}
  /\ requests' = [requests EXCEPT ![o] = Tail(@)]
  /\ UNCHANGED <<server, watched, rearming, unnoticed, threads, sender, answers>>

\* The queue of a client: a reader that waits gets the message; else it stays there,
\* and the first one raises the signal.
Deliver(c, n) ==
  \/ /\ reader[c] = "blocked" /\ shown' = [shown EXCEPT ![c] = Append(@, n)]
     /\ reader' = [reader EXCEPT ![c] = "call"]
     /\ UNCHANGED <<client, inbox, armed, alarm>>
  \/ /\ client[c] = "blocked" /\ shown' = [shown EXCEPT ![c] = Append(@, n)]
     /\ client' = [client EXCEPT ![c] = "notify"]
     /\ UNCHANGED <<reader, inbox, armed, alarm>>
  \/ /\ reader[c] # "blocked" /\ client[c] # "blocked"
     /\ inbox' = [inbox EXCEPT ![c] = Append(@, n)]
     /\ IF inbox[c] = <<>> /\ armed[c] # "no"
        THEN armed' = [armed EXCEPT ![c] = "no"] /\ alarm' = [alarm EXCEPT ![c] = armed[c]]
        ELSE UNCHANGED <<armed, alarm>>
     /\ UNCHANGED <<client, reader, shown>>

\* ... and answers.  A division by zero, or a client that has unlinked its queue, is
\* the end of the server; the names of its queues remain then.
Answer(a) ==
  /\ Up /\ a \in answering /\ answering' = answering \ {a}
  /\ LET c == sender[a[2].no]
     IN  IF (a[2].zero /\ a[1] # "s") \/ ~named[c]
         THEN server' = "failed" /\ UNCHANGED <<answers, client, reader>>
         ELSE Deliver(c, a[2].no) /\ UNCHANGED server
  /\ UNCHANGED <<queues, watched, rearming, receiving, named, sender>>

Service == \E o \in Ops : Watch(o) \/ Restore(o) \/ Receive(o)
Reply == \E a \in answering : Answer(a)

-----------------------------------------------------------------------------
(* A client *)

Runs(c) == client[c] \notin Ended
ClientGoes(c, from, to) == client[c] = from /\ client' = [client EXCEPT ![c] = to]
ReaderGoes(c, from, to) == Runs(c) /\ reader[c] = from /\ reader' = [reader EXCEPT ![c] = to]

\* write_to_queue: the user's choice of a queue and of the numbers.  mq_open fails
\* when the server has unlinked its queues, and so does mq_send.
Send(c) ==
  /\ Runs(c) /\ reader[c] # "over" /\ Len(sender) < Typed
  /\ sender' = Append(sender, c)
  /\ \E o \in Ops : \E zero \in IF o = "s" THEN {FALSE} ELSE BOOLEAN :
       IF server = "done" THEN UNCHANGED <<requests, unnoticed, watched, rearming>>
       ELSE LET notice == requests[o] = <<>> /\ watched[o] /\ Up
            IN  /\ requests' = [requests EXCEPT ![o] = Append(@, [no |-> Len(sender'), zero |-> zero])]
                /\ watched' = [watched EXCEPT ![o] = @ /\ ~notice]
                /\ rearming' = [rearming EXCEPT ![o] = IF notice THEN @ + 1 ELSE @]
                /\ unnoticed' = [unnoticed EXCEPT ![o] = IF notice THEN @ ELSE @ + 1]
  /\ UNCHANGED <<server, receiving, answering, threads, answers>>

\* read_from_queue: mq_notify, then mq_timedreceive until the five seconds are over.
Arm(c) ==
  /\ ReaderGoes(c, "notify", "call")
  /\ armed' = [armed EXCEPT ![c] = "reader"]
  /\ UNCHANGED <<atServer, queues, client, named, sender, inbox, alarm, shown>>

Take(c) ==
  /\ ReaderGoes(c, "call", "call") /\ inbox[c] # <<>>
  /\ shown' = [shown EXCEPT ![c] = Append(@, Head(inbox[c]))]
  /\ inbox' = [inbox EXCEPT ![c] = Tail(@)]
  /\ UNCHANGED <<atServer, queues, client, named, sender, armed, alarm>>

Block(c) ==
  /\ ReaderGoes(c, "call", "blocked") /\ inbox[c] = <<>>
  /\ UNCHANGED <<atServer, queues, client, named, sender, answers>>

\* ETIMEDOUT: the queue is closed, and the registration gone.
TimeOut(c) ==
  /\ ReaderGoes(c, "blocked", "over")
  /\ armed' = [armed EXCEPT ![c] = "no"]
  /\ UNCHANGED <<atServer, queues, client, named, sender, inbox, alarm, shown>>

Reader(c) == Arm(c) \/ Take(c) \/ Block(c) \/ TimeOut(c)

\* notification_function runs in the main thread.  The pointer that an earlier run of
\* it has left leads into a frame that is no more: to the queue, or to no queue.
Notified(c) ==
  /\ alarm[c] # "no" /\ alarm' = [alarm EXCEPT ![c] = "no"]
  /\ \/ ClientGoes(c, "spin", "receive")
     \/ alarm[c] = "handler" /\ ClientGoes(c, "spin", "failed")
  /\ UNCHANGED <<atServer, queues, reader, named, sender, inbox, armed, shown>>

\* It waits for a message, from a queue that may be closed by now: exit(1).
HandlerTake(c) ==
  /\ \/ reader[c] = "over" /\ ClientGoes(c, "receive", "failed") /\ UNCHANGED <<inbox, shown>>
     \/ reader[c] # "over" /\ inbox[c] = <<>> /\ ClientGoes(c, "receive", "blocked") /\ UNCHANGED <<inbox, shown>>
     \/ /\ reader[c] # "over" /\ inbox[c] # <<>> /\ ClientGoes(c, "receive", "notify")
        /\ shown' = [shown EXCEPT ![c] = Append(@, Head(inbox[c]))]
        /\ inbox' = [inbox EXCEPT ![c] = Tail(@)]
  /\ UNCHANGED <<atServer, queues, reader, named, sender, armed, alarm>>

\* mq_notify with a pointer to a variable of the handler
Rearm(c) ==
  /\ ClientGoes(c, "notify", IF reader[c] = "over" THEN "failed" ELSE "spin")
  /\ armed' = [armed EXCEPT ![c] = IF reader[c] = "over" THEN @ ELSE "handler"]
  /\ UNCHANGED <<atServer, queues, reader, named, sender, inbox, alarm, shown>>

\* timed_out: main cancels and joins the threads, and unlinks the queue.
Quit(c) ==
  /\ reader[c] = "over" /\ ClientGoes(c, "spin", "done")
  /\ named' = [named EXCEPT ![c] = FALSE]
  /\ UNCHANGED <<atServer, queues, reader, sender, answers>>

ClientMain(c) == Notified(c) \/ HandlerTake(c) \/ Rearm(c) \/ Quit(c)

Next == Service \/ Reply \/ Interrupt \/ \E c \in Clients : Send(c) \/ Reader(c) \/ ClientMain(c)

-----------------------------------------------------------------------------
(* Properties *)

\* As long as the server runs each notification takes one message out: a thread in
\* mq_receive never waits (server.c:53), and the messages that came without a
\* notification, to a queue that was not empty or not watched yet, are as many as are
\* left in the queue for ever.
OneForEachNotice ==
  Up => \A o \in Ops : Len(requests[o]) = rearming[o] + receiving[o] + unnoticed[o]

\* Whether the reading thread or the handler takes it (client.c:60, 152), an answer is
\* printed once, for a request the client has sent.
ShownOnce ==
  \A c \in Clients : \A j, k \in 1..Len(shown[c]) :
    /\ sender[shown[c][j]] = c
    /\ shown[c][j] = shown[c][k] => j = k

\* A client whose handler waits for the message that its reading thread took.
WaitsInHandler(c) == client[c] = "blocked" /\ inbox[c] = <<>>

\* Every client ends in its five seconds but for such a handler (client.c:60, 196-208).
ClientsQuit == \A c \in Clients : client[c] \in Ended \/ WaitsInHandler(c)
=============================================================================
