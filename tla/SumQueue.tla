------------------------------ MODULE SumQueue ------------------------------
(***************************************************************************)
(* Lab - 6/Example Task/task.c: a server and its child use one queue for   *)
(* the request and for the answer.  Each registers for SIGUSR1, which only *)
(* one process can do at a time, and each handler receives one message.    *)
(***************************************************************************)
EXTENDS Sequences

VARIABLES summer,   \* where the server is
          asker,    \* where its child is
          shared,   \* the messages in the queue: "request", "sum"
          owner,    \* the process registered for it, or "none"
          usr1Sum, usr1Ask,  \* SIGUSR1 is pending in the server, in the child
          got       \* history: what the handler of the child has printed

signals == <<usr1Sum, usr1Ask>>

TypeOK ==
  /\ summer \in {"notify", "spin", "receive", "send", "failed"}
  /\ asker \in {"send", "notify", "spin", "receive", "failed"}
  /\ shared \in Seq({"request", "sum"}) /\ owner \in {"none", "server", "child"}
  /\ usr1Sum \in BOOLEAN /\ usr1Ask \in BOOLEAN /\ got \in Seq({"request", "sum"})

Init ==
  /\ summer = "notify" /\ asker = "send" /\ shared = <<>> /\ owner = "none"
  /\ usr1Sum = FALSE /\ usr1Ask = FALSE /\ got = <<>>

\* mq_send: the owner of the registration is told of the first message.
Send(m) ==
  /\ shared' = Append(shared, m)
  /\ IF shared = <<>>
     THEN /\ owner' = "none"
          /\ usr1Sum' = (usr1Sum \/ owner = "server") /\ usr1Ask' = (usr1Ask \/ owner = "child")
     ELSE UNCHANGED <<owner, signals>>

\* mq_notify fails, and ends the process, while somebody is registered.
SumNotify ==
  /\ summer = "notify"
  /\ summer' = IF owner = "none" THEN "spin" ELSE "failed"
  /\ owner' = IF owner = "none" THEN "server" ELSE owner
  /\ UNCHANGED <<asker, shared, signals, got>>

\* sumHandler
SumReceive ==
  /\ \/ summer = "spin" /\ usr1Sum /\ summer' = "receive" /\ usr1Sum' = FALSE /\ UNCHANGED shared
     \/ /\ summer = "receive" /\ shared # <<>> /\ summer' = "send"
        /\ shared' = Tail(shared) /\ UNCHANGED usr1Sum
  /\ UNCHANGED <<asker, owner, usr1Ask, got>>

SumSend ==
  /\ summer = "send" /\ summer' = "spin" /\ Send("sum")
  /\ UNCHANGED <<asker, got>>

\* ClientWork
AskSend ==
  /\ asker = "send" /\ asker' = "notify" /\ Send("request")
  /\ UNCHANGED <<summer, got>>

AskNotify ==
  /\ asker = "notify"
  /\ asker' = IF owner = "none" THEN "spin" ELSE "failed"
  /\ owner' = IF owner = "none" THEN "child" ELSE owner
  /\ UNCHANGED <<summer, shared, signals, got>>

AskReceive ==
  /\ \/ asker = "spin" /\ usr1Ask /\ asker' = "receive" /\ usr1Ask' = FALSE /\ UNCHANGED <<shared, got>>
     \/ /\ asker = "receive" /\ shared # <<>> /\ asker' = "spin"
        /\ got' = Append(got, Head(shared)) /\ shared' = Tail(shared) /\ UNCHANGED usr1Ask
  /\ UNCHANGED <<summer, owner, usr1Sum>>

SumStep == SumNotify \/ SumReceive \/ SumSend
AskStep == AskNotify \/ AskReceive
Next == SumStep \/ AskSend \/ AskStep

-----------------------------------------------------------------------------
(* Properties *)

\* The child prints the sum at most once and never its own request, although both
\* travel in one queue (task.c:52-73, 130-144).
OnlySums == got \in {<<>>, <<"sum">>}

\* In the end the sum is printed, or one of the two failed in mq_notify, or the
\* request has not been typed, or the child registered after the sum was in the queue.
SumArrived ==
  \/ got = <<"sum">> \/ asker = "send" \/ "failed" \in {summer, asker}
  \/ owner = "child" /\ shared = <<"sum">>
=============================================================================
