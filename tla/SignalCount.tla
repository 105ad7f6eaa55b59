----------------------------- MODULE SignalCount -----------------------------
(***************************************************************************)
(* Lab - 2/Example Task Lab 2/Task.c: children send SIGUSR1 to the parent  *)
(* again and again, which counts those that do not merge and at 100 ends   *)
(* all by SIGUSR2.  The parent blocks the signals only when it has made    *)
(* its children.                                                           *)
(***************************************************************************)
EXTENDS Naturals

CONSTANTS Senders,   \* the children, 1..Senders
          Limit      \* the signals that end it, 100 in the code

VARIABLES counting, forked, \* where the parent is, the children it has made
          sigCount, usr1,   \* the signals counted, and whether one is pending
          sender, usr2      \* where each child is, the children with SIGUSR2 pending

Family == 1..Senders
KidEnds == {"none", "ended", "killed"}

TypeOK ==
  /\ counting \in {"fork", "block", "wait", "reap", "ended", "killed"} /\ forked \in 0..Senders
  /\ sigCount \in 0..Limit /\ usr1 \in BOOLEAN
  /\ sender \in [Family -> {"block", "send"} \cup KidEnds] /\ usr2 \subseteq Family

Init ==
  /\ counting = "fork" /\ forked = 0 /\ sigCount = 0 /\ usr1 = FALSE
  /\ sender = [k \in Family |-> "none"] /\ usr2 = {}

-----------------------------------------------------------------------------
Fork ==
  /\ counting = "fork" /\ forked' = forked + 1 /\ sender' = [sender EXCEPT ![forked'] = "block"]
  /\ counting' = IF forked' = Senders THEN "block" ELSE "fork"
  /\ UNCHANGED <<sigCount, usr1, usr2>>

BlockSignals == counting = "block" /\ counting' = "wait" /\ UNCHANGED <<forked, sigCount, usr1, sender, usr2>>

\* sigwait; the hundredth goes on to kill(0, SIGUSR2), which ends a child that does not
\* block it yet.
Sigwait ==
  /\ counting = "wait" /\ usr1 /\ usr1' = FALSE /\ sigCount' = sigCount + 1
  /\ IF sigCount' = Limit
     THEN /\ counting' = "reap" /\ usr2' = {k \in Family : sender[k] = "send"}
          /\ sender' = [k \in Family |-> IF sender[k] = "block" THEN "killed" ELSE sender[k]]
     ELSE UNCHANGED <<counting, sender, usr2>>
  /\ UNCHANGED forked

Reap ==
  /\ counting = "reap" /\ (\A k \in Family : sender[k] \in KidEnds) /\ counting' = "ended"
  /\ UNCHANGED <<forked, sigCount, usr1, sender, usr2>>

ParentStep == Fork \/ BlockSignals \/ Sigwait \/ Reap

-----------------------------------------------------------------------------
Block(k) ==
  /\ sender[k] = "block" /\ sender' = [sender EXCEPT ![k] = "send"]
  /\ UNCHANGED <<counting, forked, sigCount, usr1, usr2>>

\* Its SIGUSR2 is pending; or it sends a SIGUSR1, which kills a parent that does not block
\* it; or there is no parent it may signal, and ERR kills all.
Send(k) ==
  /\ sender[k] = "send"
  /\ \/ k \in usr2 /\ sender' = [sender EXCEPT ![k] = "ended"] /\ UNCHANGED <<counting, usr1>>
     \/ /\ k \notin usr2 /\ counting \notin {"killed", "ended"} /\ usr1' = TRUE
        /\ counting' = (IF counting \in {"fork", "block"} THEN "killed" ELSE counting) /\ UNCHANGED sender
     \/ /\ k \notin usr2 /\ counting \in {"killed", "ended"}
        /\ sender' = [c \in Family |-> IF sender[c] \in KidEnds THEN sender[c] ELSE "killed"]
        /\ UNCHANGED <<counting, usr1>>
  /\ UNCHANGED <<forked, sigCount, usr2>>

KidStep(k) == Block(k) \/ Send(k)

Next == ParentStep \/ \E k \in Family : KidStep(k)

-----------------------------------------------------------------------------
(* Properties *)

\* Children end by SIGUSR2 after the hundredth signal or with a parent that was killed, and
\* the parent ends after them (Task.c:51-58, 104-121).
EndsInOrder ==
  /\ counting = "ended" => \A k \in Family : sender[k] \in KidEnds
  /\ \A k \in Family : sender[k] = "ended" \/ (sender[k] = "killed" /\ counting # "killed") => sigCount = Limit

\* Although signals merge (Task.c:94), there will be enough of them.
SendersEnd == counting \in {"ended", "killed"} /\ \A k \in Family : sender[k] \in KidEnds
=============================================================================
