----------------------------- MODULE Throwers ------------------------------
(***************************************************************************)
(* Lab - 3/prog18.c: threads take balls that wait, throw each into a bin   *)
(* and count it as thrown; main polls the count and then adds up the bins, *)
(* without their mutexes.                                                  *)
(***************************************************************************)
EXTENDS Integers

CONSTANTS Threads,   \* the throwers
          Balls,     \* ballsCount
          Bins       \* BIN_COUNT

VARIABLES ballsWaiting, ballsThrown, bins,
          mxBallsWaiting, mxBallsThrown, mxBins,   \* who holds each, or "free"
          thrower,                                 \* where each thread is
          binno,
          reg,                                     \* what it has loaded of a count
          poll,                                    \* where main is
          bt,
          summed,                                  \* i of main's loop
          realBallsCount

counts == <<ballsWaiting, ballsThrown, bins>>
mutexes == <<mxBallsWaiting, mxBallsThrown, mxBins>>
locals == <<thrower, binno, reg>>
mainVars == <<poll, bt, summed, realBallsCount>>
throwVars == <<counts, mutexes, locals, mainVars>>

BinNumbers == 0..Bins - 1
Holders == {"free", "main"} \cup Threads

TypeOK ==
  /\ ballsWaiting \in 0..Balls /\ ballsThrown \in 0..Balls
  /\ bins \in [BinNumbers -> 0..Balls]
  /\ mxBallsWaiting \in Holders /\ mxBallsThrown \in Holders /\ mxBins \in [BinNumbers -> Holders]
  /\ thrower \in [Threads -> {"take", "test", "throw", "load", "store", "count", "add", "thrown", "done"}]
  /\ binno \in [Threads -> BinNumbers] /\ reg \in [Threads -> 0..Balls]
  /\ poll \in {"poll", "read", "sum", "done"}
  /\ bt \in 0..Balls /\ summed \in 0..Bins /\ realBallsCount \in Nat

Init ==
  /\ ballsWaiting = Balls /\ ballsThrown = 0 /\ bins = [k \in BinNumbers |-> 0]
  /\ mxBallsWaiting = "free" /\ mxBallsThrown = "free" /\ mxBins = [k \in BinNumbers |-> "free"]
  /\ thrower = [t \in Threads |-> "take"]
  /\ binno = [t \in Threads |-> 0] /\ reg = [t \in Threads |-> 0]
  /\ poll = "poll" /\ bt = 0 /\ summed = 0 /\ realBallsCount = 0

-----------------------------------------------------------------------------
(* The throwers *)

Goes(t, from, to) == thrower[t] = from /\ thrower' = [thrower EXCEPT ![t] = to] /\ UNCHANGED mainVars

LockWaiting(t) ==
  /\ Goes(t, "take", "test")
  /\ mxBallsWaiting = "free" /\ mxBallsWaiting' = t
  /\ UNCHANGED <<counts, mxBallsThrown, mxBins, binno, reg>>

\* The mutex is given back either way.
Take(t) ==
  /\ IF ballsWaiting > 0 THEN Goes(t, "test", "throw") /\ ballsWaiting' = ballsWaiting - 1
     ELSE Goes(t, "test", "done") /\ UNCHANGED ballsWaiting
  /\ mxBallsWaiting' = "free"
  /\ UNCHANGED <<ballsThrown, bins, mxBallsThrown, mxBins, binno, reg>>

\* throwBall, and the mutex of the bin.
LockBin(t) ==
  /\ Goes(t, "throw", "load")
  /\ \E k \in BinNumbers :
       /\ binno' = [binno EXCEPT ![t] = k]
       /\ mxBins[k] = "free" /\ mxBins' = [mxBins EXCEPT ![k] = t]
  /\ UNCHANGED <<counts, mxBallsWaiting, mxBallsThrown, reg>>

LoadBin(t) ==
  /\ Goes(t, "load", "store") /\ reg' = [reg EXCEPT ![t] = bins[binno[t]]]
  /\ UNCHANGED <<counts, mutexes, binno>>

StoreBin(t) ==
  /\ Goes(t, "store", "count")
  /\ bins' = [bins EXCEPT ![binno[t]] = reg[t] + 1]
  /\ mxBins' = [mxBins EXCEPT ![binno[t]] = "free"]
  /\ UNCHANGED <<ballsWaiting, ballsThrown, mxBallsWaiting, mxBallsThrown, binno, reg>>

LockThrown(t) ==
  /\ Goes(t, "count", "add")
  /\ mxBallsThrown = "free" /\ mxBallsThrown' = t
  /\ UNCHANGED <<counts, mxBallsWaiting, mxBins, binno, reg>>

LoadThrown(t) ==
  /\ Goes(t, "add", "thrown") /\ reg' = [reg EXCEPT ![t] = ballsThrown]
  /\ UNCHANGED <<counts, mutexes, binno>>

StoreThrown(t) ==
  /\ Goes(t, "thrown", "take")
  /\ ballsThrown' = reg[t] + 1 /\ mxBallsThrown' = "free"
  /\ UNCHANGED <<ballsWaiting, bins, mxBallsWaiting, mxBins, binno, reg>>

Thrower(t) ==
  \/ LockWaiting(t) \/ Take(t) \/ LockBin(t) \/ LoadBin(t) \/ StoreBin(t)
  \/ LockThrown(t) \/ LoadThrown(t) \/ StoreThrown(t)

-----------------------------------------------------------------------------
(* The main thread *)

LockPoll ==
  /\ poll = "poll" /\ poll' = "read"
  /\ mxBallsThrown = "free" /\ mxBallsThrown' = "main"
  /\ UNCHANGED <<counts, mxBallsWaiting, mxBins, locals, bt, summed, realBallsCount>>

Poll ==
  /\ poll = "read" /\ bt' = ballsThrown
  /\ poll' = IF bt' < Balls THEN "poll" ELSE "sum"
  /\ mxBallsThrown' = "free"
  /\ UNCHANGED <<counts, mxBallsWaiting, mxBins, locals, summed, realBallsCount>>

Sum ==
  /\ poll = "sum" /\ poll' = IF summed + 1 < Bins THEN "sum" ELSE "done"
  /\ realBallsCount' = realBallsCount + bins[summed] /\ summed' = summed + 1
  /\ UNCHANGED <<counts, mutexes, locals, bt>>

Main == LockPoll \/ Poll \/ Sum

-----------------------------------------------------------------------------
Next == Main \/ \E t \in Threads : Thrower(t)

Spec == Init /\ [][Next]_throwVars

\* Every thread runs until it blocks, and a thrower gets mxBallsThrown in the end:
\* main sleeps for a second between two polls.
FairSpec ==
  /\ Spec /\ WF_throwVars(Main)
  /\ \A t \in Threads : WF_throwVars(Thrower(t)) /\ SF_throwVars(LockThrown(t))

-----------------------------------------------------------------------------
(* Properties *)

\* main reads the bins without their mutexes, and yet finds every ball: one that is
\* counted as thrown is in its bin, and no thread is still at one
\* (prog18.c:95-108, 196-212).
TotalIsExact == poll = "done" => realBallsCount = Balls

\* main finds all balls thrown.
MainEnds == <>(poll = "done")
=============================================================================
