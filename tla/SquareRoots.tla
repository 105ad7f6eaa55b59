---------------------------- MODULE SquareRoots ----------------------------
(***************************************************************************)
(* Lab - 3/example.c: threads draw a cell, look from there for one that is *)
(* not calculated, and calculate it, each cell under its own mutex.  The   *)
(* step of the search grows: from the cell drawn it visits those at the    *)
(* distances 0, 1, 3, 6, ... and ends when it has made as many steps as    *)
(* there are cells.                                                        *)
(***************************************************************************)
EXTENDS Integers

CONSTANTS Threads,       \* the children
          SizeofArray

TaskCells == 0..SizeofArray - 1

VARIABLES calculatedCells,
          cellMutexes,       \* who holds each, or "free"
          stores,            \* history: how often each cell of resultArray is stored
          rooter,            \* where each thread is
          index, step        \* index and i of each thread

rootVars == <<calculatedCells, cellMutexes, stores, rooter, index, step>>

TypeOK ==
  /\ calculatedCells \in [TaskCells -> {0, -1}]
  /\ cellMutexes \in [TaskCells -> {"free"} \cup Threads]
  /\ stores \in [TaskCells -> Nat]
  /\ rooter \in [Threads -> {"draw", "lock", "probe", "claim", "store", "done"}]
  /\ index \in [Threads -> TaskCells]
  /\ step \in [Threads -> 0..SizeofArray]

Init ==
  /\ calculatedCells = [c \in TaskCells |-> 0]
  /\ cellMutexes = [c \in TaskCells |-> "free"]
  /\ stores = [c \in TaskCells |-> 0]
  /\ rooter = [t \in Threads |-> "draw"]
  /\ index = [t \in Threads |-> 0] /\ step = [t \in Threads |-> 0]

-----------------------------------------------------------------------------
Goes(t, from, to) == rooter[t] = from /\ rooter' = [rooter EXCEPT ![t] = to]

Draw(t) ==
  /\ Goes(t, "draw", "lock")
  /\ \E c \in TaskCells : index' = [index EXCEPT ![t] = c]
  /\ step' = [step EXCEPT ![t] = 0]
  /\ UNCHANGED <<calculatedCells, cellMutexes, stores>>

Lock(t) ==
  /\ Goes(t, "lock", "probe")
  /\ cellMutexes[index[t]] = "free" /\ cellMutexes' = [cellMutexes EXCEPT ![index[t]] = t]
  /\ UNCHANGED <<calculatedCells, stores, index, step>>

Unlock(t) == cellMutexes' = [cellMutexes EXCEPT ![index[t]] = "free"]

Found(t) ==
  /\ step[t] < SizeofArray /\ calculatedCells[index[t]] = 0
  /\ Goes(t, "probe", "claim")
  /\ UNCHANGED <<calculatedCells, cellMutexes, stores, index, step>>

\* One mutex is given back before the next one is taken.
Search(t) ==
  /\ step[t] < SizeofArray /\ calculatedCells[index[t]] # 0
  /\ Goes(t, "probe", "lock") /\ Unlock(t)
  /\ index' = [index EXCEPT ![t] = (@ + step[t]) % SizeofArray]
  /\ step' = [step EXCEPT ![t] = @ + 1]
  /\ UNCHANGED <<calculatedCells, stores>>

\* "All cells are calculated"
GiveUp(t) ==
  /\ step[t] = SizeofArray
  /\ Goes(t, "probe", "done") /\ Unlock(t)
  /\ UNCHANGED <<calculatedCells, stores, index, step>>

Claim(t) ==
  /\ Goes(t, "claim", "store")
  /\ calculatedCells' = [calculatedCells EXCEPT ![index[t]] = -1]
  /\ UNCHANGED <<cellMutexes, stores, index, step>>

Store(t) ==
  /\ Goes(t, "store", "draw") /\ Unlock(t)
  /\ stores' = [stores EXCEPT ![index[t]] = @ + 1]
  /\ UNCHANGED <<calculatedCells, index, step>>

Rooter(t) == Draw(t) \/ Lock(t) \/ Found(t) \/ Search(t) \/ GiveUp(t) \/ Claim(t) \/ Store(t)

-----------------------------------------------------------------------------
Next == \E t \in Threads : Rooter(t)

Spec == Init /\ [][Next]_rootVars

\* Every thread runs until it blocks.
FairSpec == Spec /\ \A t \in Threads : WF_rootVars(Rooter(t))

-----------------------------------------------------------------------------
(* Properties *)

\* Each root is stored at most once, whoever finds its cell, and only under its
\* mutex (example.c:50-73).
StoredOnce ==
  /\ \A c \in TaskCells : stores[c] <= 1 /\ (stores[c] = 1 => calculatedCells[c] = -1)
  /\ \A t \in Threads : rooter[t] \in {"claim", "store"} => cellMutexes[index[t]] = t /\ stores[index[t]] = 0

\* "All cells are calculated" (example.c:65), at least when every thread has said so
\* and main prints the results.
AllCalculated == (\A t \in Threads : rooter[t] = "done") => \A c \in TaskCells : calculatedCells[c] = -1

\* main joins all threads.
AllJoined == <>[](\A t \in Threads : rooter[t] = "done")
=============================================================================
