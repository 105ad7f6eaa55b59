----------------------------- MODULE SwapArray -----------------------------
(***************************************************************************)
(* Lab - 3/sop-ca.c: an array with a mutex for each cell.  On SIGUSR1 the  *)
(* main thread reverses a part of it, two cells at a time; on SIGUSR2 it   *)
(* starts a thread that locks all cells and prints them.                   *)
(*                                                                         *)
(* An operator named Faulty... is the definition that follows it with a    *)
(* plausible mistake in it; no specification uses one.                     *)
(***************************************************************************)
EXTENDS Integers

CONSTANTS N,          \* n, the cells of the array
          Printers,   \* the printing threads there are at a time
          Signals     \* bound: the signals that come

Cells == 0..N - 1

VARIABLES main,               \* where the main thread is
          a, b, temp,
          array,
          mutexes,            \* the thread that holds each, or "free"
          usr1, usr2,         \* pending signals
          SigUsr1Received, SigUsr2Received,
          printer,            \* where each printing thread is
          cell,               \* i of its loops
          printed,            \* what it has printed of each cell, -1 before
          sent                \* signals so far

request == <<usr1, usr2, SigUsr1Received, SigUsr2Received, sent>>
printing == <<printer, cell, printed>>
swapVars == <<main, a, b, temp, array, mutexes, request, printing>>

TypeOK ==
  /\ main \in {"suspend", "test", "first", "second", "swap", "store", "unlock", "next"}
  /\ a \in Cells /\ b \in Cells /\ temp \in Cells
  /\ array \in [Cells -> Cells]
  /\ mutexes \in [Cells -> {"free", "main"} \cup Printers]
  /\ usr1 \in BOOLEAN /\ usr2 \in BOOLEAN
  /\ SigUsr1Received \in BOOLEAN /\ SigUsr2Received \in BOOLEAN
  /\ printer \in [Printers -> {"none", "lock", "print", "unlock"}]
  /\ cell \in [Printers -> Cells]
  /\ printed \in [Printers -> [Cells -> Cells \cup {-1}]]
  /\ sent \in 0..Signals

\* A signal between sethandler and pthread_sigmask has set its flag.
Init ==
  /\ main = "suspend" /\ a = 0 /\ b = 0 /\ temp = 0
  /\ array = [k \in Cells |-> k]
  /\ mutexes = [k \in Cells |-> "free"]
  /\ usr1 = FALSE /\ usr2 = FALSE
  /\ SigUsr1Received \in BOOLEAN /\ SigUsr2Received \in BOOLEAN
  /\ printer = [p \in Printers |-> "none"]
  /\ cell = [p \in Printers |-> 0]
  /\ printed = [p \in Printers |-> [k \in Cells |-> -1]]
  /\ sent = 0

-----------------------------------------------------------------------------
(* Signals: main blocks both, and the threads it creates inherit that *)

Signal ==
  /\ sent < Signals /\ sent' = sent + 1
  /\ \/ usr1' = TRUE /\ UNCHANGED usr2
     \/ usr2' = TRUE /\ UNCHANGED usr1
  /\ UNCHANGED <<main, a, b, temp, array, mutexes, SigUsr1Received, SigUsr2Received, printing>>

\* sigsuspend returns when the handlers of all that is pending have.
Wake ==
  /\ main = "suspend" /\ (usr1 \/ usr2)
  /\ main' = "test"
  /\ SigUsr1Received' = (SigUsr1Received \/ usr1) /\ usr1' = FALSE
  /\ SigUsr2Received' = (SigUsr2Received \/ usr2) /\ usr2' = FALSE
  /\ UNCHANGED <<a, b, temp, array, mutexes, sent, printing>>

-----------------------------------------------------------------------------
(* The main thread *)

Goes(from, to) == main = from /\ main' = to /\ UNCHANGED <<usr1, usr2, sent>>

\* SIGUSR1 goes first; the flag of SIGUSR2 then waits for the next signal.
Reverse ==
  /\ SigUsr1Received /\ Goes("test", "first")
  /\ a' \in 0..N - 2 /\ b' \in a'..N - 1
  /\ UNCHANGED <<temp, array, mutexes, SigUsr1Received, SigUsr2Received, printing>>

\* A thread that has ended makes room for another one.
StartPrinting ==
  /\ ~SigUsr1Received /\ SigUsr2Received /\ Goes("test", "suspend")
  /\ \E p \in Printers :
       /\ printer[p] = "none" /\ printer' = [printer EXCEPT ![p] = "lock"]
       /\ cell' = [cell EXCEPT ![p] = 0]
       /\ printed' = [printed EXCEPT ![p] = [k \in Cells |-> -1]]
  /\ SigUsr2Received' = FALSE
  /\ UNCHANGED <<a, b, temp, array, mutexes, SigUsr1Received>>

LockFirst ==
  /\ Goes("first", "second")
  /\ mutexes[a] = "free" /\ mutexes' = [mutexes EXCEPT ![a] = "main"]
  /\ UNCHANGED <<a, b, temp, array, SigUsr1Received, SigUsr2Received, printing>>

\* A thread that locks its mutex again sleeps for ever: so does main if a = b.
LockSecond ==
  /\ Goes("second", "swap")
  /\ mutexes[b] = "free" /\ mutexes' = [mutexes EXCEPT ![b] = "main"]
  /\ UNCHANGED <<a, b, temp, array, SigUsr1Received, SigUsr2Received, printing>>

Swap ==
  /\ Goes("swap", "store")
  /\ temp' = array[a] /\ array' = [array EXCEPT ![a] = array[b]]
  /\ UNCHANGED <<a, b, mutexes, SigUsr1Received, SigUsr2Received, printing>>

Store ==
  /\ Goes("store", "unlock")
  /\ array' = [array EXCEPT ![b] = temp]
  /\ UNCHANGED <<a, b, temp, mutexes, SigUsr1Received, SigUsr2Received, printing>>

UnlockSecond ==
  /\ Goes("unlock", "next")
  /\ mutexes' = [mutexes EXCEPT ![b] = "free"]
  /\ UNCHANGED <<a, b, temp, array, SigUsr1Received, SigUsr2Received, printing>>

UnlockFirst ==
  /\ mutexes' = [mutexes EXCEPT ![a] = "free"]
  /\ a' = a + 1 /\ b' = b - 1
  /\ IF a' >= b' THEN Goes("next", "suspend") /\ SigUsr1Received' = FALSE
     ELSE Goes("next", "first") /\ UNCHANGED SigUsr1Received
  /\ UNCHANGED <<temp, array, SigUsr2Received, printing>>

MainStep ==
  Wake \/ Reverse \/ StartPrinting \/ LockFirst \/ LockSecond \/ Swap \/ Store \/ UnlockSecond \/ UnlockFirst

-----------------------------------------------------------------------------
(* The printing threads *)

PrinterGoes(p, from, to, next) ==
  /\ printer[p] = from /\ printer' = [printer EXCEPT ![p] = to]
  /\ cell' = [cell EXCEPT ![p] = next]
  /\ UNCHANGED <<main, a, b, temp, array, request>>

Last(p) == cell[p] = N - 1

FaultyLockCell(p) ==
  /\ IF Last(p) THEN PrinterGoes(p, "lock", "print", 0) ELSE PrinterGoes(p, "lock", "lock", cell[p] + 1)
  /\ mutexes' = [mutexes EXCEPT ![cell[p]] = p]
  /\ UNCHANGED printed

LockCell(p) ==
  /\ IF Last(p) THEN PrinterGoes(p, "lock", "print", 0) ELSE PrinterGoes(p, "lock", "lock", cell[p] + 1)
  /\ mutexes[cell[p]] = "free" /\ mutexes' = [mutexes EXCEPT ![cell[p]] = p]
  /\ UNCHANGED printed

PrintCell(p) ==
  /\ IF Last(p) THEN PrinterGoes(p, "print", "unlock", N - 1) ELSE PrinterGoes(p, "print", "print", cell[p] + 1)
  /\ printed' = [printed EXCEPT ![p][cell[p]] = array[cell[p]]]
  /\ UNCHANGED mutexes

FaultyUnlockCell(p) ==
  /\ IF cell[p] = 0 THEN PrinterGoes(p, "unlock", "none", 0) ELSE PrinterGoes(p, "unlock", "unlock", cell[p] - 1)
  /\ mutexes' = IF cell[p] = 0 THEN mutexes ELSE [mutexes EXCEPT ![cell[p]] = "free"]
  /\ UNCHANGED printed

\* From the last cell to the first.
UnlockCell(p) ==
  /\ IF cell[p] = 0 THEN PrinterGoes(p, "unlock", "none", 0) ELSE PrinterGoes(p, "unlock", "unlock", cell[p] - 1)
  /\ mutexes' = [mutexes EXCEPT ![cell[p]] = "free"]
  /\ UNCHANGED printed

PrinterStep(p) == LockCell(p) \/ PrintCell(p) \/ UnlockCell(p)

-----------------------------------------------------------------------------
Next == Signal \/ MainStep \/ \E p \in Printers : PrinterStep(p)

Spec == Init /\ [][Next]_swapVars

\* Every thread runs until it blocks.
FairSpec == Spec /\ WF_swapVars(MainStep) /\ \A p \in Printers : WF_swapVars(PrinterStep(p))

-----------------------------------------------------------------------------
(* Properties *)

IsPermutation(f) == \A v \in Cells : \E k \in Cells : f[k] = v

\* What a thread prints, cell by cell, is a permutation of the numbers, however
\* many reversals and other threads run meanwhile (sop-ca.c:87-99, 117-123).
PrintsPermutation == \A p \in Printers : printer[p] = "unlock" => IsPermutation(printed[p])

\* Two equal random numbers: main waits for itself.
LockedTwice == main = "second" /\ a = b

\* Signals are answered and everybody comes to rest, unless main waits for itself
\* (sop-ca.c:111-118): the order of the locks excludes other deadlocks.
ComesToRest ==
  <>[](LockedTwice \/ (main = "suspend" /\ ~usr1 /\ ~usr2 /\ \A p \in Printers : printer[p] = "none"))
=============================================================================
