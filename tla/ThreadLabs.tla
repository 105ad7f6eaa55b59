----------------------------- MODULE ThreadLabs -----------------------------
(***************************************************************************)
(* Four programs of the thread laboratories, the mutexes of an array's     *)
(* cells, the throwers, the square roots and the chunks of a file: a       *)
(* behaviour runs one of them.                                             *)
(***************************************************************************)
EXTENDS Integers, Sequences

CONSTANTS N, Printers, Signals,      \* of SwapArray
          Threads, Balls, Bins,      \* of Throwers, whose threads are also those of
          SizeofArray,               \* SquareRoots
          Workers, MaxSize, MaxParts \* of Chunks

ASSUME LabAssumption ==
  /\ N \in Nat \ {0, 1} /\ Signals \in Nat /\ {"free", "main"} \cap Printers = {}
  /\ Balls \in Nat \ {0} /\ Bins \in Nat \ {0} /\ SizeofArray \in Nat \ {0}
  /\ {"free", "main"} \cap Threads = {}
  /\ Workers \in Nat \ {0} /\ MaxSize \in Nat /\ MaxParts \in Nat \ {0}

VARIABLES prog,
          main, a, b, temp, array, mutexes, usr1, usr2, SigUsr1Received, SigUsr2Received,
          printer, cell, printed, sent,
          ballsWaiting, ballsThrown, bins, mxBallsWaiting, mxBallsThrown, mxBins,
          thrower, binno, reg, poll, bt, summed, realBallsCount,
          calculatedCells, cellMutexes, stores, rooter, index, step,
          size, parts, next_chunk, error_line, mutex, worker, chunk_start, head,
          concat, joined, list, exit

swapVars == <<main, a, b, temp, array, mutexes, usr1, usr2, SigUsr1Received, SigUsr2Received,
              printer, cell, printed, sent>>
throwVars == <<ballsWaiting, ballsThrown, bins, mxBallsWaiting, mxBallsThrown, mxBins,
               thrower, binno, reg, poll, bt, summed, realBallsCount>>
rootVars == <<calculatedCells, cellMutexes, stores, rooter, index, step>>
chunkVars == <<size, parts, next_chunk, error_line, mutex, worker, chunk_start, head,
               concat, joined, list, exit>>
labVars == <<swapVars, throwVars, rootVars, chunkVars, prog>>

S == INSTANCE SwapArray
T == INSTANCE Throwers
R == INSTANCE SquareRoots
C == INSTANCE Chunks

\* A program that does not run has one initial state.
LabInit ==
  /\ prog \in {"swap", "throw", "roots", "chunks"}
  /\ S!Init /\ (prog = "swap" \/ (~SigUsr1Received /\ ~SigUsr2Received))
  /\ T!Init /\ R!Init
  /\ C!Init /\ (prog = "chunks" \/ (size = 0 /\ parts = 1))

OnlySwap == prog = "swap" /\ UNCHANGED <<throwVars, rootVars, chunkVars, prog>>
OnlyThrow == prog = "throw" /\ UNCHANGED <<swapVars, rootVars, chunkVars, prog>>
OnlyRoots == prog = "roots" /\ UNCHANGED <<swapVars, throwVars, chunkVars, prog>>
OnlyChunks == prog = "chunks" /\ UNCHANGED <<swapVars, throwVars, rootVars, prog>>

SignalStep == OnlySwap /\ S!Signal
SwapMain == OnlySwap /\ S!MainStep
PrinterStep(p) == OnlySwap /\ S!PrinterStep(p)
ThrowMain == OnlyThrow /\ T!Main
ThrowerStep(t) == OnlyThrow /\ T!Thrower(t)
CountThrown(t) == OnlyThrow /\ T!LockThrown(t)
RooterStep(t) == OnlyRoots /\ R!Rooter(t)
ConcatStep == OnlyChunks /\ C!Concat
WorkerStep(t) == OnlyChunks /\ C!Worker(t)

LabNext ==
  \/ SignalStep \/ SwapMain \/ ThrowMain \/ ConcatStep
  \/ \E p \in Printers : PrinterStep(p)
  \/ \E t \in Threads : ThrowerStep(t) \/ RooterStep(t)
  \/ \E t \in 1..Workers : WorkerStep(t)

\* Every thread of the program that runs goes on until it blocks, and a thrower gets
\* mxBallsThrown in the end: main sleeps for a second between two polls.
LabSpec ==
  /\ LabInit /\ [][LabNext]_labVars
  /\ WF_labVars(SwapMain) /\ \A p \in Printers : WF_labVars(PrinterStep(p))
  /\ WF_labVars(ThrowMain)
  /\ \A t \in Threads : WF_labVars(ThrowerStep(t)) /\ SF_labVars(CountThrown(t))
  /\ \A t \in Threads : WF_labVars(RooterStep(t))
  /\ WF_labVars(ConcatStep) /\ \A t \in 1..Workers : WF_labVars(WorkerStep(t))

-----------------------------------------------------------------------------
(* Properties *)

\* The type invariants of the four programs.
TypesOK == S!TypeOK /\ T!TypeOK /\ R!TypeOK /\ C!TypeOK

\* What a printing thread prints, cell by cell, is a permutation of the numbers,
\* however many reversals and other threads run meanwhile (sop-ca.c:87-99, 117-123).
PrintsPermutation == S!PrintsPermutation

\* Nothing the threads share out is done twice or lost: main finds every ball in the
\* bins it reads without their mutexes (prog18.c:95-108), each root is stored at most
\* once (example.c:50-73), and no chunk is printed twice, and every one if the program
\* reports success (Lab - 4/task.c:82-100, 127-144).
EveryTaskOnce == T!TotalIsExact /\ R!StoredOnce /\ C!EveryChunkOnce

\* Each program answers its signals or ends, that of the cells unless its main
\* thread locks one cell twice (sop-ca.c:118, prog18.c:196-206, example.c:92-99,
\* task.c:127-144).
EachEnds ==
  /\ prog = "swap" => S!ComesToRest
  /\ prog = "throw" => T!MainEnds
  /\ prog = "roots" => R!AllJoined
  /\ prog = "chunks" => C!Ends
=============================================================================
