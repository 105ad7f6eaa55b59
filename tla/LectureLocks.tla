---------------------------- MODULE LectureLocks ----------------------------
(***************************************************************************)
(* The two programs of the lecture whose threads share semaphores in       *)
(* patterns of their own, readers and writers and the philosophers: a      *)
(* behaviour runs one of them.                                             *)
(***************************************************************************)
EXTENDS Philosophers, FiniteSets

CONSTANTS Readers,     \* the reader threads
          Iterations   \* ITERATIONS of their loops and of the writer's

ASSUME ReadersAssumption == IsFiniteSet(Readers) /\ Iterations \in Nat \ {0}

VARIABLES prog, w, written, pc, i, mtx, rw_mtx, readers_count

R == INSTANCE ReadersWriters

buffer == <<w, written, pc, i, mtx, rw_mtx, readers_count>>
allvars == <<buffer, vars, prog>>

EitherInit == prog \in {"readers_writers", "philosophers"} /\ Init /\ R!Init

WriterStep == prog = "readers_writers" /\ R!Writer /\ UNCHANGED <<vars, prog>>
ReaderStep(r) == prog = "readers_writers" /\ R!Reader(r) /\ UNCHANGED <<vars, prog>>
PhilosopherStep(k) == prog = "philosophers" /\ Step(k) /\ UNCHANGED <<buffer, prog>>

EitherNext ==
  \/ WriterStep
  \/ \E r \in Readers : ReaderStep(r)
  \/ \E k \in Philosophers : PhilosopherStep(k)

\* Every thread of the program that runs goes on until it blocks.
EitherSpec ==
  /\ EitherInit /\ [][EitherNext]_allvars
  /\ WF_allvars(WriterStep)
  /\ \A r \in Readers : WF_allvars(ReaderStep(r))
  /\ \A k \in Philosophers : WF_allvars(PhilosopherStep(k))

-----------------------------------------------------------------------------
(* Properties *)

\* The type invariants of both programs.
TypesOK == TypeOK /\ R!TypeOK

\* The two semaphores and the count are a readers-writers lock: no reader reads
\* while the writer writes, and readers need not wait for one another
\* (09_reades_writers.c:19-24 and 35-48).
Lock == INSTANCE RwLock WITH reading <- {r \in Readers : pc[r] = "read"}, writing <- w = "write"
ImplementsRwLock == Lock!Spec

\* The count tells who is in: rw_mtx is free exactly when neither the writer nor
\* any counted reader has it (09_reades_writers.c:36-38, 45-47).
Inside == {r \in Readers : pc[r] \in {"claim", "admit", "read", "uncount"}}
CountIsExact ==
  /\ readers_count = Cardinality(Inside)
  /\ (rw_mtx = 0) <=> (w = "write" \/ \E r \in Inside : pc[r] # "claim")

\* Each program ends, that of the philosophers unless they close the circle
\* (09_reades_writers.c:86-88, 16_dining_philosophers.c:67-69).
EachEnds ==
  /\ prog = "readers_writers" => R!AllReturn
  /\ prog = "philosophers" => DoneUnlessCircle
=============================================================================
