-------------------------------- MODULE Ring --------------------------------
(***************************************************************************)
(* The ring of cells of the bounded buffers of the lecture on              *)
(* synchronisation, 08_bounded_buffer.c, 12_sem_in_shm.c and 15_cv.c, and  *)
(* the length of their loops.                                              *)
(***************************************************************************)
EXTENDS Integers

CONSTANTS BufferSize,  \* BUFFER_SIZE, the cells of the ring
          Iterations   \* ITERATIONS, the items each side handles

ASSUME RingAssumption == BufferSize \in Nat \ {0}
ASSUME IterationsAssumption == Iterations \in Nat \ {0}

Cells == 0..BufferSize - 1

\* The cell after k in the ring.
After(k) == (k + 1) % BufferSize

\* The cell d places after cell o.
Cell(o, d) == IF o + d >= BufferSize THEN o + d - BufferSize ELSE o + d

\* What n cells hold from o on.
RingSeq(items, o, n) == [d \in 1..n |-> items[Cell(o, d - 1)]]
=============================================================================
