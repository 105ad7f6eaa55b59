------------------------------ MODULE ForkJoin ------------------------------
(***************************************************************************)
(* Lab - 7/Tutorial/prog1.c: a process for every sample of pi, each of     *)
(* which writes its own cell of an anonymous mapping and its own line of a *)
(* mapped file; the parent waits for all and prints the mean.              *)
(***************************************************************************)
EXTENDS Naturals, FiniteSets

CONSTANT Samples \* n, the children

VARIABLES maker, forked, \* where the parent is, the children it has
          sampler,      \* where each child is
          cells, lines, \* the children whose cell, whose line of the log is written
          summed        \* the cells in the result

Numbers == 1..Samples

TypeOK ==
  /\ maker \in {"fork", "wait", "sum", "end", "failed"} /\ {forked, summed} \subseteq 0..Samples
  /\ sampler \in [Numbers -> {"none", "work", "log", "zombie", "reaped"}]
  /\ cells \subseteq Numbers /\ lines \subseteq Numbers

Init ==
  /\ maker = "fork" /\ forked = 0 /\ sampler = [n \in Numbers |-> "none"]
  /\ cells = {} /\ lines = {} /\ summed = 0

-----------------------------------------------------------------------------
SamplerGoes(n, from, to) == sampler[n] = from /\ sampler' = [sampler EXCEPT ![n] = to]

\* The number of processes is limited: some children are there, the parent exits.
Fork ==
  /\ maker = "fork"
  /\ \/ /\ forked < Samples /\ forked' = forked + 1
        /\ SamplerGoes(forked + 1, "none", "work") /\ UNCHANGED maker
     \/ forked < Samples /\ maker' = "failed" /\ UNCHANGED <<forked, sampler>>
     \/ forked = Samples /\ maker' = "wait" /\ UNCHANGED <<forked, sampler>>
  /\ UNCHANGED <<cells, lines, summed>>

ChildWork(n) ==
  /\ \/ SamplerGoes(n, "work", "log") /\ cells' = cells \cup {n} /\ UNCHANGED lines
     \/ SamplerGoes(n, "log", "zombie") /\ lines' = lines \cup {n} /\ UNCHANGED cells
  /\ UNCHANGED <<maker, forked, summed>>

\* wait, until there is no child
Reap ==
  /\ maker = "wait"
  /\ \/ \E n \in Numbers : SamplerGoes(n, "zombie", "reaped") /\ UNCHANGED maker
     \/ /\ \A n \in Numbers : sampler[n] \in {"none", "reaped"}
        /\ maker' = "sum" /\ UNCHANGED sampler
  /\ UNCHANGED <<forked, cells, lines, summed>>

Sum ==
  /\ maker = "sum" /\ maker' = "end" /\ summed' = Cardinality(cells)
  /\ UNCHANGED <<forked, sampler, cells, lines>>

ParentStep == Fork \/ Reap \/ Sum

Next == ParentStep \/ \E n \in Numbers : ChildWork(n)

-----------------------------------------------------------------------------
(* Properties *)

\* The mean is of the samples of all children, and the log has all their lines when it
\* is written back (prog1.c:41-53, 110).
MeanOfAll == maker = "end" => summed = Samples /\ lines = Numbers

\* The parent ends, and so do the children it has, also when it could not make them all.
SamplersEnd == maker \in {"end", "failed"} /\ \A n \in Numbers : sampler[n] \in {"none", "zombie", "reaped"}
=============================================================================
