------------------------------ MODULE BlockCopy ------------------------------
(***************************************************************************)
(* Lab - 2/Tutorial/prog16b.c: the parent copies blocks while SIGUSR1 of   *)
(* its child interrupts its calls, and at the end sends that signal to the *)
(* group, which is to end the child.                                       *)
(*                                                                         *)
(* An operator named Faulty... is the definition that follows it with a    *)
(* plausible mistake in it; no specification uses one.                     *)
(***************************************************************************)
EXTENDS Naturals

CONSTANTS Blocks, Size \* b, and s: the pieces that a call can transfer of a block

VARIABLES copying, block, got, put, \* of the parent: its place, the blocks done, the pieces of
          file,                     \* this one read and written; the pieces in the file
          child, received           \* where the child is; signals to the parent, 2 for more

TypeOK ==
  /\ copying \in {"read", "write", "kill", "wait", "ended"} /\ block \in 0..Blocks
  /\ {got, put} \subseteq 0..Size /\ file \in 0..Blocks * Size
  /\ child \in {"start", "send", "ended"} /\ received \in 0..2

Init ==
  /\ copying = "read" /\ block = 0 /\ got = 0 /\ put = 0 /\ file = 0 /\ child = "start" /\ received = 0

-----------------------------------------------------------------------------
\* A call that is interrupted has transferred a part, or is made again.
BulkRead ==
  /\ copying = "read" /\ \E c \in 1..Size - got : got' = got + c
  /\ copying' = IF got' = Size THEN "write" ELSE "read"
  /\ UNCHANGED <<block, put, file, child, received>>

BulkWrite ==
  /\ copying = "write"
  /\ \E c \in 1..got - put :
       /\ file' = file + c
       /\ IF put + c < got THEN put' = put + c /\ UNCHANGED <<copying, block, got>>
          ELSE /\ put' = 0 /\ got' = 0 /\ block' = block + 1
               /\ copying' = IF block' = Blocks THEN "kill" ELSE "read"
  /\ UNCHANGED <<child, received>>

\* kill(0, SIGUSR1): a child that still has the handler of its parent survives.
KillGroup ==
  /\ copying = "kill" /\ copying' = "wait" /\ child' = IF child = "send" THEN "ended" ELSE child
  /\ UNCHANGED <<block, got, put, file, received>>

Wait ==
  /\ copying = "wait" /\ child = "ended" /\ copying' = "ended"
  /\ UNCHANGED <<block, got, put, file, child, received>>

Copier == BulkRead \/ BulkWrite \/ KillGroup \/ Wait

SetDefault ==
  /\ child = "start" /\ child' = "send" /\ UNCHANGED <<copying, block, got, put, file, received>>

FaultySignal ==
  /\ child = "send" /\ copying' = (IF copying = "wait" THEN "ended" ELSE copying)
  /\ received' = (IF received = 2 THEN 2 ELSE received + 1) /\ UNCHANGED <<child, block, got, put, file>>

\* A signal, which ends a wait with an error, and so the parent; when there is none any
\* more, an error ends the child.
Signal ==
  /\ child = "send"
  /\ IF copying = "ended" THEN child' = "ended" /\ UNCHANGED <<copying, received>>
     ELSE /\ copying' = IF copying = "wait" THEN "ended" ELSE copying
          /\ received' = (IF received = 2 THEN 2 ELSE received + 1) /\ UNCHANGED child
  /\ UNCHANGED <<block, got, put, file>>

Signaller == SetDefault \/ Signal

Next == Copier \/ Signaller

-----------------------------------------------------------------------------
(* Properties *)

\* Interrupted calls lose and repeat nothing (prog16b.c:52-84, 97-105).
CopyIsWhole == file = block * Size + put /\ (copying \in {"kill", "wait", "ended"} => block = Blocks)

\* Both end, the child by the signal or, when that came too early, by its next signal.
CopyEnds == copying = "ended" /\ child = "ended"
=============================================================================
