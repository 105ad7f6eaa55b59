----------------------------- MODULE FifoChannel -----------------------------
(***************************************************************************)
(* What the bounded buffers of the lecture on synchronisation promise: a   *)
(* channel of bounded capacity between one producer and one consumer, that *)
(* carries the items 0, 1, 2, ... and loses, repeats and reorders none.    *)
(***************************************************************************)
EXTENDS Integers, Sequences

CONSTANTS Capacity,    \* items the channel holds at most
          Iterations   \* items sent

VARIABLES queue,  \* the items in the channel, oldest first
          next    \* the item the producer sends next

vars == <<queue, next>>

Init == queue = <<>> /\ next = 0

Put == /\ next < Iterations /\ Len(queue) < Capacity
       /\ queue' = Append(queue, next)
       /\ next' = next + 1

Get == /\ queue # <<>>
       /\ queue' = Tail(queue)
       /\ UNCHANGED next

Next == Put \/ Get

Spec == Init /\ [][Next]_vars
=============================================================================
