------------------------------- MODULE RwLock -------------------------------
(***************************************************************************)
(* What a readers-writers lock promises: many may read at a time, one may  *)
(* write, and never both.                                                  *)
(***************************************************************************)
CONSTANT Readers

VARIABLES reading,   \* the readers that read
          writing    \* whether the writer writes

Init == reading = {} /\ writing = FALSE

StartReading(r) == ~writing /\ reading' = reading \cup {r} /\ UNCHANGED writing
StopReading(r) == reading' = reading \ {r} /\ UNCHANGED writing
StartWriting == ~writing /\ reading = {} /\ writing' = TRUE /\ UNCHANGED reading
StopWriting == writing' = FALSE /\ UNCHANGED reading

Next ==
  \/ \E r \in Readers : StartReading(r) \/ StopReading(r)
  \/ StartWriting \/ StopWriting

Spec == Init /\ [][Next]_<<reading, writing>>
=============================================================================
