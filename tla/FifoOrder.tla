------------------------------ MODULE FifoOrder ------------------------------
(***************************************************************************)
(* Lecture Codes/01_pipes: 12_fifo_communication.c, where a child reads    *)
(* what its parent writes to a FIFO, and 13_fifo_deadlock.c, where they    *)
(* open two FIFOs in another order each.  To open a FIFO waits for the     *)
(* other side to open it.                                                  *)
(***************************************************************************)
EXTENDS Naturals, Sequences

VARIABLES readerOrder, writerOrder, \* the FIFOs the child and the parent open
          opening,                  \* who is inside open
          opened,                   \* how many each has open
          text,                     \* 12: "none", "written", "read"
          ended                     \* who has ended

Sides == {"reader", "writer"}
Other(s) == IF s = "reader" THEN "writer" ELSE "reader"
Order(s) == IF s = "reader" THEN readerOrder ELSE writerOrder

TypeOK ==
  /\ opening \subseteq Sides /\ opened \in [Sides -> 0..Len(readerOrder)]
  /\ text \in {"none", "written", "read"} /\ ended \subseteq Sides

\* 12, and 13; as it is and with the order switched (13_fifo_deadlock.c:63).
Init ==
  /\ readerOrder \in {<<1>>, <<1, 2>>}
  /\ writerOrder \in (IF Len(readerOrder) = 1 THEN {<<1>>} ELSE {<<1, 2>>, <<2, 1>>})
  /\ opening = {} /\ opened = [s \in Sides |-> 0] /\ text = "none" /\ ended = {}

-----------------------------------------------------------------------------
orders == <<readerOrder, writerOrder>>

\* open ...
Open(s) ==
  /\ s \notin opening /\ opened[s] < Len(Order(s)) /\ opening' = opening \cup {s}
  /\ UNCHANGED <<orders, opened, text, ended>>

\* ... returns when the other side has it open, or waits in open for it as well.
Opens(s) ==
  LET f == Order(s)[opened[s] + 1]
      o == Other(s)
      there == {Order(o)[n] : n \in 1..opened[o]} \cup
                 (IF o \in opening THEN {Order(o)[opened[o] + 1]} ELSE {}) IN
  /\ s \in opening /\ f \in there
  /\ opening' = opening \ {s} /\ opened' = [opened EXCEPT ![s] = @ + 1]
  /\ UNCHANGED <<orders, text, ended>>

\* The text of 12 is written; 13 only closes.
WriteText ==
  /\ Len(readerOrder) = 1 /\ opened["writer"] = 1 /\ text = "none" /\ text' = "written"
  /\ UNCHANGED <<orders, opening, opened, ended>>

ReadText ==
  /\ Len(readerOrder) = 1 /\ opened["reader"] = 1 /\ text = "written" /\ text' = "read"
  /\ UNCHANGED <<orders, opening, opened, ended>>

\* The parent waits for the child.
End(s) ==
  /\ s \notin ended /\ opened[s] = Len(Order(s))
  /\ Len(readerOrder) = 1 => text \in (IF s = "reader" THEN {"read"} ELSE {"written", "read"})
  /\ s = "writer" => "reader" \in ended
  /\ ended' = ended \cup {s} /\ UNCHANGED <<orders, opening, opened, text>>

Side(s) ==
  Open(s) \/ Opens(s) \/ (s = "reader" /\ ReadText) \/ (s = "writer" /\ WriteText) \/ End(s)

Next == \E s \in Sides : Side(s)

-----------------------------------------------------------------------------
(* Properties *)

\* Both sides are through when they open the FIFOs in the same order, and else wait for
\* each other in their first open, for ever (13_fifo_deadlock.c:42, 59).
MeetOrWait ==
  IF readerOrder = writerOrder THEN ended = Sides
  ELSE opening = Sides /\ \A s \in Sides : opened[s] = 0
=============================================================================
