------------------------------- MODULE Frames -------------------------------
(***************************************************************************)
(* Lab - 5/Tutorial/Pipe/prog22a.c: on SIGINT the parent sends a letter to *)
(* one of its children, which answers with a frame of many such letters on *)
(* the pipe that all share; SIGINT also makes children exit, at random.    *)
(***************************************************************************)
EXTENDS Naturals, Sequences

CONSTANTS Kids,           \* the children
          MaxInterrupts   \* a bound on the signals of the user

VARIABLES par, last_signal, fds, chosen, header, \* of the parent: its place, its flag, the
                          \* children it has a pipe to, the one it writes to, whose frame it reads
          kid, mail,      \* where each child is, the letters in its pipe
          R,              \* the shared pipe: headers and data, and whose they are
          pending, sent   \* the children with SIGINT pending, the signals sent

TypeOK ==
  /\ par \in {"test", "write", "clear", "read", "blocked", "data", "ended"}
  /\ last_signal \in BOOLEAN /\ fds \subseteq Kids /\ {chosen, header} \subseteq Kids
  /\ kid \in [Kids -> {"read", "answer", "gone"}] /\ mail \in [Kids -> 0..MaxInterrupts]
  /\ R \in Seq({"header", "data"} \X Kids) /\ pending \subseteq Kids /\ sent \in 0..MaxInterrupts

Init ==
  /\ par = "test" /\ last_signal = FALSE /\ fds = Kids
  /\ chosen = (CHOOSE k \in Kids : TRUE) /\ header = chosen
  /\ kid = [k \in Kids |-> "read"] /\ mail = [k \in Kids |-> 0] /\ R = <<>>
  /\ pending = {} /\ sent = 0

-----------------------------------------------------------------------------
kids == <<kid, mail, pending, sent>>
Alive == {k \in Kids : kid[k] # "gone"}

\* A handler ends a read that waits.
Woken == IF par = "blocked" THEN "test" ELSE par

\* SIGINT goes to all.
Interrupt ==
  /\ par # "ended" /\ sent < MaxInterrupts /\ sent' = sent + 1
  /\ last_signal' = TRUE /\ pending' = Alive /\ par' = Woken
  /\ UNCHANGED <<fds, chosen, header, kid, mail, R>>

-----------------------------------------------------------------------------
(* parent_work *)

ParGoes(from, to) == par = from /\ par' = to

\* Any child it has a pipe to, dead or not.
Test ==
  /\ IF last_signal /\ fds # {} THEN ParGoes("test", "write") /\ chosen' \in fds
     ELSE ParGoes("test", IF last_signal THEN "clear" ELSE "read") /\ UNCHANGED chosen
  /\ UNCHANGED <<last_signal, fds, header, R, kids>>

\* EPIPE tells that the child is dead.
Write ==
  /\ ParGoes("write", "clear")
  /\ IF kid[chosen] = "gone" THEN fds' = fds \ {chosen} /\ UNCHANGED mail
     ELSE mail' = [mail EXCEPT ![chosen] = @ + 1] /\ UNCHANGED fds
  /\ UNCHANGED <<last_signal, chosen, header, R, kid, pending, sent>>

Clear ==
  /\ ParGoes("clear", "read") /\ last_signal' = FALSE
  /\ UNCHANGED <<fds, chosen, header, R, kids>>

\* A byte, the end of all the children, or nothing yet.
ReadHeader ==
  /\ \/ /\ R # <<>> /\ (ParGoes("read", "data") \/ ParGoes("blocked", "data"))
        /\ header' = Head(R)[2] /\ R' = Tail(R)
     \/ /\ R = <<>> /\ Alive # {} /\ ParGoes("read", "blocked") /\ UNCHANGED <<header, R>>
     \/ /\ R = <<>> /\ Alive = {} /\ (ParGoes("read", "ended") \/ ParGoes("blocked", "ended"))
        /\ UNCHANGED <<header, R>>
  /\ UNCHANGED <<last_signal, fds, chosen, kids>>

\* As many bytes as the header says.
ReadData ==
  /\ R # <<>> /\ ParGoes("data", "test") /\ R' = Tail(R)
  /\ UNCHANGED <<last_signal, fds, chosen, header, kids>>

ParentStep == Test \/ Write \/ Clear \/ ReadHeader \/ ReadData

-----------------------------------------------------------------------------
(* child_work *)

\* sig_killme: one in five exits, whatever it was about to do.
Handle(k) ==
  /\ k \in pending /\ pending' = pending \ {k}
  /\ \/ UNCHANGED <<kid, par>>
     \/ /\ kid' = [kid EXCEPT ![k] = "gone"]
        /\ par' = IF Alive = {k} THEN par ELSE Woken
  /\ UNCHANGED <<last_signal, fds, chosen, header, mail, R, sent>>

ReadLetter(k) ==
  /\ kid[k] = "read" /\ mail[k] > 0
  /\ kid' = [kid EXCEPT ![k] = "answer"] /\ mail' = [mail EXCEPT ![k] = @ - 1]
  /\ UNCHANGED <<par, last_signal, fds, chosen, header, R, pending, sent>>

\* One write of at most 201 bytes.
Answer(k) ==
  /\ kid[k] = "answer" /\ kid' = [kid EXCEPT ![k] = "read"]
  /\ R' = R \o <<<<"header", k>>, <<"data", k>>>>
  /\ UNCHANGED <<par, last_signal, fds, chosen, header, mail, pending, sent>>

Kid(k) == Handle(k) \/ ReadLetter(k) \/ Answer(k)

Next == Interrupt \/ ParentStep \/ \E k \in Kids : Kid(k)

-----------------------------------------------------------------------------
(* Properties *)

\* After a header the parent finds the data of that frame, also when children exit in
\* their handlers or answer at once (prog22a.c:73-80, 112-121), and it closes the pipes
\* of dead children only (:101-108).
FramesWhole ==
  /\ par = "data" => R # <<>> /\ Head(R) = <<"data", header>>
  /\ \A k \in Kids \ fds : kid[k] = "gone"

\* It comes to rest, and ends when all its children have (prog22a.c:117).
FramesRest == par \in {"blocked", "ended"} /\ (Alive = {} => par = "ended")
=============================================================================
