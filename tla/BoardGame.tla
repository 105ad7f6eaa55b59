------------------------------ MODULE BoardGame ------------------------------
(***************************************************************************)
(* Lab - 7/Tutorial/server.c and client.c: a server makes a board of       *)
(* points in shared memory and shows it again and again; clients take the  *)
(* points of random fields, under a robust mutex, until they hit an empty  *)
(* field or make a mistake and exit with the mutex in hand.  Nothing tells *)
(* a client that the board is ready.                                       *)
(*                                                                         *)
(* An operator named Faulty... is the definition that follows it with a    *)
(* plausible mistake in it; no specification uses one.                     *)
(***************************************************************************)
EXTENDS Naturals, FiniteSets

CONSTANTS Clients, Fields \* the fields of the board, 1..Fields

VARIABLES srv,            \* where the server is
          named, sized, numbered, filled, \* what it has made: N and so many fields
          board,          \* the fields with points
          kind,           \* of the mutex: plain when zero, robust, destroyed
          holder, early,  \* who has it; history: it was used before it was made
          interrupted, running, \* SIGINT is pending, the flag of the server
          cl, knows, aim, won \* of a client: its place, whether N was set, its field, its fields

Nobody == "nobody"
Server == "server"

ClientEnds == {"ops", "over", "failed", "killed"}
ClientPlaces == {"open", "read", "lock", "look", "zero", "unlock", "game_over"} \cup ClientEnds
Setup == {"create", "size", "number", "fill", "mutex", "mask"}
ServerEnds == {"ended", "killed"}
ServerPlaces == Setup \cup {"test", "lock", "show", "join", "destroy", "unlink"} \cup ServerEnds

TypeOK ==
  /\ srv \in ServerPlaces /\ {named, sized, numbered, early, interrupted, running} \subseteq BOOLEAN
  /\ filled \in 0..Fields /\ board \subseteq 1..Fields
  /\ kind \in {"plain", "robust", "destroyed"} /\ holder \in Clients \cup {Nobody, Server}
  /\ cl \in [Clients -> ClientPlaces] /\ knows \in [Clients -> BOOLEAN]
  /\ aim \in [Clients -> 0..Fields] /\ won \in [Clients -> SUBSET (1..Fields)]

Init ==
  /\ srv = "create" /\ named = FALSE /\ sized = FALSE /\ numbered = FALSE /\ filled = 0 /\ board = {}
  /\ kind = "plain" /\ holder = Nobody /\ early = FALSE /\ interrupted = FALSE /\ running = TRUE
  /\ cl = [c \in Clients |-> "open"] /\ knows = [c \in Clients |-> FALSE]
  /\ aim = [c \in Clients |-> 0] /\ won = [c \in Clients |-> {}]

-----------------------------------------------------------------------------
memory == <<named, sized, numbered, filled, board>>
mutex == <<kind, holder, early>>
flags == <<interrupted, running>>
locals == <<knows, aim, won>>

\* The kernel gives the robust mutex of a process that ended to the next one; who has
\* unmapped the memory before, as after GAME OVER, is not found any more.
Dead(o) == o \in Clients /\ cl[o] \in ClientEnds \ {"over"}

\* Who waits for the mutex may get it even when it is destroyed meanwhile.
Locked(o) ==
  /\ holder = Nobody \/ (kind # "plain" /\ Dead(holder))
  /\ holder' = o /\ early' = (early \/ kind = "plain") /\ UNCHANGED kind

\* Only its owner unlocks a robust mutex, and nobody a destroyed one.
Unlocked(o) ==
  /\ holder' = IF kind = "plain" \/ (kind = "robust" /\ holder = o) THEN Nobody ELSE holder
  /\ UNCHANGED <<kind, early>>

-----------------------------------------------------------------------------
(* server.c *)

ServerGoes(from, to) == srv = from /\ srv' = to /\ UNCHANGED <<cl, locals>>

\* shm_open(O_EXCL), ftruncate, N
Prepare ==
  /\ \/ ServerGoes("create", "size") /\ named' = TRUE /\ UNCHANGED <<sized, numbered>>
     \/ ServerGoes("size", "number") /\ sized' = TRUE /\ UNCHANGED <<named, numbered>>
     \/ ServerGoes("number", "fill") /\ numbered' = TRUE /\ UNCHANGED <<named, sized>>
  /\ UNCHANGED <<filled, board, mutex, flags>>

FillField ==
  /\ ServerGoes("fill", IF filled + 1 = Fields THEN "mutex" ELSE "fill")
  /\ filled' = filled + 1 /\ board' = board \cup {filled + 1}
  /\ UNCHANGED <<named, sized, numbered, mutex, flags>>

\* The mutex is made when clients may have it already.
MakeMutex ==
  /\ ServerGoes("mutex", "mask") /\ kind' = "robust" /\ holder' = Nobody
  /\ UNCHANGED <<early, memory, flags>>

Mask == ServerGoes("mask", "test") /\ UNCHANGED <<memory, mutex, flags>>

Test == ServerGoes("test", IF running THEN "lock" ELSE "join") /\ UNCHANGED <<memory, mutex, flags>>

LockBoard == ServerGoes("lock", "show") /\ Locked(Server) /\ UNCHANGED <<memory, flags>>

ShowBoard == ServerGoes("show", "test") /\ Unlocked(Server) /\ UNCHANGED <<memory, flags>>

\* pthread_join, and pthread_mutex_destroy, which takes a robust mutex in use.
Finish ==
  \/ ServerGoes("join", "destroy") /\ UNCHANGED <<memory, mutex, flags>>
  \/ ServerGoes("destroy", "unlink") /\ kind' = "destroyed" /\ UNCHANGED <<holder, early, memory, flags>>
  \/ /\ ServerGoes("unlink", "ended") /\ named' = FALSE
     /\ UNCHANGED <<sized, numbered, filled, board, mutex, flags>>

\* SIGINT kills the server until it blocks the signal.
Interrupt ==
  /\ srv \notin ServerEnds /\ ~interrupted /\ interrupted' = TRUE
  /\ srv' = IF srv \in Setup THEN "killed" ELSE srv
  /\ UNCHANGED <<running, memory, mutex, cl, locals>>

\* sigwait returns.
Sighandling ==
  /\ srv \notin Setup \cup ServerEnds /\ interrupted /\ running /\ running' = FALSE
  /\ UNCHANGED <<srv, interrupted, memory, mutex, cl, locals>>

RunServer ==
  Prepare \/ FillField \/ MakeMutex \/ Mask \/ Test \/ LockBoard \/ ShowBoard \/ Finish

-----------------------------------------------------------------------------
(* client.c *)

ClientGoes(c, from, to) ==
  cl[c] = from /\ cl' = [cl EXCEPT ![c] = to] /\ UNCHANGED <<srv, flags, named, sized, numbered, filled>>

Open(c) ==
  ClientGoes(c, "open", IF named THEN "read" ELSE "failed") /\ UNCHANGED <<board, mutex, locals>>

\* A page of an object without size cannot be read.
ReadN(c) ==
  /\ ClientGoes(c, "read", IF sized THEN "lock" ELSE "killed")
  /\ knows' = [knows EXCEPT ![c] = numbered] /\ UNCHANGED <<board, mutex, aim, won>>

LockField(c) ==
  /\ \/ ClientGoes(c, "lock", "look") /\ Locked(c)
     \/ ClientGoes(c, "lock", "failed") /\ kind = "destroyed" /\ UNCHANGED mutex
  /\ UNCHANGED <<board, locals>>

\* D = 1: exit with the mutex.
Ops(c) == ClientGoes(c, "look", "ops") /\ UNCHANGED <<board, mutex, locals>>

\* rand() % N kills it when N is 0; else it has the points of a field, ...
Look(c) ==
  \/ ~knows[c] /\ ClientGoes(c, "look", "killed") /\ UNCHANGED <<board, mutex, locals>>
  \/ \E f \in 1..Fields :
       /\ knows[c] /\ ClientGoes(c, "look", IF f \in board THEN "zero" ELSE "game_over")
       /\ aim' = [aim EXCEPT ![c] = f]
       /\ won' = [won EXCEPT ![c] = @ \cup ({f} \cap board)]
       /\ UNCHANGED <<board, mutex, knows>>

FaultyZeroField(c) ==
  ClientGoes(c, "zero", "unlock") /\ Unlocked(c) /\ UNCHANGED <<board, locals>>

\* ... takes them from the board ...
ZeroField(c) ==
  ClientGoes(c, "zero", "unlock") /\ board' = board \ {aim[c]} /\ UNCHANGED <<mutex, locals>>

\* ... and tries another, or the game is over.
UnlockField(c) ==
  /\ ClientGoes(c, "unlock", "lock") \/ ClientGoes(c, "game_over", "over")
  /\ Unlocked(c) /\ UNCHANGED <<board, locals>>

Kill(c) ==
  /\ cl[c] \notin ClientEnds /\ cl' = [cl EXCEPT ![c] = "killed"]
  /\ UNCHANGED <<srv, flags, memory, mutex, locals>>

RunClient(c) ==
  Open(c) \/ ReadN(c) \/ LockField(c) \/ Ops(c) \/ Look(c) \/ ZeroField(c) \/ UnlockField(c)

Next ==
  RunServer \/ Interrupt \/ Sighandling \/ \E c \in Clients : RunClient(c) \/ Kill(c)

-----------------------------------------------------------------------------
(* Properties *)

\* A client's points are gone from the board for the others, once it has let the mutex
\* go, whoever is killed or makes a mistake with the mutex in hand (client.c:56-92);
\* unless somebody had the mutex before the server made it.
FieldsScoredOnce ==
  ~early => \A c, d \in Clients : \A f \in won[c] :
    /\ f \in board => cl[c] \in {"zero", "killed"}
    /\ c # d /\ f \in won[d] => cl[c] = "killed" \/ cl[d] = "killed"

\* The server that is interrupted ends, and so do its clients, but for one that waits for
\* the mutex which another one had when it was destroyed (server.c:45-48, 141-148).
GameEnds ==
  interrupted /\ ~early =>
    /\ srv \in ServerEnds
    /\ \A c \in Clients : cl[c] \in ClientEnds \/ (cl[c] = "lock" /\ kind = "destroyed" /\ holder # Nobody)
=============================================================================
