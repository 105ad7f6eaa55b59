------------------------------ MODULE TcpServers ------------------------------
(***************************************************************************)
(* Four epoll servers of Lab - 8, each a loop over the events of one       *)
(* epoll_wait: "address" is l4a.c, where a client takes one of the         *)
(* addresses and gets its texts back; "chat" is sop-chat (1).c, which      *)
(* relays messages between clients that know a key; "city" is              *)
(* anotherone.c, which tells all clients when a city changes its owner;    *)
(* "calc" is 1_server.c, which answers one request and closes.  First what *)
(* they have around them: clients that connect, send and leave, the queue  *)
(* of a listening socket, the bytes that wait to be read, and what epoll   *)
(* has to report of them.                                                  *)
(*                                                                         *)
(* An operator named Faulty... is the definition that follows it with a    *)
(* plausible mistake in it; no specification uses one.                     *)
(***************************************************************************)
EXTENDS Naturals, Sequences, FiniteSets

CONSTANTS MaxConns,   \* a bound on the connections that clients make
          MaxSends    \* a bound on the messages they send

VARIABLES prog,                \* the server that runs
          queue,               \* the connections not yet accepted
          conn, gone,          \* where each connection is, and how its client has left
          inbox, sends,        \* the messages unread of each, the number of all sent
          link,                \* what the server has written: to a client that has gone, the
                               \* first write brings a reset
          edge                 \* edge triggered: what has happened since it was reported

netVars == <<queue, conn, gone, inbox, sends, link, edge>>

\* Connections are numbered as they come.
Conns == 1..MaxConns
Listen == 0

\* What a client may send, "p" and "g" are the owners of a city; "rest" is what a read has
\* left of texts.
Texts == {"text", "rest", "key", "wrong", "whole", "part", "p", "g"}

InboxTypeOK == inbox \in [Conns -> Seq(Texts)] /\ \A c \in Conns : Len(inbox[c]) <= sends

NetTypeOK ==
  /\ queue \in Seq(Conns) /\ conn \in [Conns -> {"away", "queued", "open", "shut"}]
  /\ gone \in [Conns -> {"no", "fin", "rst"}] /\ link \in [Conns -> {"fresh", "written", "reset"}]
  /\ sends \in 0..MaxSends /\ edge \subseteq Conns \cup {Listen}
  /\ InboxTypeOK

NetInit ==
  /\ queue = <<>> /\ conn = [c \in Conns |-> "away"] /\ gone = [c \in Conns |-> "no"]
  /\ inbox = [c \in Conns |-> <<>>] /\ sends = 0
  /\ link = [c \in Conns |-> "fresh"] /\ edge = {}

-----------------------------------------------------------------------------
(* Clients *)

\* Only l4a.c asks for edges.
Happened(e) == edge' = IF prog = "address" THEN edge \cup {e} ELSE edge

Connect(c) ==
  /\ conn[c] = "away" /\ (\A d \in 1..c - 1 : conn[d] # "away")
  /\ conn' = [conn EXCEPT ![c] = "queued"]
  /\ queue' = Append(queue, c) /\ Happened(Listen)
  /\ UNCHANGED <<gone, inbox, sends, link>>

\* "part" is the beginning of a message whose rest never comes.
Says(c, m) ==
  /\ conn[c] \in {"queued", "open"} /\ gone[c] = "no" /\ sends < MaxSends
  /\ inbox[c] # <<>> => inbox[c][Len(inbox[c])] # "part"
  /\ inbox' = [inbox EXCEPT ![c] = Append(@, m)] /\ sends' = sends + 1
  /\ Happened(c) /\ UNCHANGED <<queue, conn, gone, link>>

\* To leave with answers unread resets the connection.
Leave(c) ==
  /\ conn[c] \in {"queued", "open"} /\ gone[c] = "no"
  /\ \E how \in {"fin"} \cup (IF link[c] = "written" THEN {"rst"} ELSE {}) : gone' = [gone EXCEPT ![c] = how]
  /\ Happened(c) /\ UNCHANGED <<queue, conn, inbox, sends, link>>

-----------------------------------------------------------------------------
(* The calls of a server *)

Available(c) == inbox[c] # <<>> \/ gone[c] # "no"

\* A whole message is there; or less, and its end.
Whole(c) == inbox[c] # <<>> /\ Head(inbox[c]) # "part"
CutOff(c) == ~Whole(c) /\ gone[c] # "no"
Silent(c) == ~Whole(c) /\ gone[c] = "no"

Consume(c) == inbox' = [inbox EXCEPT ![c] = IF @ = <<>> THEN @ ELSE Tail(@)]

\* A write after a reset can fail or raise SIGPIPE.
WriteFails(c) == gone[c] = "rst" \/ link[c] = "reset"
Written(c) == link' = [link EXCEPT ![c] = IF gone[c] = "no" THEN "written" ELSE "reset"]

-----------------------------------------------------------------------------
(* The servers *)

CONSTANT MaxClients   \* MAX_CLIENTS, or MAX_CLIENT_COUNT

ASSUME ServerAssumption == {MaxConns, MaxSends} \subseteq Nat /\ MaxClients \in Nat \ {0}

None == 0   \* a slot that is free

VARIABLES at, events, cur,     \* where the server is, the events it has yet to handle, the
                               \* connection that it handles
          slot, watched,       \* clients[], and the connections that epoll watches
          ind,                 \* the slot it writes to in turn
          relayed, since,      \* the senders of all messages; how many before a client joined
          heard,               \* the senders that were relayed to each; in "city" its last report
          owner, junk          \* "city": the owner; whether unset slots are not zero

srvVars == <<at, events, cur, slot, watched, ind, relayed, since, heard, owner, junk>>
serversVars == <<prog, netVars, srvVars>>

Table == 1..MaxClients
Owners == {"p", "g"}

ServersTypeOK ==
  /\ prog \in {"address", "chat", "city", "calc"} /\ NetTypeOK
  /\ at \in {"wait", "handle", "hello", "read", "relay", "ended"}
  /\ events \subseteq Conns \cup {Listen} /\ cur \in Conns \cup {None} /\ ind \in 0..MaxClients
  /\ slot \in [Table -> Conns \cup {None}] /\ watched \subseteq Conns
  /\ relayed \in Seq(Conns) /\ since \in [Conns -> 0..Len(relayed)]
  /\ heard \in [Conns -> IF prog = "city" THEN Seq(Owners) ELSE Seq(Conns)]
  /\ owner \in Owners \cup {"?"} /\ junk \in BOOLEAN

\* The arrays of anotherone.c have no initial value.
ServersInit ==
  /\ prog \in {"address", "chat", "city", "calc"} /\ NetInit
  /\ at = "wait" /\ events = {} /\ cur = None /\ ind = 0
  /\ slot = [i \in Table |-> None] /\ watched = {}
  /\ relayed = <<>> /\ since = [c \in Conns |-> 0] /\ heard = [c \in Conns |-> <<>>]
  /\ owner \in (IF prog = "city" THEN {"?", "p"} ELSE {"?"})
  /\ junk \in (IF prog = "city" THEN BOOLEAN ELSE {FALSE})

\* What clients send: an address and texts; a key and messages; reports of a city; a request.
Messages(first) ==
  CASE prog = "address" -> {"text"}
    [] prog = "chat" -> IF first THEN {"key", "wrong"} ELSE {"whole", "part"}
    [] prog = "city" -> Owners \cup {"part"}
    [] prog = "calc" -> IF first THEN {"whole", "part"} ELSE {}

Client(c) ==
  /\ Connect(c) \/ Leave(c) \/ \E m \in Messages(link[c] = "fresh" /\ inbox[c] = <<>>) : Says(c, m)
  /\ at # "ended" /\ UNCHANGED <<prog, srvVars>>

-----------------------------------------------------------------------------
(* The loop *)

tables == <<slot, watched, relayed, since, heard, owner>>
fixed == <<prog, sends, gone, junk>>

Goes(from, to) == at = from /\ at' = to /\ UNCHANGED fixed

\* ERR, SIGPIPE or SIGINT: the sockets are closed with the process, and nothing is left.
Exit ==
  /\ at' = "ended" /\ conn' = [c \in Conns |-> "shut"] /\ inbox' = [c \in Conns |-> <<>>]
  /\ queue' = <<>> /\ edge' = {} /\ events' = {} /\ cur' = None /\ ind' = 0
  /\ slot' = [i \in Table |-> None] /\ watched' = {}
  /\ relayed' = <<>> /\ since' = [c \in Conns |-> 0] /\ heard' = [c \in Conns |-> <<>>]
  /\ UNCHANGED <<fixed, link, owner>>

Ready ==
  LET readable == {c \in watched : Available(c)} \cup (IF queue = <<>> THEN {} ELSE {Listen}) IN
  IF prog = "address" THEN readable \cap edge ELSE readable

Wait ==
  /\ Goes("wait", "handle") /\ Ready # {} /\ events' = Ready /\ edge' = edge \ Ready
  /\ UNCHANGED <<queue, conn, inbox, link, cur, ind, tables>>

Return ==
  /\ events = {} /\ Goes("handle", "wait")
  /\ cur' = None /\ ind' = 0 /\ UNCHANGED <<queue, conn, inbox, link, edge, events, tables>>

\* One accept for an event; anotherone.c closes what it has no slot for.
Accept ==
  /\ Listen \in events /\ events' = events \ {Listen}
  /\ cur' = Head(queue) /\ queue' = Tail(queue)
  /\ LET full == prog = "city" /\ \A i \in Table : slot[i] # None IN
       /\ Goes("handle", IF full THEN "handle" ELSE "hello")
       /\ conn' = [conn EXCEPT ![cur'] = IF full THEN "shut" ELSE "open"]
  /\ UNCHANGED <<inbox, link, edge, ind, tables>>

FaultyClientEvent ==
  /\ \E c \in events \ {Listen} : cur' = c /\ events' = {}
  /\ Goes("handle", "read") /\ UNCHANGED <<queue, conn, inbox, link, edge, ind, tables>>

ClientEvent ==
  /\ \E c \in events \ {Listen} : cur' = c /\ events' = events \ {c}
  /\ Goes("handle", "read") /\ UNCHANGED <<queue, conn, inbox, link, edge, ind, tables>>

\* SIGINT, which all but l4a.c let in where they wait only.
Interrupt == (at = "wait" \/ (prog = "address" /\ at # "ended")) /\ Exit

\* The connection takes slot i and is watched; epoll reports what is there already.
TakeSlot(i) ==
  /\ slot' = [slot EXCEPT ![i] = cur] /\ watched' = watched \cup {cur}
  /\ edge' = IF prog = "address" /\ (Len(inbox[cur]) > 1 \/ gone[cur] # "no")
             THEN edge \cup {cur} ELSE edge \ {cur}

Free == {i \in Table : slot[i] = None}
FirstFree == CHOOSE i \in Free : \A j \in Free : i <= j
CloseIt == conn' = [conn EXCEPT ![cur] = "shut"]

-----------------------------------------------------------------------------
(* l4a.c *)

\* The first byte is an address.  Who gives none that is free is refused, and the -1 that
\* stands for it ends the server; so does a client that leaves before.
AddressHello ==
  /\ prog = "address" /\ at = "hello" /\ Available(cur)
  /\ \/ /\ inbox[cur] # <<>> /\ \E i \in Free : TakeSlot(i)
        /\ Goes("hello", "handle") /\ Consume(cur) /\ Written(cur)
        /\ UNCHANGED <<queue, conn, events, cur, ind, relayed, since, heard, owner>>
     \/ Exit

\* One read for an edge: all that is there goes back, or as much as the buffer takes, and no
\* edge comes for the rest.  The end of a client is passed over, and its slot stays taken.
AddressRead ==
  /\ prog = "address" /\ at = "read" /\ Available(cur)
  /\ IF inbox[cur] = <<>> THEN Goes("read", "handle") /\ UNCHANGED <<queue, conn, inbox, link, edge, events, cur, ind, tables>>
     ELSE \/ /\ Goes("read", "handle") /\ Written(cur)
             /\ \E left \in {<<>>, <<"rest">>} : inbox' = [inbox EXCEPT ![cur] = left]
             /\ UNCHANGED <<queue, conn, edge, events, cur, ind, tables>>
          \/ WriteFails(cur) /\ Exit

-----------------------------------------------------------------------------
(* sop-chat (1).c *)

\* What is cut off leaves the rest of the buffer as it was, a former key perhaps.
ChatHello ==
  /\ prog = "chat" /\ at = "hello" /\ ~Silent(cur) /\ Goes("hello", "handle") /\ Consume(cur)
  /\ \E authorised \in IF Whole(cur) THEN {Head(inbox[cur]) = "key"} ELSE BOOLEAN :
       IF authorised /\ Free # {}
       THEN /\ TakeSlot(FirstFree) /\ Written(cur) /\ since' = [since EXCEPT ![cur] = Len(relayed)]
            /\ UNCHANGED conn
       ELSE CloseIt /\ UNCHANGED <<link, edge, slot, watched, since>>
  /\ UNCHANGED <<queue, events, cur, ind, relayed, heard, owner>>

\* A message, whole or cut off by an end; a reset is an error.
ChatRead ==
  /\ prog = "chat" /\ at = "read" /\ inbox[cur] # <<>> /\ ~Silent(cur)
  /\ IF ~Whole(cur) /\ gone[cur] = "rst" THEN Exit
     ELSE /\ Goes("read", "relay") /\ Consume(cur) /\ relayed' = Append(relayed, cur) /\ ind' = 1
          /\ UNCHANGED <<queue, conn, link, edge, events, cur, slot, watched, since, heard, owner>>

FaultyChatGone ==
  /\ prog = "chat" /\ at = "read" /\ inbox[cur] = <<>> /\ gone[cur] # "no"
  /\ IF gone[cur] = "rst" THEN Exit
     ELSE /\ Goes("read", "handle") /\ CloseIt /\ watched' = watched \ {cur}
          /\ UNCHANGED <<queue, inbox, link, edge, events, cur, ind, slot, relayed, since, heard, owner>>

ChatGone ==
  /\ prog = "chat" /\ at = "read" /\ inbox[cur] = <<>> /\ gone[cur] # "no"
  /\ IF gone[cur] = "rst" THEN Exit
     ELSE /\ Goes("read", "handle") /\ CloseIt /\ watched' = watched \ {cur}
          /\ slot' = [i \in Table |-> IF slot[i] = cur THEN None ELSE slot[i]]
          /\ UNCHANGED <<queue, inbox, link, edge, events, cur, ind, relayed, since, heard, owner>>

FaultyNextSlot ==
  /\ ind' = IF ind + 1 >= MaxClients THEN 0 ELSE ind + 1
  /\ Goes("relay", IF ind + 1 >= MaxClients THEN "handle" ELSE "relay")

\* The loop over the slots goes on, or is over.
NextSlot ==
  /\ ind' = IF ind = MaxClients THEN 0 ELSE ind + 1
  /\ Goes("relay", IF ind = MaxClients THEN "handle" ELSE "relay")

\* A write that fails ends the server.
ChatRelay ==
  /\ prog = "chat" /\ at = "relay"
  /\ LET c == slot[ind] IN
       IF c \in {None, cur} THEN NextSlot /\ UNCHANGED <<queue, conn, inbox, link, edge, events, cur, tables>>
       ELSE \/ /\ NextSlot /\ Written(c) /\ heard' = [heard EXCEPT ![c] = Append(@, cur)]
               /\ UNCHANGED <<queue, conn, inbox, edge, events, cur, slot, watched, relayed, since, owner>>
            \/ WriteFails(c) /\ Exit

-----------------------------------------------------------------------------
(* anotherone.c *)

\* A connection to its other, local, listening socket is of no client that it knows.
CityLocal == prog = "city" /\ at = "handle" /\ Listen \in events /\ Exit

\* An owner that differs is told to all others.
Report(from, m) ==
  IF m \in Owners \ {owner} THEN owner' = m /\ ind' = 1 /\ Goes(from, "relay")
  ELSE Goes(from, "handle") /\ UNCHANGED <<owner, ind>>

Told(c, m) == heard' = [heard EXCEPT ![c] = IF m \in Owners THEN <<m>> ELSE @]

\* The first report goes back; of one that is cut off the rest is what data[] held.
CityHello ==
  /\ prog = "city" /\ at = "hello" /\ ~Silent(cur) /\ Consume(cur) /\ TakeSlot(FirstFree)
  /\ \E m \in IF Whole(cur) THEN {Head(inbox[cur])} ELSE Owners \cup {"bad"} :
       Told(cur, m) /\ Report("hello", m)
  /\ Written(cur) /\ UNCHANGED <<queue, conn, events, cur, relayed, since>>

\* A client that has gone is not removed, and epoll reports it again and again.
CityRead ==
  /\ prog = "city" /\ at = "read"
  /\ \/ /\ Whole(cur) /\ Consume(cur) /\ Written(cur)
        /\ Told(cur, Head(inbox[cur])) /\ Report("read", Head(inbox[cur]))
     \/ /\ CutOff(cur) /\ gone[cur] = "fin" /\ Consume(cur) /\ Goes("read", "handle")
        /\ UNCHANGED <<link, ind, heard, owner>>
  /\ UNCHANGED <<queue, conn, edge, events, cur, slot, watched, relayed, since>>

\* A read or a write that fails, but with EPIPE, ends the server.
CityFails ==
  /\ prog = "city" /\ at = "read" /\ WriteFails(cur)
  /\ Whole(cur) \/ gone[cur] = "rst"
  /\ Exit

\* The slots past the last client are written to as well unless they are zero.
CityRelay ==
  /\ prog = "city" /\ at = "relay"
  /\ LET c == slot[ind] IN
       \/ /\ c = cur \/ (c = None /\ ~junk)
          /\ NextSlot /\ UNCHANGED <<queue, conn, inbox, link, edge, events, cur, tables>>
       \/ c = None /\ junk /\ Exit
       \/ /\ c \notin {None, cur} /\ NextSlot /\ Written(c) /\ Told(c, owner)
          /\ UNCHANGED <<queue, conn, inbox, edge, events, cur, slot, watched, relayed, since, owner>>
       \/ c \notin {None, cur} /\ WriteFails(c) /\ Exit

-----------------------------------------------------------------------------
(* 1_server.c *)

\* One request, answered unless it is cut off.
CalcServe ==
  /\ prog = "calc" /\ at = "hello" /\ ~Silent(cur)
  /\ Goes("hello", "handle") /\ Consume(cur) /\ CloseIt
  /\ IF Whole(cur) THEN Written(cur) ELSE UNCHANGED link
  /\ UNCHANGED <<queue, edge, events, cur, ind, tables>>

-----------------------------------------------------------------------------
Server ==
  \/ Wait \/ Return \/ Accept \/ ClientEvent
  \/ AddressHello \/ AddressRead
  \/ ChatHello \/ ChatRead \/ ChatGone \/ ChatRelay
  \/ CityLocal \/ CityHello \/ CityRead \/ CityFails \/ CityRelay
  \/ CalcServe

ServersNext == Server \/ Interrupt \/ \E c \in Conns : Client(c)

\* The server runs until it blocks; clients need not do anything.
ServersSpec == ServersInit /\ [][ServersNext]_serversVars /\ WF_serversVars(Server)

-----------------------------------------------------------------------------
(* Properties *)

\* Between two events a connection is open just when it is watched and has a slot, one only:
\* none is open that the server has lost track of, none is used after close; that of a client
\* that has left l4a.c or anotherone.c is open still, and has its slot (sop-chat (1).c:91, 111-124, 154-174;
\* anotherone.c:71-94; 1_server.c:86; l4a.c:189-200).
SlotsAgree ==
  at \in {"wait", "handle"} =>
    /\ watched = {slot[i] : i \in Table} \ {None}
    /\ watched = {c \in Conns : conn[c] = "open"}
    /\ \A i, j \in Table : slot[i] = slot[j] /\ slot[i] # None => i = j

\* The messages of the first n that are for c: those since it joined, but its own.
Others(c, n) == {k \in since[c] + 1..n : relayed[k] # c}

\* c has got just these, each at the place it has among them.
GotFirst(c, n) ==
  /\ Len(heard[c]) = Cardinality(Others(c, n))
  /\ \A k \in Others(c, n) : heard[c][Cardinality(Others(c, k))] = relayed[k]

\* A client of the chat has got each message since it joined, but its own, once and in order
\* (sop-chat (1).c:102-109); what a client of the cities knows of the owner is what the
\* server knows (anotherone.c:131-144).
Relayed ==
  at \in {"wait", "handle"} =>
    /\ prog = "chat" => \A c \in watched : GotFirst(c, Len(relayed))
    /\ prog = "city" => \A c \in watched : heard[c] \in {<<>>, <<owner>>}

\* A server waits for a client in the middle of a read.
Stalled == at \in {"hello", "read"} /\ Silent(cur)

\* In the end the server has ended, or a silent client holds it up, or it has read what was
\* sent, freed the slots of the chat's clients that left, and accepted all that connected.
\* But l4a.c reads once and accepts once for each edge: it has read after the last text of
\* each client, and what that read has left, with the connections left in the queue, may stay
\* there for ever (l4a.c:226, 239-248).
EachServed ==
  <>[](\/ at = "ended" \/ Stalled
       \/ IF prog = "address" THEN \A c \in watched : inbox[c] \in {<<>>, <<"rest">>}
          ELSE /\ \A c \in watched : inbox[c] = <<>> /\ (prog = "chat" => gone[c] = "no")
               /\ queue = <<>>)
=============================================================================
