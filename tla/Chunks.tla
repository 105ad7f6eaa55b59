------------------------------- MODULE Chunks -------------------------------
(***************************************************************************)
(* Lab - 4/task.c, and task.c of the root: threads take the chunks of a    *)
(* file by a counter under a mutex and put each in front of a list of      *)
(* their own; a thread joins them one by one, appends their lists and      *)
(* prints and frees the result.  A chunk is its number.                    *)
(*                                                                         *)
(* An operator named Faulty... is the definition that follows it with a    *)
(* plausible mistake in it; no specification uses one.                     *)
(***************************************************************************)
EXTENDS Integers, Sequences

CONSTANTS Workers,    \* n, the threads
          MaxSize,    \* bound: the longest file
          MaxParts    \* bound: the largest m

VARIABLES size, parts,     \* st_size and m
          next_chunk, error_line,
          mutex,           \* the thread that holds it, 0 for none
          worker,          \* where each thread is
          chunk_start,     \* the chunk it reads
          head,            \* the list of each
          concat,          \* where the joining thread is
          joined,          \* the threads it has joined
          list,            \* head of the joined list
          exit             \* how the program has ended

shared == <<next_chunk, error_line, mutex>>
joining == <<concat, joined, list, exit>>
chunkVars == <<size, parts, shared, worker, chunk_start, head, joining>>

WorkerIds == 1..Workers
chunk == size \div parts
ChunkNumbers == 0..MaxSize - 1

TypeOK ==
  /\ size \in 0..MaxSize /\ parts \in 1..MaxParts
  /\ next_chunk \in 0..MaxSize /\ error_line \in BOOLEAN /\ mutex \in 0..Workers
  /\ worker \in [WorkerIds -> {"start", "lock", "take", "advance", "read", "fail", "error", "done"}]
  /\ chunk_start \in [WorkerIds -> ChunkNumbers \cup {0}]
  /\ head \in [WorkerIds -> Seq(ChunkNumbers)]
  /\ concat \in {"join", "exit", "done"}
  /\ joined \in 0..Workers /\ list \in Seq(ChunkNumbers)
  /\ exit \in {"", "success", "failure", "SIGFPE"}

Init ==
  /\ size \in 0..MaxSize /\ parts \in 1..MaxParts
  /\ next_chunk = 0 /\ error_line = FALSE /\ mutex = 0
  /\ worker = [t \in WorkerIds |-> "start"]
  /\ chunk_start = [t \in WorkerIds |-> 0]
  /\ head = [t \in WorkerIds |-> <<>>]
  /\ concat = "join" /\ joined = 0 /\ list = <<>> /\ exit = ""

-----------------------------------------------------------------------------
(* thread_work *)

Goes(t, from, to) ==
  /\ exit = "" /\ worker[t] = from /\ worker' = [worker EXCEPT ![t] = to]
  /\ UNCHANGED <<size, parts>>

\* malloc succeeds or fails.
Start(t) ==
  /\ Goes(t, "start", "lock") \/ Goes(t, "start", "fail")
  /\ UNCHANGED <<shared, chunk_start, head, joining>>

Lock(t) ==
  /\ Goes(t, "lock", "take")
  /\ mutex = 0 /\ mutex' = t
  /\ UNCHANGED <<next_chunk, error_line, chunk_start, head, joining>>

\* With fewer bytes than parts a chunk has none, and the division fails.
Divide(t) ==
  /\ chunk = 0 /\ Goes(t, "take", "done")
  /\ exit' = "SIGFPE"
  /\ UNCHANGED <<shared, chunk_start, head, concat, joined, list>>

NoMore(t) ==
  /\ chunk # 0 /\ next_chunk >= size \div chunk /\ Goes(t, "take", "done")
  /\ mutex' = 0
  /\ UNCHANGED <<next_chunk, error_line, chunk_start, head, joining>>

FaultyTake(t) ==
  /\ chunk # 0 /\ next_chunk < size \div chunk /\ Goes(t, "take", "advance")
  /\ chunk_start' = [chunk_start EXCEPT ![t] = next_chunk]
  /\ mutex' = 0
  /\ UNCHANGED <<next_chunk, error_line, head, joining>>

Take(t) ==
  /\ chunk # 0 /\ next_chunk < size \div chunk /\ Goes(t, "take", "advance")
  /\ chunk_start' = [chunk_start EXCEPT ![t] = next_chunk]
  /\ UNCHANGED <<shared, head, joining>>

Advance(t) ==
  /\ Goes(t, "advance", "read")
  /\ next_chunk' = next_chunk + 1 /\ mutex' = 0
  /\ UNCHANGED <<error_line, chunk_start, head, joining>>

\* pread, and the chunk in front of the list; or pread fails.
Read(t) ==
  /\ \/ Goes(t, "read", "lock") /\ head' = [head EXCEPT ![t] = <<chunk_start[t]>> \o @]
     \/ Goes(t, "read", "fail") /\ UNCHANGED head
  /\ UNCHANGED <<shared, chunk_start, joining>>

\* No memory for the node of the list.
NoNode(t) ==
  /\ Goes(t, "read", "done") /\ exit' = "failure"
  /\ UNCHANGED <<shared, chunk_start, head, concat, joined, list>>

LockError(t) ==
  /\ Goes(t, "fail", "error")
  /\ mutex = 0 /\ mutex' = t
  /\ UNCHANGED <<next_chunk, error_line, chunk_start, head, joining>>

\* The thread ends, and what it has read stays in its list.
Error(t) ==
  /\ Goes(t, "error", "done")
  /\ error_line' = TRUE /\ mutex' = 0
  /\ UNCHANGED <<next_chunk, chunk_start, head, joining>>

Worker(t) ==
  \/ Start(t) \/ Lock(t) \/ Divide(t) \/ NoMore(t) \/ Take(t) \/ Advance(t) \/ Read(t) \/ NoNode(t)
  \/ LockError(t) \/ Error(t)

-----------------------------------------------------------------------------
(* concat_and_print, and main after it *)

\* An empty list is skipped; another one goes behind the tail.
Join ==
  /\ exit = "" /\ concat = "join" /\ worker[joined + 1] = "done"
  /\ joined' = joined + 1 /\ list' = list \o head[joined + 1]
  /\ concat' = IF joined' < Workers THEN "join" ELSE "exit"
  /\ UNCHANGED <<size, parts, shared, worker, chunk_start, head, exit>>

Exit ==
  /\ exit = "" /\ concat = "exit" /\ concat' = "done"
  /\ exit' = IF error_line THEN "failure" ELSE "success"
  /\ UNCHANGED <<size, parts, shared, worker, chunk_start, head, joined, list>>

Concat == Join \/ Exit

-----------------------------------------------------------------------------
Next == Concat \/ \E t \in WorkerIds : Worker(t)

Spec == Init /\ [][Next]_chunkVars

\* Every thread runs until it blocks.
FairSpec == Spec /\ WF_chunkVars(Concat) /\ \A t \in WorkerIds : WF_chunkVars(Worker(t))

-----------------------------------------------------------------------------
(* Properties *)

\* The list printed and freed holds no chunk twice, and every chunk if the program
\* reports success; what a failing thread took is missing, and reported
\* (task.c:82-100, 127-144, 214).
EveryChunkOnce ==
  /\ \A j, k \in DOMAIN list : list[j] = list[k] => j = k
  /\ exit = "success" => {list[k] : k \in DOMAIN list} = 0..(size \div chunk) - 1

\* main always gets an exit status.
Ends == <>(exit # "")
=============================================================================
