# OPS in TLA+

Models, model-checking runs and proofs for the programs of the OPS repository:
the laboratories (`Lab - 2` to `Lab - 8`) and the lecture codes of a course on
operating systems, in C. Every program is small and stands alone, and nearly all
of them are about the same thing: processes and threads that share memory,
semaphores, mutexes, queues, pipes, signals or a network, and go wrong in an
interleaving that no run of the program shows.

Paths below are relative to `src/`. `03_synchro` stands for
`Lecture Codes/03_synchro`.

## The system

| Part | State | Operations and interaction | What is hard | What makes it correct |
|---|---|---|---|---|
| UDP file transfer, `Lab - 8/2_client.c`, `2_server.c` | part number, tries and timer of a client; table of address slots of the server | the client sends a part and waits for its echo, SIGALRM ends the wait; the server finds or allocates a slot, prints the part that follows, echoes | loss, repetition, reordering, early alarm, server restart, slots never given back | a part confirmed was printed; parts in order; no client retries for ever |
| Bounded buffers, `03_synchro/08`, `12`, `15` | ring of cells, two indices, counts; semaphores or a mutex with condition variables | a producer and a consumer, threads in 08, parent and child in 12 and 15 | order of waits and posts, lost and spurious wakeups, semaphores destroyed by both processes | a FIFO channel; nobody sleeps for ever |
| Counter programs, `03_synchro/01`-`07`, `11`, `14` | a counter and a lock | one side increments, the other decrements, each under the lock | store buffers, lost updates, spinning, a mutex private to its process | mutual exclusion, 0 at the end, bounded waiting |
| Readers and writers, `03_synchro/09` | two semaphores and a count | the first reader claims the buffer, the last one gives it back | count, test and wait in three steps; a writer that starves | many readers or one writer; the count is exact |
| Philosophers, `03_synchro/16` | a semaphore per chopstick | left, then right | circular wait | neighbours never eat together; the circle is the only deadlock |
| Integration in a named memory, `Lab - 7/examp.c` | a named semaphore, a named memory object with a mutex and a count of workers | processes started on their own create or join, work, leave; the last one prints and unlinks | timeouts, exits with the semaphore held, names unlinked under those who wait | one result, of all the work; nobody waits for ever |
| Monte Carlo in shared memory, `Lab - 7/secondexamp.c` | semaphore, robust mutex, counter of processes | as before; SIGINT raises a flag | `sem_post` after a `sem_trywait` that failed, processes killed with the mutex in hand | the last one out prints the points of all |
| Board game, `Lab - 7/Tutorial/server.c`, `client.c` | shared board, robust mutex, flag of the signal thread | clients take fields, the server shows them | a client exits with the mutex in hand, the board is used before it is ready, the mutex destroyed in use | each field scored once |
| Samples, `Lab - 7/Tutorial/prog1.c` | a cell and a line per child | children write, the parent waits and adds up | none that the waiting does not settle | the mean is of all samples |
| Baton, `Lab - 7/Example/task.c` | the position that goes, in the named memory "/game" | children draw in turns, the parent shows the round | what an earlier run left in the memory | a round has one number of each |
| Bingo, `Lab - 6/Tutorial/Bingo.c` | two queues, count of children | parent sends numbers, children answer once; a notification thread empties the queue, SIGCHLD counts | notification lost between emptying and asking again, full queues | no answer is left in the queue; the parent ends |
| Tasks over queues, `Lab - 6/example.c` | a queue of tasks, a result queue per worker, its registration | the parent sends, workers answer, the handler of SIGRTMIN registers and empties the queue | the handler changes `errno` under the loop of `wait` | every result printed once |
| Server and clients over queues, `Lab - 6/Example Task/` | a queue per operation, one per client, registrations | a notification thread per message answers; reading thread and handler of a client share its queue | one notification for a burst; two takers of one answer | an answer is shown once, to who asked |
| Queue lectures, `Lecture Codes/02_mqueue/` | one queue each | notification by signal or thread, timeouts, priorities | notification before the registration | nothing stays unnoticed |
| Grading, `Lab - 5/Lab Task/ops-lab.c` | a pipe to the teacher, one to each student, counts of stages | roll call, stages with grades, final messages | messages that overtake in the shared pipe, the alarm before a read, students that have left | grades and stages agree |
| Roulette, `Lab - 5/Example Tasks/example.c` | two pipes per player | players bet, the croupier draws | players leave between the parts of a bet | a number is sent to those who have bet |
| Frames, `Lab - 5/Tutorial/Pipe/prog22a.c` | a pipe per child, a shared one | on SIGINT a letter to a child, a frame back | children exit in their handler, reads that are interrupted | no frame is torn |
| FIFOs and pipes, `Lecture Codes/01_pipes/` | open ends | two processes open FIFOs and exchange a text | the order of the opens | both get through, or neither |
| Signal labs, `Lab - 2/` | pending signals, dispositions, counters | children signal the parent or the group, which count; a copy is interrupted | signals merge, come too early or interrupt a call; exit codes have 8 bits | nothing copied is lost; counts; termination |
| Thread labs, `Lab - 3/` | array with a mutex per cell, bins, flags of signals | swaps, printing threads, throwers | locking order, the same mutex twice, merged signals | no lost value; no deadlock |
| File chunk labs, `task.c`, `Lab - 4/` | next chunk, a list per thread | threads take chunks, a thread joins the lists | failing reads, the tail of the file | every chunk once |
| TCP servers, `Lab - 8/l4a.c`, `anotherone.c`, `sop-chat (1).c`, `1_server.c`, `website_server.c`; `Lecture Codes/04_net/` | client table, epoll set | accept, authorise, echo or relay | edge triggering, full tables, slots not freed, blocking reads, clients that leave in the middle of a relay | table, epoll set and open connections agree; all others hear a message once |

`Lab - 3/Lab/sop-ca.c` is a copy of `Lab - 3/sop-ca.c`, and `task.c` of the root
a version of `Lab - 4/task.c`. `PROJECT.json` lists every program with what is
modelled of it.

## Modules

| Module | Models |
|---|---|
| `PartDelivery` | what the transfer promises: parts printed in order, confirmed only after |
| `UdpTransfer` | `2_client.c` and `2_server.c` with network and timer |
| `MCUdpTransfer` | two clients with files of three parts and of one |
| `FifoChannel` | what a bounded buffer promises |
| `Ring` | the cells and the wrapping index of 08, 12 and 15 |
| `SemBuffer`, `CvBuffer` | 12, and the loops of 08; 15 |
| `Buffers` | composes the two |
| `CounterLocks` | 01 to 07, 11 and 14: `prog` is the program that runs |
| `RwLock` | what a readers-writers lock promises |
| `ReadersWriters`, `Philosophers` | 09, 16 |
| `LectureLocks` | composes the two |
| `SharedIntegral` | `Lab - 7/examp.c` |
| `MonteCarlo`, `BoardGame`, `Baton`, `ForkJoin` | `Lab - 7/secondexamp.c`; `Tutorial/server.c` with `client.c`; `Example/task.c`; `Tutorial/prog1.c` |
| `SharedMemoryLabs` | composes these five |
| `QueueNotify` | `Lab - 6/Tutorial/Bingo.c`, `02_mqueue/08` and `09`: `prog` is the program that runs |
| `TaskQueue`, `TaskServer`, `SumQueue` | `Lab - 6/example.c`; `Example Task/task_programs`; `Example Task/task.c` |
| `QueueLabs` | composes these four |
| `SwapArray`, `Throwers`, `SquareRoots` | `Lab - 3/sop-ca.c`, `prog18.c`, `example.c` |
| `Chunks` | `Lab - 4/task.c`, and the earlier version of it in the root |
| `ThreadLabs` | composes these four |
| `Grading`, `Roulette`, `Frames` | `Lab - 5`: `ops-lab.c`, `Example Tasks/example.c`, `Tutorial/Pipe/prog22a.c` |
| `SignalCount`, `BlockCopy`, `ExitCodes` | `Lab - 2`: `Example Task Lab 2/Task.c`, `Tutorial/prog16b.c`, `Last Year/task.c` |
| `FifoOrder` | `01_pipes/12` and `13` |
| `ProcessLabs` | composes these seven |
| `TcpServers` | `l4a.c`, `sop-chat (1).c`, `anotherone.c`, `1_server.c`: `prog` is the server that runs; first the clients, sockets and epoll as these see them (mostly external) |
| `NetworkProofs` (of `UdpTransfer` and `TcpServers`), `BufferProofs`, `CounterLocksProofs`, `LectureLocksProofs`, `QueueLabsProofs`, `ThreadLabsProofs`, `SharedMemoryProofs`, `ProcessLabsProofs` | proofs |

The composing modules hold no state of the programs: a behaviour runs one of them, and
the variables of the others keep their one initial value. So one run of TLC covers
programs of one kind, and its state space is the sum of theirs, not the product.

Everywhere a thread or process has a program counter, and an action is one call
of the library or one access to shared memory, with the local work that follows
it. Local work that nobody else can see is part of the step before or after it:
`PStore` writes cell and index together because only the producer uses `in`.
Messages and items are numbers, and what is printed is left out. Operators named
`Faulty...` are plausible mistakes; `PROJECT.json` names them, each with the
property that finds it.

**UdpTransfer.** `pc`, `chunkNo`, `counter` and `timer` are the locals of
`doClient` and `sendAndConfirm` with the interval timer; `con` is the server's
table; `toServer[c]` and `toClient[c]` hold what the network may deliver. On an
unreliable network a datagram sent may arrive later, again, or never: it stays
in the set, and nothing forces its receipt. `LostAlarm` is the alarm before
`recv`; `Restart` is the server after an error of its own. The action of a datagram is
chosen by `findIndex`: `TableFull`, `TooEarly`, `TakePart`, `EchoOld`. `printed` and `best`
are history: the parts of an address printed since it was last given a slot, in their order, and the
highest part printed. A part that is printed twice for one slot is twice in `printed`. When the slot is gone
(after the last part, an EPIPE or a restart) the code knows nothing of the file any more and prints it anew.

**SemBuffer, CvBuffer.** One action per semaphore or mutex operation. In
`CvBuffer` a process is `asleep` in `pthread_cond_wait`, which gives up the mutex,
and a signal sends it to `relock`. `SpuriousWakeup` does so unasked.
`DestroyedUnused` covers the semaphores that parent and child both destroy.

**CounterLocks.** The lectures are built without optimisation (no build type in
any `CMakeLists.txt`), so each access of the source is one of the machine. A
plain store waits in the store buffer of its thread, `Drain` brings the oldest to
memory, and an atomic one empties the buffer first. So the model has the defect
of 02 that `99_reordering.c` shows. In 14 `pthread_mutexattr_setpshared` is
commented out (line 105): the mutex excludes but does not wake the other process,
which may sleep for ever.

**ReadersWriters, Philosophers.** As the code; `Count` and `Claim` are separate, so
that the first reader holds `mtx` while it waits for the writer. Both `nanosleep`
calls of 16 have an invalid argument and return at once.

**SharedIntegral.** Objects and their names are separate: `sem[p]` and `mem[p]` are
what process p has opened, `semName` and `memName` what the names mean now. Unlinking
clears the name and leaves the object. A process that exits through `ERR` keeps
what it held (`failed`, or `expired` in `finish`); one that reads an object
without size is `killed` by SIGBUS. `workers` is loaded and stored in separate steps.
`macros.h`, which defines `ERR`, is not in the repository: `ERR` is taken to exit,
as in the other programs. `randomize_points` (43-56) is left out: its loop counter
also counts the hits, so it returns `N` or `N + 1` and never the number of points
hit (line 41). No property is about it.

**MonteCarlo.** Memories and names are separate as in `SharedIntegral`. A process may be
killed at any step; the robust mutex then goes to the next one, which makes it consistent
(`Locked`) but does not take the dead one out of the count of workers. `sem_trywait` tells
who initialises, but everybody posts, so a later one may initialise again: such behaviours, and
those that use the mutex before it is made, are undefined in the code and end there (`Sound`, `early`).

**BoardGame.** A client is killed, or makes a mistake and exits, with the mutex in hand
(`LockField` to `UnlockField`); `Sighandling` is the server's signal thread. Nothing tells
a client that the board is ready: `early` marks a behaviour where one came before.

**Baton, ForkJoin.** `left` is what an earlier run left in "/game". In `prog1` the parent
reaps in any order and adds up after the last.

**QueueNotify.** `queued` and `registered` are the queue and `mq_notify`'s one
registration, which a message that comes to the empty queue uses up (`Enqueue`, after
`mq_overview(7)`). `restoring` and `draining` count the notification threads before
`mq_notify` and in their loop: 09 goes from the first to the second, Bingo from the second
to the first. In 08 the main thread does both (`Restore`, `Drain`). `missed` is
history: a notification that nobody will act on, because the signal came before
`sigprocmask`, or the message before `mq_notify` when no thread was left in its loop. Whether a notification thread may
take SIGINT is left to the implementation by POSIX: `Kill` allows both. `numbers` is
`/bingo_out`; which number is drawn is `Receive`'s choice. Bingo's queues start empty,
and one call of its SIGCHLD handler ends before the next begins (a notification thread could run it
beside the main thread, and `children_left--`, 61-77, would be a race).

**TaskQueue.** The handler of SIGRTMIN runs on top of whatever the parent does (`Handler`);
it asks for the next notification before it empties the queue. `AllWaited` is `wait`
without children, `SetErrno` and `TestErrno` the two halves of the loop's condition:
`hasty` is history, and tells that the handler came between them.

**TaskServer.** One notification starts one thread, which asks again (`Restore`), takes one
message (`Receive`) and answers. SIGINT ends the server in one step (`Interrupt`), and the names of
its queues go with it or, before the handler is set and when a thread exits on a closed queue, remain. Messages that come to a queue that is not empty start
none (`unnoticed`). A client's answer is taken by its reading thread or by its handler,
which blocks when the other one was first (`WaitsInHandler`).

**SumQueue.** Server and child share a queue and compete for its one registration.

**SwapArray.** The main thread takes signals in `sigsuspend` only (`Wake`), where the
handlers of all pending ones run: if both came, SIGUSR1 is served and the flag of
SIGUSR2 waits for the next signal. A signal before `pthread_sigmask` leaves its
flag set in `Init`. A swap is two stores (`Swap`, `Store`), so that a printing thread
could see it half done. Signals of one kind merge.

**Throwers, SquareRoots.** A counter incremented under a mutex is still a load and a
store. `throwBall` is any bin, `rand_r` any cell. `stores` is history.

**Chunks.** A chunk is its number. `malloc` and `pread` may fail: the thread
then ends with `error_line` set (`Error`), or the program exits (`NoNode`). The last
`size % chunk` bytes belong to no chunk, and a file of fewer bytes than `m` makes the
chunk empty and the division of line 83 fail (`Divide`). The code has no
promise about either, so the model reports them as they are.

**Grading.** `desk` is the pipe that all students write, `letters` the pipe of each. The
messages are shorter than PIPE_BUF, hence atomic. A result that is not good enough gets
no answer, and its student waits. A read of the teacher is restarted when SIGALRM comes
(`TEMP_FAILURE_RETRY`), so the alarm counts at `Test` only. Any message ends the
roll call and the final of a student. A message that `sscanf` does not match ends in `ERR`, which
kills the group.

**Roulette.** The players are forked from the last seat to the first. The two counters of `ClosePipes`
(`i++` twice, 180-182) leave some descriptors open and close what lies after the array, which may
fail. `MaxGames` bounds the games of a player; what it owns is left out, it may leave after any game.

**Frames.** One flag stands for all SIGINTs since the last letter. A handler ends the
`read` of the header only (`Woken`); `blocked` is inside that read. `fds` loses a child when
a write to it fails with EPIPE.

**SignalCount, BlockCopy, ExitCodes.** A pending signal is a boolean: signals of one kind merge.
In `SignalCount` the parent blocks SIGUSR1 after it has forked, and one that comes before
kills it. In `BlockCopy` a call moves any part of a block; SIGUSR1 ends the parent's
`wait` with EINTR, so that the parent exits before its child. In `ExitCodes` `kill(0, ...)` has
reached the sender when it returns (`Return`).

**FifoOrder.** `open` waits until the other side has the FIFO open or waits in `open` for
it too.

**TcpServers.** `queue` stands for all the listening sockets of a server: `1_server.c` serves its
two alike, and `anotherone.c` takes a connection to its local one for an unknown client and exits
(`CityLocal`). `inbox` holds whole messages, and "part" for the beginning of
one whose rest does not come; in `l4a.c` "rest" is what its one read of 1023 bytes has left, which is
read only when something else happens on the connection (`AddressRead`). `conn` is the server's side of a connection, `gone` how the client left:
with answers unread it resets the connection. After a client has left, the first write is lost and
brings a reset, and a later one may fail or raise SIGPIPE (`WriteFails`). `Ready` is what `epoll_wait`
returns: everything that can be read, in `l4a.c` only what has an edge. The events of one
`epoll_wait` are handled in any order, one accept or one read each; a read of a
client that has sent less than a message blocks the server (`Stalled`). Uninitialised memory is a
choice: `authorised` when the credentials are cut off, `junk` and the first `owner` of `anotherone.c`.
`heard`, `relayed` and `since` are history. Clients of `anotherone.c` report one city; reports
without a city change nothing there and are left out.

## Runs

| Run | Instance | Shows |
|---|---|---|
| `udp_lossy` | 2 clients, files of 3 and 1 parts, 1 slot, 2 tries, every fault | confirmations sound, each part printed once and in order for a slot, refinement of `PartDelivery`, every client ends or is stranded in `recv` |
| `udp_reliable` | the same, 2 slots, no fault, 3 tries | no address has two slots, every file transferred, every slot returned |
| `buffers` | ring of 3, 7 items, either program | FIFO channel, no "item corruption!", semaphores not used after `sem_destroy`, no lost wakeup, both return |
| `counter_locks` | 9 programs, 2 iterations | exclusion, the counter at the join, passing in 03, termination but for 14 |
| `lecture_locks` | 1 writer and 3 readers with 2 rounds; 4 philosophers with 2 meals | lock refinement, exact count, neighbours, only deadlock, termination |
| `shared_memory` | 3 processes of 2 ranges and 1 batch; 3 starts, 1 of them killed; 2 clients with 2 fields; 3 players with 2 rounds; 3 samples | semaphore held once or lost by an exit, results that count everybody once, every process ends but in named cases |
| `queue_labs` | queues of 2, 3 blocks of 1 or 2 messages, 3 children; 2 workers with 2 tasks; 2 clients, 2 operations, 2 requests; one sum | no message unnoticed but in two named windows, `mq_notify` never busy, nothing answered twice, nothing lost but in the named cases, every program ends but in named cases |
| `thread_labs` | 4 cells, 2 printing threads at a time, 3 signals; 2 throwers, 3 balls, 2 bins; 2 threads, 3 roots; 2 threads, files of 0 to 5 bytes in 1 to 3 parts | a permutation is printed, nothing shared out is done twice or lost unreported, each program comes to rest |
| `process_labs` | 3 students with 2 stages, 2 done ones that end it; 3 seats, 2 games; 2 children, 3 interrupts; 3 senders, 3 signals; 2 blocks of 2 pieces; 2 children that draw 1 or 10; FIFOs in both orders | answers, numbers and frames reach the one they are for; merged and early signals lose nothing that counts; every program ends or rests as named |
| `servers` | 3 connections, 4 messages, tables of 2 | table, epoll set and connections agree; relays complete and in order; all that is sent is read but behind a silent client; `l4a.c` has read after the last text of each client, and what that read or the one accept for an edge has left may stay |
| `square_roots` | 2 threads, 3 roots | expected violation, see Findings |
| `shared_integral_init` | 3 processes | expected violation, see Findings |

The liveness property of a composed run has one part per program (`GradingRests`,
`RouletteEnds`, `AllFinished`, ...), which says where the program ends or what it waits for.
The named exceptions are the defects that the code has: a client handler that waits
for the message its reading thread took (`client.c:60`), students that get no grade (`ops-lab.c:121`),
the FIFOs in opposite order, `errno` changed under `wait` (`example.c:259`), a mutex destroyed in use.
The type invariants (`TypeOK` of each model, `TypesOK` of the compositions) hold in all
these instances; `udp_lossy`, `counter_locks` and `lecture_locks` check theirs, because the
proofs rest on them.

Bounds. Seven items take both indices of a ring of three past the end twice. Two
iterations let a thread come back to a lock it has released while the other one waits.
Three processes are what a stale semaphore needs: one that unlinks, one that waits,
one that comes later; three starts are what a semaphore that has grown needs, with one killed in between.
Two clients compete for one slot under loss, which fills the table, and have
one each without it; three children and three blocks are more than a queue of two holds, so
that both queues fill up. Four cells are two pairs to swap, so that a printing thread may
come between them; three signals (`Signals`) are two reversals with a print, or two prints with a reversal;
three balls for two threads make one come back; `MaxSize` and `MaxParts` include files that divide
evenly, that leave a tail, and that are shorter than `m`. With three students two may end the grading while
the third still waits or works. Three seats have a first, a middle and a last one, as the forking needs.
Draws of 1 and 10 include the one that does not fit in a digit, which the parent takes for 0 and one signal more (`CodesDecode`). Three connections overfill a table of two, and four messages are a
greeting of each and one to relay, or two greetings and two to relay. `MaxTries` is 5
in the code, and 1 already gives both a retry and a last try. The proofs remove these
bounds for the properties they are about.

Fairness. A thread or process that can go on does (weak fairness of its steps): the
scheduler starves nobody. Semaphores and mutexes need no more, because in these
programs the number of rounds is bounded. Spurious wakeups stop at
last. Only `mxBallsThrown` is given fairly even to one who meets it locked again and again (strong
fairness of `LockThrown`): main, which polls it without end, sleeps for a second in between. On a lossy network only the client's own steps and its timer are fair, and
`ClientsEnd` therefore excuses the client whose alarm came before `recv`. On a reliable
one receipt is fair too. Store buffers drain. Nobody has to kill a process, to interrupt
or to type, and a client of a TCP server need not connect, send or leave. Runs of programs that may end, or stop in the
deadlock that is their subject, switch off TLC's deadlock check.

## Proofs

All theorems hold for any constants that satisfy the `ASSUME`s of the modules: ring
sizes, items, iterations, clients, files, table sizes, readers, philosophers, workers,
children, messages, batches, players, samples, students, seats, senders, blocks, connections, slots. Every safety invariant of the runs is
a theorem.
Each theorem rests on an inductive invariant, which TLC has checked on the small instance too. Where
a module composes several programs, each has an invariant of its own, lemmas say that its steps
keep it (`...Step`) and that the steps of the others do not touch it (`...Frame`), and `LabInductive`
or `ProcInductive` puts them together.

* `NetworkProofs`, of the file transfer: `ConfirmedIsPrinted` says nothing of echoes on their way. `IInv`
  adds that every echo is of a part printed and that a slot counts the parts printed since the address got it
  (`SlotsCountPrints`), which needs `OneSlotPerAddress`. A restart empties the table, and so keeps all of it.
  `PrintsInSequence` is inductive with these: the part expected is one more than there are in `printed`. The refinement follows from the same facts.
  Of the TCP servers: `SlotsAgree` holds between two events only, and `ServersInv` says what holds within one. `TableOK`: the
  open connections are the watched ones and, from accept to its first message, the new one, which has no slot yet.
  That needs `QueueOK` (who waits in the queue waits there once, and has not been opened before) and `LoopOK` (the events
  left are of watched connections, so that `ChatGone` frees the slot of a connection that no later event names, and
  `anotherone.c` has a slot free when it has accepted). For `Relayed`, `Ahead` are the slots that the loop of
  relays has yet to come to: their clients lack the last message of the chat (`ChatOK`) or may know a former owner (`CityOK`), all
  others lack nothing, and the end of the loop leaves none ahead. `NewOK` says that nothing was relayed to a client before it joined.
  The end of a process keeps all of it, since it closes everything.
* `BufferProofs`: `SemaphoreCounts` says what each semaphore is worth at each
  place of the two programs; from it `InUse` bounds the items in the ring. For the condition
  variables, who holds the mutex, what the `while` conditions guarantee after
  them, and `NoLostWakeup`, which is inductive with those: a waiting thread is
  never left asleep with work for it and nobody to signal. `RingContent` says that the cells from
  `out` on hold consecutive numbers; the first lemmas relate that to sequences, and so the
  refinement of the channel follows for both. The theorems are about the composition `Buffers`.
* `CounterLocksProofs`: for 03 the invariant of Peterson's lock read through the store
  buffers: memory as this thread sees it, and what drains. For the other locks, the
  lock word or semaphore tells who is inside. `CounterInv` adds what the counter is worth:
  under a lock that works `Net`, the increments less the decrements so far, is in one place, the register of
  the thread about to store it, its store buffer, or memory; without one every value
  around lies between all the decrements and all the increments. At the join the loops are over and
  the buffers empty (`CounterAtJoin`).
* `LectureLocksProofs`: for the philosophers, who holds each chopstick, and the
  argument around the circle, by the least philosopher not waiting; for the readers,
  the cardinality of those counted and what each semaphore is worth.
* `QueueLabsProofs`: for the notifications, `Registration` says that a registration, a pending SIGUSR1 and
  whoever is about to restore the registration exclude one another, and `Noticed` that one of them
  is there; `NoneStranded` is inductive with both. `LeftIsExact` counts the children not waited for. For
  `AnsweredOnce`, where each task, message or request is: in a queue, in the hands of one thread,
  answered, or lost with a process that ended; these places exclude one another, and there
  are as many answers as requests that have left them.
* `ThreadLabsProofs`: `Permuted` says that the array with the half-done exchange of main put right is
  a permutation of the numbers, and that nobody prints while one is half done, since main holds
  two cells and a printing thread all of them. For the throwers, that the balls of the bins are
  those thrown; for the roots, that a cell is stored once, since its thread has taken it under the
  mutex; for the chunks, which the list holds and which a thread has in hand.
* `SharedMemoryProofs`: for the integration, `Opened` and `OneWithin` say who is between the wait and the post of
  each semaphore object, `Attaching` what a process has mapped, and `Meeting` that all who work share the one
  memory that its name means and that its `workers` counts them; `Tried` counts the batches. The last two hold
  while nobody came through a stale semaphore. For the points, `Reliable` is an invariant of one memory object
  whose mutex nobody used too early: one process prepares it, before anybody has its mutex, the holder is alone between
  lock and unlock, `counter` is at least the number of those counted in (the dead stay in it) and
  `samples` is the number of batches added. For the game, `Scored`: the points of a field are on the board or with one client, but for a
  client about to take them off or killed before; for the draw,
  `InTurns`: those before the baton are done and those after it wait; for the samples,
  `Sampled`. `WorkIsAddedOnce` has the hypothesis `Players + 1 < 999`: `Example/task.c:40, 65-66` gives the
  baton to `index + 1` and takes 999 for the parent, and does not check N against it. The draw alone needs it:
  `OthersAddOnce` is without it.
* `ProcessLabsProofs`: for the grading, `LettersFit` says that only the first letter of a student is not "done", and
  that the student is at the read of that letter, and `Waits` that until the teacher says "done" a student with a result on the desk
  has one there and waits without a letter; so a grade is never posted to one that still has another, and `done` counts
  `Graded`. All of it is given up when the group is killed. For the roulette, `Unread`, `Half` and `HasBet` say what is in the
  pipes of a player before, while and after the croupier reads its bet, and `InGame` which seat is where. For the frames, the pipe
  `Holds` whole frames, and before them, once a header has been read, the data of its frame. For the signals, the order of the ends and the
  size of the file are inductive with the place of the parent in its loop; for the exit codes, a child has
  its own signals, all but a pending one, and nobody has more than were sent.

`LastPosition`, `Changed` and similar lemmas hold what is not about the programs. `MemoryAssumption` says that no client
of the game is called "nobody" or "server", the other values of `holder`.

Only model-checked: every liveness property (`ClientsEnd`, `AllTransferred`,
`BothReturn`, `EachEnds`, `EachRests`, `EachServed`), since ENABLED and fairness are out of the prover's reach.
`Relayed` says what a client has got by the place of each message among those for the client (`GotFirst`) and not by
`SelectSeq`, which is computed by recursion over its argument; TLC finds the two equal in every state of `servers`.

## Findings

`shared_integral_init`: `Lab - 7/examp.c:103` calls the semaphore the
"synchronization of shared memory initialization", but `mem_destroy` unlinks it
(217) while other processes may wait on it. They get the old one from the post of
line 259, a newcomer makes a new one, and both are in `mem_init` at once; one of
them may open the memory object before it has its size. `ResultIsComplete` is therefore
stated of behaviours in which nobody came through a stale semaphore.

`square_roots`: `Lab - 3/example.c:65` prints "All cells are calculated", but the search
before it adds the growing `i` to `index` (59), so it visits the cells at the distances
0, 0, 1, 3, 6, ... and does not test the one it reaches last. With three cells the one
at distance 2 is never tested; with the default of ten at most six are. All threads
may end so, and main prints a result that nobody stored.

Noted while modelling, without a run of its own: `2_client.c:26-28` and `14_mtx_in_shm.c:105`
(both above), `16_dining_philosophers.c:26` (nanoseconds out of range),
`Lab - 2/Last Year/task.c:48, 113-116` (a draw of 10), `l4a.c:247-258` (texts longer than the buffer, clients never closed),
`sop-ca.c:118` (main locks one mutex twice if `a = b`), `Lab - 4/task.c:83` (a chunk of no bytes).

## Plan

What is left, in order of what it would add:

1. `website_server.c`, whose buffer keeps the end of a longer request.

## Not modelled

Formatting, argument parsing and printing everywhere. Failures of calls are
modelled where the program goes on afterwards or leaves something behind
(`examp.c`, `secondexamp.c`, `2_server.c`, the TCP servers); elsewhere a failing call ends the program before any
interaction. Signals other than those a program uses are left out. Programs of
single calls (`04_net/01` to `04`, `02_mqueue/01` to `07`, `01_pipes/01` to `11`, `05_memory`,
`06_fs`) have no state to speak of. Of `Lab - 5/Example Tasks`, the rings of `task60.c` and
`task60myself.c` pass one number round for ever; `task60smth.c` closes all its ends and fails at once
with EBADF; in `task90.c` a child falls into the loop that forks; `smth.c` relays one message; `task90myself.c`
is unfinished, as are `Lab - 2/Example Task/task.c` and `Lab - 3/task.c`; `Retake/task.c` prints. `prog17.c` forks
threads that share nothing. `l4b.c` is `l4a.c` without addresses, and `04_net/10` and `11` have the table of the chat without its relay.
The FIFO programs of `Lab - 5/Tutorial/FIFOs` are one loop each. In `anotherone.c` the bytes of a report that is cut off
are any report, and those cut off later are dropped, as the code drops them.
