------------------------------ MODULE Buffers ------------------------------
(***************************************************************************)
(* The bounded buffer of the synchronisation lectures, guarded by          *)
(* semaphores (08_bounded_buffer.c, 12_sem_in_shm.c) or as a monitor       *)
(* (15_cv.c): a behaviour is one of the two programs.                      *)
(***************************************************************************)
EXTENDS SemBuffer

VARIABLES prog,       \* "semaphores" or "monitor"
          size, mtx   \* of the monitor

M == INSTANCE CvBuffer

bufferVars == <<vars, prog, size, mtx>>

\* The program that does not run has one initial state.
BufferInit ==
  \/ prog = "semaphores" /\ Init /\ size = 0 /\ mtx = "none"
  \/ prog = "monitor" /\ M!Init /\ sem = [s \in Semaphores |-> 0] /\ destroyed = FALSE

WithSemaphores == prog = "semaphores" /\ UNCHANGED <<prog, size, mtx>>
AsMonitor == prog = "monitor" /\ UNCHANGED <<prog, sem, destroyed>>

SemProducer == WithSemaphores /\ Producer
SemConsumer == WithSemaphores /\ Consumer
CvProducer == AsMonitor /\ M!Producer
CvConsumer == AsMonitor /\ M!Consumer
CvSpurious == AsMonitor /\ M!SpuriousWakeup

BufferNext == SemProducer \/ SemConsumer \/ CvProducer \/ CvConsumer \/ CvSpurious

\* Both processes run until they block.  POSIX allows spurious wakeups but no
\* implementation produces them for ever; a process between two of them would
\* otherwise keep the other from the mutex.
BufferSpec ==
  /\ BufferInit /\ [][BufferNext]_bufferVars
  /\ WF_bufferVars(SemProducer) /\ WF_bufferVars(SemConsumer)
  /\ WF_bufferVars(CvProducer) /\ WF_bufferVars(CvConsumer)
  /\ <>[][~CvSpurious]_bufferVars

-----------------------------------------------------------------------------
(* Properties: those of SemBuffer hold of the monitor as well *)

\* No process sleeps on a condition variable that nobody will signal, while it could
\* go on (15_cv.c:34-35, 51-52).
NoLostWakeup == prog = "monitor" => M!NoLostWakeup
=============================================================================
