------------------------------ MODULE WorkQueue ------------------------------
(***************************************************************************)
(* The bounded queue of segments shared by the worker threads of qsort.cpp *)
(* and msort.cpp: a ring Q[q_front .. q_back-1] under a lock, and the      *)
(* semaphore sem_ready that counts what may be taken from it.              *)
(*                                                                         *)
(* push_task appends under the lock and posts the semaphore after it has   *)
(* left the lock; pop_task waits for the semaphore and then takes the      *)
(* front under the lock.  Between the two halves other threads run.        *)
(***************************************************************************)
EXTENDS Integers, Sequences, ThreadConstants

VARIABLES
  queue,    \* the segments in the ring, oldest first
  sem_ready \* the count of the semaphore

queueVars == <<queue, sem_ready>>

\* A segment [begin, end); the negative one tells a worker to stop.
Stop == <<-1, -1>>

QueueInit == queue = <<>> /\ sem_ready = 0

\* A slip: one segment too many, which overwrites the oldest in the ring.
HasRoomOneMore == Len(queue) <= Capacity

HasRoom == Len(queue) < Capacity

\* push_task, under the lock: the segment is refused when the ring is full.
Enqueue(s) ==
  /\ HasRoom
  /\ queue' = Append(queue, s)
  /\ UNCHANGED sem_ready

\* push_task, after the lock.
Post ==
  /\ sem_ready' = sem_ready + 1
  /\ UNCHANGED queue

\* pop_task: the wait for the semaphore.
Acquire ==
  /\ sem_ready > 0
  /\ sem_ready' = sem_ready - 1
  /\ UNCHANGED queue

\* pop_task, under the lock.
Dequeue ==
  /\ queue # <<>>
  /\ queue' = Tail(queue)
  /\ UNCHANGED sem_ready
=============================================================================
