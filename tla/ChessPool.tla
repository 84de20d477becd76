------------------------------ MODULE ChessPool ------------------------------
(***************************************************************************)
(* chess.cpp: the threads that count the placements of L pieces.           *)
(*                                                                         *)
(* main starts the threads, seeds the queue with the placements of the     *)
(* first pieces, lets the threads go and waits for all_work_done.  A       *)
(* thread takes a job, counts its completions, adds the count to           *)
(* total_solutions, and sleeps on q_cv when the queue is empty but others  *)
(* still work.  The last one to finish sets all_work_done.                 *)
(*                                                                         *)
(* The threads write all_work_done and signal done_cv under q_mx; main     *)
(* tests it and goes to sleep under done_mx: its test and its sleep are    *)
(* two steps here.  The search itself (dfs_count) is local to a thread; of *)
(* total_solutions we keep how often each job's count is in it.            *)
(***************************************************************************)
EXTENDS Integers, Sequences, FiniteSets, ThreadConstants

Jobs == 1 .. MaxJobs

VARIABLES
  start_flag, all_work_done, active_workers,
  queue,  \* q_head .. q_tail
  added,  \* how often the count of each job is part of total_solutions
  seeded, \* the jobs of this run are 1 .. seeded
  wpc,    \* where each thread is
  job,    \* the job it has
  mpc     \* where main is

vars == <<start_flag, all_work_done, active_workers, queue, added, seeded, wpc, job, mpc>>

Init ==
  /\ start_flag = FALSE /\ all_work_done = FALSE /\ active_workers = 0
  /\ queue = <<>> /\ added = [j \in Jobs |-> 0] /\ seeded = 0
  /\ wpc = [w \in Workers |-> "start"]
  /\ job = [w \in Workers |-> 0]
  /\ mpc = "seed"

----------------------------------------------------------------------------
At(w, from, to) == wpc[w] \in from /\ wpc' = [wpc EXCEPT ![w] = to]

\* pthread_cond_signal(&done_cv)
SignalMain == mpc' = IF mpc = "sleep" THEN "test" ELSE mpc

\* start_flag is set and waited for under one mutex.
WaitStart(w) ==
  /\ At(w, {"start"}, "pop")
  /\ start_flag
  /\ UNCHANGED <<start_flag, all_work_done, active_workers, queue, added, seeded, job, mpc>>

TakeJob(w) ==
  /\ queue # <<>>
  /\ At(w, {"pop", "woken"}, "search")
  /\ wpc[w] = "woken" => ~all_work_done
  /\ job' = [job EXCEPT ![w] = Head(queue)]
  /\ queue' = Tail(queue)
  /\ active_workers' = active_workers + 1
  /\ UNCHANGED <<start_flag, all_work_done, added, seeded, mpc>>

\* Nothing to take and nobody at work: all is done.  Whoever sees that leaves.
FindDone(w) ==
  /\ queue = <<>>
  /\ active_workers = 0 \/ all_work_done
  /\ At(w, {"pop", "woken"}, "exited")
  /\ wpc[w] = "woken" => ~all_work_done
  /\ all_work_done' = TRUE
  /\ IF active_workers = 0 THEN SignalMain ELSE UNCHANGED mpc
  /\ UNCHANGED <<start_flag, active_workers, queue, added, seeded, job>>

\* Nothing to take, but the others may not be done.
SleepOnQueue(w) ==
  /\ queue = <<>> /\ active_workers # 0 /\ ~all_work_done
  /\ At(w, {"pop", "woken"}, "sleep")
  /\ UNCHANGED <<start_flag, all_work_done, active_workers, queue, added, seeded, job, mpc>>

\* Woken, and all is done.
LeaveWoken(w) ==
  /\ At(w, {"woken"}, "exited")
  /\ all_work_done
  /\ UNCHANGED <<start_flag, all_work_done, active_workers, queue, added, seeded, job, mpc>>

\* dfs_count, and its result added under total_mx.
Search(w) ==
  /\ At(w, {"search"}, "retire")
  /\ added' = [added EXCEPT ![job[w]] = @ + 1]
  /\ job' = [job EXCEPT ![w] = 0]
  /\ UNCHANGED <<start_flag, all_work_done, active_workers, queue, seeded, mpc>>

\* A slip: the queue is not looked at.
RetireUnchecked(w) ==
  /\ At(w, {"retire"}, "broadcast")
  /\ active_workers' = active_workers - 1
  /\ IF active_workers = 1
     THEN all_work_done' = TRUE /\ SignalMain
     ELSE UNCHANGED <<all_work_done, mpc>>
  /\ UNCHANGED <<start_flag, queue, added, seeded, job>>

Retire(w) ==
  /\ At(w, {"retire"}, "broadcast")
  /\ active_workers' = active_workers - 1
  /\ IF queue = <<>> /\ active_workers = 1
     THEN all_work_done' = TRUE /\ SignalMain
     ELSE UNCHANGED <<all_work_done, mpc>>
  /\ UNCHANGED <<start_flag, queue, added, seeded, job>>

\* A slip: pthread_cond_signal in place of pthread_cond_broadcast.
BroadcastToOne(w) ==
  /\ wpc[w] = "broadcast"
  /\ IF \E v \in Workers : wpc[v] = "sleep"
     THEN \E v \in Workers :
            wpc[v] = "sleep" /\ wpc' = [wpc EXCEPT ![w] = "pop", ![v] = "woken"]
     ELSE wpc' = [wpc EXCEPT ![w] = "pop"]
  /\ UNCHANGED <<start_flag, all_work_done, active_workers, queue, added, seeded, job, mpc>>

\* pthread_cond_broadcast(&q_cv), after q_mx is left.
Broadcast(w) ==
  /\ wpc[w] = "broadcast"
  /\ wpc' = [v \in Workers |-> IF v = w THEN "pop" ELSE IF wpc[v] = "sleep" THEN "woken" ELSE wpc[v]]
  /\ UNCHANGED <<start_flag, all_work_done, active_workers, queue, added, seeded, job, mpc>>

Worker(w) ==
  \/ WaitStart(w) \/ TakeJob(w) \/ FindDone(w) \/ SleepOnQueue(w) \/ LeaveWoken(w)
  \/ Search(w) \/ Retire(w) \/ Broadcast(w)

----------------------------------------------------------------------------
MainAt(from, to) == mpc = from /\ mpc' = to

\* However many placements of the first pieces there are: none, one, several.
SeedTasks ==
  /\ MainAt("seed", "start")
  /\ \E n \in 0 .. MaxJobs : seeded' = n /\ queue' = [k \in 1 .. n |-> k]
  /\ UNCHANGED <<start_flag, all_work_done, active_workers, added, wpc, job>>

SetStart ==
  /\ MainAt("start", "test")
  /\ start_flag' = TRUE
  /\ UNCHANGED <<all_work_done, active_workers, queue, added, seeded, wpc, job>>

TestDone ==
  /\ MainAt("test", IF all_work_done THEN "join" ELSE "commit")
  /\ UNCHANGED <<start_flag, all_work_done, active_workers, queue, added, seeded, wpc, job>>

SleepForDone ==
  /\ MainAt("commit", "sleep")
  /\ UNCHANGED <<start_flag, all_work_done, active_workers, queue, added, seeded, wpc, job>>

Join ==
  /\ MainAt("join", "written")
  /\ \A w \in Workers : wpc[w] = "exited"
  /\ UNCHANGED <<start_flag, all_work_done, active_workers, queue, added, seeded, wpc, job>>

Main == SeedTasks \/ SetStart \/ TestDone \/ SleepForDone \/ Join

\* POSIX lets a thread in pthread_cond_wait wake up without a signal.
SpuriousWakeup ==
  /\ \/ \E w \in Workers : At(w, {"sleep"}, "woken") /\ UNCHANGED mpc
     \/ MainAt("sleep", "test") /\ UNCHANGED wpc
  /\ UNCHANGED <<start_flag, all_work_done, active_workers, queue, added, seeded, job>>

Next == Main \/ SpuriousWakeup \/ \E w \in Workers : Worker(w)

Spec == Init /\ [][Next]_vars

\* Every thread that can take a step is scheduled again; nothing wakes a
\* sleeping thread but a signal.
FairSpec == Spec /\ WF_vars(Main) /\ \A w \in Workers : WF_vars(Worker(w))

----------------------------------------------------------------------------
\* The variables hold values of their types.
TypeOK ==
  /\ start_flag \in BOOLEAN /\ all_work_done \in BOOLEAN
  /\ active_workers \in 0 .. Cardinality(Workers)
  /\ queue \in Seq(Jobs) /\ added \in [Jobs -> 0 .. 1] /\ seeded \in 0 .. MaxJobs
  /\ wpc \in [Workers -> {"start", "pop", "woken", "sleep", "search", "retire",
                          "broadcast", "exited"}]
  /\ job \in [Workers -> Jobs \cup {0}]
  /\ mpc \in {"seed", "start", "test", "commit", "sleep", "join", "written"}

\* all_work_done is never set early: when it is, nothing is left in the queue or
\* in a thread's hands, and every job is counted exactly once.
DoneMeansAll ==
  all_work_done =>
    /\ queue = <<>> /\ active_workers = 0
    /\ \A w \in Workers : wpc[w] \notin {"search", "retire"}
    /\ \A j \in 1 .. seeded : added[j] = 1

\* The end reaches every sleeper: while a thread sleeps on q_cv another one is
\* still at work, or has yet to broadcast.
SleepersWoken ==
  \A w \in Workers : wpc[w] = "sleep" =>
    \E v \in Workers : wpc[v] \in {"search", "retire", "broadcast"}

\* All threads end.
WorkersEnded == \A w \in Workers : wpc[w] = "exited"

WorkersEnd == <>WorkersEnded

\* The program ends.
Ended == mpc = "written"

Ends == <>Ended
=============================================================================
