------------------------------ MODULE QSortPool ------------------------------
(***************************************************************************)
(* qsort.cpp: the worker threads of the parallel quicksort.                *)
(*                                                                         *)
(* A worker takes a segment, partitions it, hands the larger part to the   *)
(* queue and goes on with the smaller one, until what is left is small     *)
(* enough for an insertion sort.  tasks_active counts the segments that    *)
(* are not finished; who takes it to zero signals event_done to main,      *)
(* which then stops the workers and writes the array.                      *)
(*                                                                         *)
(* Of the array only `settled' is kept: the positions that hold their      *)
(* final element.  A partition settles what is in neither part (module     *)
(* QSortPartition is the partition itself), an insertion sort its segment. *)
(***************************************************************************)
EXTENDS WorkQueue

VARIABLES
  wpc,          \* where each worker is
  seg,          \* the segment [l, r) each worker has in hand
  part,         \* the part it is about to dispatch
  mpc,          \* where main is
  stops,        \* how many stop segments main has pushed
  tasks_active,
  event_done,
  settled,
  inlined       \* history: dispatches that found the queue full

workerVars == <<wpc, seg, part>>
mainVars == <<mpc, stops>>
vars == <<queueVars, workerVars, mainVars, tasks_active, event_done, settled, inlined>>

Positions == 0 .. NSort - 1

Segments == {s \in (0 .. NSort) \X (0 .. NSort) : s[1] <= s[2]}

Size(s) == s[2] - s[1]
Span(s) == s[1] .. s[2] - 1

\* A slip in the cursors: the parts may share an element.
SplitsOverlapping(s) ==
  {c \in Segments \X Segments :
     /\ c[1][1] = s[1] /\ c[2][2] = s[2]
     /\ c[2][1] - c[1][2] \in {-1, 0, 1}
     /\ Size(c[1]) < Size(s) /\ Size(c[2]) < Size(s)}

\* The pairs of parts a partition of s can end with (QSortPartition,
\* Partitioned): both proper, in order, at most one element in neither.
Splits(s) ==
  {c \in Segments \X Segments :
     /\ c[1][1] = s[1] /\ c[2][2] = s[2]
     /\ c[2][1] - c[1][2] \in {0, 1}
     /\ Size(c[1]) < Size(s) /\ Size(c[2]) < Size(s)}

Nothing == <<0, 0>>

Init ==
  /\ QueueInit
  /\ wpc = [w \in Workers |-> "wait"]
  /\ seg = [w \in Workers |-> Nothing]
  /\ part = [w \in Workers |-> Nothing]
  /\ mpc = "count" /\ stops = 0
  /\ tasks_active = 0 /\ event_done = FALSE
  /\ settled = {} /\ inlined = 0

----------------------------------------------------------------------------
\* The worker threads, worker_fn.
At(w, from, to) == wpc[w] = from /\ wpc' = [wpc EXCEPT ![w] = to]

WaitTask(w) ==
  /\ At(w, "wait", "pop")
  /\ Acquire
  /\ UNCHANGED <<seg, part, mainVars, tasks_active, event_done, settled, inlined>>

TakeTask(w) ==
  /\ Dequeue
  /\ \/ Head(queue) = Stop /\ At(w, "pop", "exited") /\ UNCHANGED seg
     \/ Head(queue) # Stop /\ At(w, "pop", "work") /\ seg' = [seg EXCEPT ![w] = Head(queue)]
  /\ UNCHANGED <<part, mainVars, tasks_active, event_done, settled, inlined>>

\* One element, or few enough for the insertion sort.
SortSmall(w) ==
  /\ At(w, "work", "finish")
  /\ Size(seg[w]) <= 1 \/ Size(seg[w]) <= Small
  /\ settled' = settled \cup Span(seg[w])
  /\ UNCHANGED <<queueVars, seg, part, mainVars, tasks_active, event_done, inlined>>

\* The larger part is counted and dispatched unless it is empty, the other one
\* is the next to look at.
Partition(w) ==
  /\ wpc[w] = "work"
  /\ Size(seg[w]) > 1 /\ Size(seg[w]) > Small
  /\ \E c \in Splits(seg[w]) :
       LET out == IF Size(c[1]) >= Size(c[2]) THEN c[1] ELSE c[2]
           rest == IF Size(c[1]) >= Size(c[2]) THEN c[2] ELSE c[1]
       IN  /\ settled' = settled \cup (Span(seg[w]) \ (Span(c[1]) \cup Span(c[2])))
           /\ seg' = [seg EXCEPT ![w] = rest]
           /\ IF Size(out) > 0
              THEN /\ tasks_active' = tasks_active + 1
                   /\ part' = [part EXCEPT ![w] = out]
                   /\ wpc' = [wpc EXCEPT ![w] = "dispatch"]
              ELSE UNCHANGED <<tasks_active, part, wpc>>
  /\ UNCHANGED <<queueVars, mainVars, event_done, inlined>>

DispatchQueued(w) ==
  /\ At(w, "dispatch", "post")
  /\ Enqueue(part[w])
  /\ part' = [part EXCEPT ![w] = Nothing]
  /\ UNCHANGED <<seg, mainVars, tasks_active, event_done, settled, inlined>>

\* A slip: the semaphore is posted for a part that is not in the queue.
DispatchInlinePosting(w) ==
  /\ At(w, "dispatch", "post")
  /\ ~HasRoom
  /\ settled' = settled \cup Span(part[w])
  /\ part' = [part EXCEPT ![w] = Nothing]
  /\ inlined' = inlined + 1
  /\ UNCHANGED <<queueVars, seg, mainVars, tasks_active, event_done>>

\* The queue is full: the part is sorted here and now - and stays counted.
DispatchInline(w) ==
  /\ At(w, "dispatch", "work")
  /\ ~HasRoom
  /\ settled' = settled \cup Span(part[w])
  /\ part' = [part EXCEPT ![w] = Nothing]
  /\ inlined' = inlined + 1
  /\ UNCHANGED <<queueVars, seg, mainVars, tasks_active, event_done>>

PostTask(w) ==
  /\ At(w, "post", "work")
  /\ Post
  /\ UNCHANGED <<seg, part, mainVars, tasks_active, event_done, settled, inlined>>

\* A slip: the last but one signals.
FinishTaskEarly(w) ==
  /\ At(w, "finish", IF tasks_active = 2 THEN "signal" ELSE "wait")
  /\ tasks_active' = tasks_active - 1
  /\ seg' = [seg EXCEPT ![w] = Nothing]
  /\ UNCHANGED <<queueVars, part, mainVars, event_done, settled, inlined>>

\* A slip: the value before the decrement is compared with zero.
FinishTaskBefore(w) ==
  /\ At(w, "finish", IF tasks_active = 0 THEN "signal" ELSE "wait")
  /\ tasks_active' = tasks_active - 1
  /\ seg' = [seg EXCEPT ![w] = Nothing]
  /\ UNCHANGED <<queueVars, part, mainVars, event_done, settled, inlined>>

\* InterlockedDecrement64
FinishTask(w) ==
  /\ At(w, "finish", IF tasks_active = 1 THEN "signal" ELSE "wait")
  /\ tasks_active' = tasks_active - 1
  /\ seg' = [seg EXCEPT ![w] = Nothing]
  /\ UNCHANGED <<queueVars, part, mainVars, event_done, settled, inlined>>

\* SetEvent
SignalDone(w) ==
  /\ At(w, "signal", "wait")
  /\ event_done' = TRUE
  /\ UNCHANGED <<queueVars, seg, part, mainVars, tasks_active, settled, inlined>>

Worker(w) ==
  \/ WaitTask(w) \/ TakeTask(w) \/ SortSmall(w) \/ Partition(w)
  \/ DispatchQueued(w) \/ DispatchInline(w) \/ PostTask(w)
  \/ FinishTask(w) \/ SignalDone(w)

----------------------------------------------------------------------------
\* The main thread.
MainAt(from, to) == mpc = from /\ mpc' = to

\* A slip: the first segment is not counted.
CountNone ==
  /\ MainAt("count", "push")
  /\ tasks_active' = 0
  /\ UNCHANGED <<queueVars, workerVars, stops, event_done, settled, inlined>>

CountFirst ==
  /\ MainAt("count", "push")
  /\ tasks_active' = 1
  /\ UNCHANGED <<queueVars, workerVars, stops, event_done, settled, inlined>>

PushFirst ==
  /\ MainAt("push", "post")
  /\ Enqueue(<<0, NSort>>)
  /\ UNCHANGED <<workerVars, stops, tasks_active, event_done, settled, inlined>>

PostFirst ==
  /\ MainAt("post", "await")
  /\ Post
  /\ UNCHANGED <<workerVars, stops, tasks_active, event_done, settled, inlined>>

AwaitDone ==
  /\ MainAt("await", "stop")
  /\ event_done
  /\ UNCHANGED <<queueVars, workerVars, stops, tasks_active, event_done, settled, inlined>>

\* One stop segment per thread; a full queue drops it.
PushStop ==
  /\ mpc = "stop" /\ stops < Cardinality(Workers)
  /\ \/ Enqueue(Stop) /\ mpc' = "poststop" /\ UNCHANGED stops
     \/ ~HasRoom /\ stops' = stops + 1 /\ UNCHANGED <<mpc, queueVars>>
  /\ UNCHANGED <<workerVars, tasks_active, event_done, settled, inlined>>

PostStop ==
  /\ MainAt("poststop", "stop")
  /\ stops' = stops + 1
  /\ Post
  /\ UNCHANGED <<workerVars, tasks_active, event_done, settled, inlined>>

\* All threads have ended: the queue is freed and the array written.
Join ==
  /\ MainAt("stop", "freed")
  /\ stops = Cardinality(Workers)
  /\ \A w \in Workers : wpc[w] = "exited"
  /\ UNCHANGED <<queueVars, workerVars, stops, tasks_active, event_done, settled, inlined>>

Main == CountFirst \/ PushFirst \/ PostFirst \/ AwaitDone \/ PushStop \/ PostStop \/ Join

Next == Main \/ \E w \in Workers : Worker(w)

Spec == Init /\ [][Next]_vars

\* Every thread that can take a step is scheduled again.
FairSpec == Spec /\ WF_vars(Main) /\ \A w \in Workers : WF_vars(Worker(w))

----------------------------------------------------------------------------
\* The variables hold values of their types.
TypeOK ==
  /\ queue \in Seq(Segments \cup {Stop}) /\ Len(queue) <= Capacity
  /\ sem_ready \in Nat
  /\ wpc \in [Workers -> {"wait", "pop", "work", "dispatch", "post", "finish", "signal", "exited"}]
  /\ seg \in [Workers -> Segments] /\ part \in [Workers -> Segments]
  /\ mpc \in {"count", "push", "post", "await", "stop", "poststop", "freed"}
  /\ stops \in 0 .. Cardinality(Workers)
  /\ tasks_active \in Int /\ event_done \in BOOLEAN
  /\ settled \subseteq Positions
  /\ inlined \in Nat

\* The workers that have a segment in hand, those that are about to dispatch one.
Busy == {w \in Workers : wpc[w] \in {"work", "dispatch", "post", "finish"}}
Dispatching == {w \in Workers : wpc[w] = "dispatch"}

\* Main has not begun to stop the workers.
Working == mpc \in {"push", "post", "await"}

\* tasks_active is the number of segments that wait or are worked on, plus every
\* dispatch that found the queue full and was never counted down (dispatch_task).
Accounted ==
  Working =>
    tasks_active = (IF mpc = "push" THEN 1 ELSE Len(queue)) + Cardinality(Busy)
                     + Cardinality(Dispatching) + inlined

\* What main takes event_done for: every element is where it belongs, and no
\* worker will touch the array again.
DoneMeansSorted ==
  event_done => settled = Positions /\ Busy = {} /\ Dispatching = {}

\* No two threads ever work on the same element: the segments in hand, about to
\* be dispatched and in the queue do not overlap.
Disjoint ==
  LET held == {<<"seg", w>> : w \in Busy} \cup {<<"part", w>> : w \in Dispatching}
              \cup {<<"queue", q>> : q \in {q \in DOMAIN queue : queue[q] # Stop}}
      Of(h) == IF h[1] = "seg" THEN seg[h[2]] ELSE IF h[1] = "part" THEN part[h[2]] ELSE queue[h[2]]
  IN  \A g, h \in held : g # h => Span(Of(g)) \cap Span(Of(h)) = {}

\* The semaphore never lets a thread into an empty queue.
SemaphoreCounts ==
  sem_ready + Cardinality({w \in Workers : wpc[w] = "pop"}) <= Len(queue)

\* The program ends, with the array sorted, unless a dispatch found the queue
\* full.  (Capacity must have room for the stop segments.)
Ended == (mpc = "freed" /\ settled = Positions) \/ inlined > 0

Ends == <>Ended
=============================================================================
