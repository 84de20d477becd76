------------------------------ MODULE MSortPool ------------------------------
(***************************************************************************)
(* msort.cpp: the worker threads of the parallel merge sort.               *)
(*                                                                         *)
(* A worker takes a segment.  A small one it sorts; of a larger one it     *)
(* dispatches both halves to the queue and merges them - at once, whether  *)
(* or not somebody has sorted them.  tasks_active counts the segments that *)
(* are not finished; main waits under active_mutex until there are none.   *)
(*                                                                         *)
(* merge reads the two halves into buffers and then writes them back: two  *)
(* steps here, between which other threads run.  An insertion sort is one  *)
(* step.  (The C++ code interleaves finer: it can do what this module does *)
(* to the array, and more.)                                                *)
(***************************************************************************)
EXTENDS WorkQueue

VARIABLES
  A, A0,   \* the array, and what it was
  wpc,     \* where each worker is
  seg,     \* the segment it has in hand
  half,    \* which half it dispatches: 1 or 2
  buf,     \* what its merge will write
  mpc,     \* where main is
  stops,   \* how many stop segments main has pushed
  tasks_active,
  inlined  \* history: dispatches that found the queue full

workerVars == <<wpc, seg, half, buf>>
mainVars == <<mpc, stops>>
vars == <<queueVars, A, A0, workerVars, mainVars, tasks_active, inlined>>

Positions == 1 .. NMerge

Segments == {s \in (0 .. NMerge) \X (0 .. NMerge) : s[1] <= s[2]}

Size(s) == s[2] - s[1]

Nothing == <<0, 0>>

Mid(s) == s[1] + (s[2] - s[1]) \div 2

Half(s, h) == IF h = 1 THEN <<s[1], Mid(s)>> ELSE <<Mid(s), s[2]>>

\* The elements of a segment; A[1] is the code's A[0].
Elements(s) == SubSeq(A, s[1] + 1, s[2])

\* The array with the elements of s replaced.
Written(s, elements) ==
  [p \in Positions |-> IF p \in s[1] + 1 .. s[2] THEN elements[p - s[1]] ELSE A[p]]

\* insertion_sort: an element goes in front of those behind the last one that is
\* not above it.
Inserted(elements, key) ==
  LET Stays(p) == \E q \in p .. Len(elements) : elements[q] <= key
  IN [p \in 1 .. Len(elements) + 1 |->
        IF p <= Len(elements) /\ Stays(p) THEN elements[p]
        ELSE IF p = 1 \/ Stays(p - 1) THEN key
        ELSE elements[p - 1]]

Sorted(elements) ==
  LET sorted[n \in 0 .. Len(elements)] ==
        IF n = 0 THEN <<>> ELSE Inserted(sorted[n - 1], elements[n])
  IN sorted[Len(elements)]

\* merge takes the left head: the right sequence is used up, or its head is smaller.
TakesLeft(L, R, taken, k) ==
  taken < Len(L) /\ (k - taken >= Len(R) \/ L[taken + 1] <= R[(k - taken) + 1])

\* What merge makes of two sequences, sorted or not: always the smaller of the
\* two heads, the left one of equals.  left[k] of the first k come from L.
Merge(L, R) ==
  LET left[k \in 0 .. Len(L) + Len(R)] ==
        IF k = 0 THEN 0
        ELSE left[k - 1] + IF TakesLeft(L, R, left[k - 1], k - 1) THEN 1 ELSE 0
  IN [k \in 1 .. Len(L) + Len(R) |->
        IF left[k] > left[k - 1] THEN L[left[k]] ELSE R[k - left[k]]]

Init ==
  /\ QueueInit
  /\ A \in [Positions -> MergeValues] /\ A0 = A
  /\ wpc = [w \in Workers |-> "wait"]
  /\ seg = [w \in Workers |-> Nothing]
  /\ half = [w \in Workers |-> 1]
  /\ buf = [w \in Workers |-> <<>>]
  /\ mpc = "count" /\ stops = 0
  /\ tasks_active = 0 /\ inlined = 0

----------------------------------------------------------------------------
\* The worker threads, worker_fn.
At(w, from, to) == wpc[w] = from /\ wpc' = [wpc EXCEPT ![w] = to]

WaitTask(w) ==
  /\ At(w, "wait", "pop")
  /\ Acquire
  /\ UNCHANGED <<A, A0, seg, half, buf, mainVars, tasks_active, inlined>>

TakeTask(w) ==
  /\ Dequeue
  /\ \/ Head(queue) = Stop /\ At(w, "pop", "exited") /\ UNCHANGED seg
     \/ Head(queue) # Stop /\ At(w, "pop", "work") /\ seg' = [seg EXCEPT ![w] = Head(queue)]
  /\ UNCHANGED <<A, A0, half, buf, mainVars, tasks_active, inlined>>

\* One element, or few enough for the insertion sort.
SortSmall(w) ==
  /\ At(w, "work", "finish")
  /\ Size(seg[w]) <= 1 \/ Size(seg[w]) <= Small
  /\ A' = Written(seg[w], Sorted(Elements(seg[w])))
  /\ UNCHANGED <<queueVars, A0, seg, half, buf, mainVars, tasks_active, inlined>>

\* A slip: only one of the halves is counted.
CountOneHalf(w) ==
  /\ At(w, "work", "dispatch")
  /\ Size(seg[w]) > 1 /\ Size(seg[w]) > Small
  /\ tasks_active' = tasks_active + 1
  /\ half' = [half EXCEPT ![w] = 1]
  /\ UNCHANGED <<queueVars, A, A0, seg, buf, mainVars, inlined>>

\* Both halves are counted before either is dispatched.
CountHalves(w) ==
  /\ At(w, "work", "dispatch")
  /\ Size(seg[w]) > 1 /\ Size(seg[w]) > Small
  /\ tasks_active' = tasks_active + 2
  /\ half' = [half EXCEPT ![w] = 1]
  /\ UNCHANGED <<queueVars, A, A0, seg, buf, mainVars, inlined>>

\* After the first half the second, then the merge.
Dispatched(w) ==
  IF half[w] = 1
  THEN wpc' = [wpc EXCEPT ![w] = "dispatch"] /\ half' = [half EXCEPT ![w] = 2]
  ELSE wpc' = [wpc EXCEPT ![w] = "merge"] /\ UNCHANGED half

DispatchQueued(w) ==
  /\ At(w, "dispatch", "post")
  /\ Enqueue(Half(seg[w], half[w]))
  /\ UNCHANGED <<A, A0, seg, half, buf, mainVars, tasks_active, inlined>>

PostTask(w) ==
  /\ wpc[w] = "post"
  /\ Dispatched(w)
  /\ Post
  /\ UNCHANGED <<A, A0, seg, buf, mainVars, tasks_active, inlined>>

\* The queue is full: the half is sorted here and now - and stays counted.
DispatchInline(w) ==
  /\ wpc[w] = "dispatch"
  /\ ~HasRoom
  /\ Dispatched(w)
  /\ LET s == Half(seg[w], half[w]) IN A' = Written(s, Sorted(Elements(s)))
  /\ inlined' = inlined + 1
  /\ UNCHANGED <<queueVars, A0, seg, buf, mainVars, tasks_active>>

MergeRead(w) ==
  /\ At(w, "merge", "write")
  /\ buf' = [buf EXCEPT ![w] = Merge(Elements(Half(seg[w], 1)), Elements(Half(seg[w], 2)))]
  /\ UNCHANGED <<queueVars, A, A0, seg, half, mainVars, tasks_active, inlined>>

MergeWrite(w) ==
  /\ At(w, "write", "finish")
  /\ A' = Written(seg[w], buf[w])
  /\ buf' = [buf EXCEPT ![w] = <<>>]
  /\ UNCHANGED <<queueVars, A0, seg, half, mainVars, tasks_active, inlined>>

\* Under active_mutex: the last one wakes main.
FinishTask(w) ==
  /\ At(w, "finish", "wait")
  /\ tasks_active' = tasks_active - 1
  /\ mpc' = IF tasks_active' = 0 /\ mpc = "sleep" THEN "await" ELSE mpc
  /\ seg' = [seg EXCEPT ![w] = Nothing]
  /\ UNCHANGED <<queueVars, A, A0, half, buf, stops, inlined>>

Worker(w) ==
  \/ WaitTask(w) \/ TakeTask(w) \/ SortSmall(w) \/ CountHalves(w)
  \/ DispatchQueued(w) \/ PostTask(w) \/ DispatchInline(w)
  \/ MergeRead(w) \/ MergeWrite(w) \/ FinishTask(w)

----------------------------------------------------------------------------
\* The main thread.
MainAt(from, to) == mpc = from /\ mpc' = to

CountFirst ==
  /\ MainAt("count", "push")
  /\ tasks_active' = 1
  /\ UNCHANGED <<queueVars, A, A0, workerVars, stops, inlined>>

PushFirst ==
  /\ MainAt("push", "post")
  /\ Enqueue(<<0, NMerge>>)
  /\ UNCHANGED <<A, A0, workerVars, stops, tasks_active, inlined>>

PostFirst ==
  /\ MainAt("post", "await")
  /\ Post
  /\ UNCHANGED <<A, A0, workerVars, stops, tasks_active, inlined>>

\* A slip: main leaves when one segment is left.
AwaitAlmostDone ==
  /\ MainAt("await", IF tasks_active > 1 THEN "sleep" ELSE "stop")
  /\ UNCHANGED <<queueVars, A, A0, workerVars, stops, tasks_active, inlined>>

\* The test and the sleep are one step under active_mutex.
AwaitDone ==
  /\ MainAt("await", IF tasks_active > 0 THEN "sleep" ELSE "stop")
  /\ UNCHANGED <<queueVars, A, A0, workerVars, stops, tasks_active, inlined>>

\* One stop segment per thread; a full queue drops it.
PushStop ==
  /\ mpc = "stop" /\ stops < Cardinality(Workers)
  /\ \/ Enqueue(Stop) /\ mpc' = "poststop" /\ UNCHANGED stops
     \/ ~HasRoom /\ stops' = stops + 1 /\ UNCHANGED <<mpc, queueVars>>
  /\ UNCHANGED <<A, A0, workerVars, tasks_active, inlined>>

PostStop ==
  /\ MainAt("poststop", "stop")
  /\ stops' = stops + 1
  /\ Post
  /\ UNCHANGED <<A, A0, workerVars, tasks_active, inlined>>

\* All threads joined: the queue is freed and the array written.
Join ==
  /\ MainAt("stop", "written")
  /\ stops = Cardinality(Workers)
  /\ \A w \in Workers : wpc[w] = "exited"
  /\ UNCHANGED <<queueVars, A, A0, workerVars, stops, tasks_active, inlined>>

Main == CountFirst \/ PushFirst \/ PostFirst \/ AwaitDone \/ PushStop \/ PostStop \/ Join

\* POSIX lets a thread in pthread_cond_wait wake up without a signal.
SpuriousWakeup ==
  /\ MainAt("sleep", "await")
  /\ UNCHANGED <<queueVars, A, A0, workerVars, stops, tasks_active, inlined>>

Next == Main \/ SpuriousWakeup \/ \E w \in Workers : Worker(w)

Spec == Init /\ [][Next]_vars

\* Every thread that can take a step is scheduled again.
FairSpec == Spec /\ WF_vars(Main) /\ \A w \in Workers : WF_vars(Worker(w))

----------------------------------------------------------------------------
\* The variables hold values of their types.
TypeOK ==
  /\ queue \in Seq(Segments \cup {Stop}) /\ Len(queue) <= Capacity
  /\ sem_ready \in Nat
  /\ A \in [Positions -> MergeValues] /\ A0 \in [Positions -> MergeValues]
  /\ wpc \in [Workers -> {"wait", "pop", "work", "dispatch", "post", "merge", "write",
                          "finish", "exited"}]
  /\ seg \in [Workers -> Segments] /\ half \in [Workers -> {1, 2}]
  /\ buf \in [Workers -> Seq(MergeValues)]
  /\ mpc \in {"count", "push", "post", "await", "sleep", "stop", "poststop", "written"}
  /\ stops \in 0 .. Cardinality(Workers)
  /\ tasks_active \in Int /\ inlined \in Nat

\* The workers that have a segment in hand, those that have counted two halves
\* and given neither away, those that have one left, and the halves they have left.
Busy == {w \in Workers : wpc[w] \notin {"wait", "pop", "exited"}}
TwoLeft == {w \in Workers : half[w] = 1 /\ wpc[w] = "dispatch"}
OneLeft == {w \in Workers : <<half[w], wpc[w]>> \in {<<1, "post">>, <<2, "dispatch">>}}

Undispatched == 2 * Cardinality(TwoLeft) + Cardinality(OneLeft)

\* tasks_active is the number of segments that wait, are about to be dispatched
\* or are worked on, plus every dispatch that found the queue full and was never
\* counted down (dispatch_task): main never stops waiting too early.
HalvesCounted ==
  mpc \in {"push", "post", "await", "sleep"} =>
    tasks_active = (IF mpc = "push" THEN 1 ELSE Len(queue)) + Cardinality(Busy)
                     + Undispatched + inlined

\* No worker touches the array after main has stopped waiting.
QuietAtEnd ==
  mpc \in {"stop", "poststop", "written"} => Busy = {} /\ \A k \in DOMAIN queue : queue[k] = Stop

\* The program ends, unless a dispatch found the queue full.
Ended == mpc = "written" \/ inlined > 0

Ends == <>Ended

\* The output is sorted.
OutputSorted == mpc = "written" => \A p, q \in Positions : p <= q => A[p] <= A[q]
=============================================================================
