---------------------------- MODULE QSortPartition ----------------------------
(***************************************************************************)
(* qsort.cpp, worker_fn: the partition of a segment A[l] .. A[r-1] around  *)
(* the median of its first, middle and last element.                       *)
(*                                                                         *)
(* The two scans have no bounds test of their own: that they never leave   *)
(* the segment - which other threads sort at the same time - rests on the  *)
(* values they have already passed.  Reading A outside of [l, r) would be  *)
(* undefined, so every action reads A only where it is defined and `oob'   *)
(* says that a scan is about to read elsewhere.                            *)
(***************************************************************************)
EXTENDS Integers, FiniteSets, ThreadConstants

Positions == 0 .. NPart - 1

VARIABLES
  A0,     \* the segment before the partition
  A,      \* the segment
  pivot,
  i, j,   \* the two cursors
  pc      \* "up": A[i] < pivot? "down": A[j] > pivot? "swap", "done"

vars == <<A0, A, pivot, i, j, pc>>

\* The three compare-and-swaps leave the median in the middle variable.
Median(a, b, c) ==
  IF a <= b
  THEN IF b <= c THEN b ELSE IF a <= c THEN c ELSE a
  ELSE IF a <= c THEN a ELSE IF b <= c THEN c ELSE b

Init ==
  /\ A \in [Positions -> PartValues]
  /\ A0 = A
  /\ pivot = Median(A[0], A[NPart \div 2], A[NPart - 1])
  /\ i = 0 /\ j = NPart - 1
  /\ pc = "up"

oob == \/ pc = "up" /\ i \notin Positions
       \/ pc \in {"down", "swap"} /\ j \notin Positions

\* A slip: the scan does not stop at elements equal to the pivot.
ScanUpPastEqual ==
  /\ pc = "up" /\ ~oob
  /\ \/ A[i] <= pivot /\ i' = i + 1 /\ UNCHANGED pc
     \/ A[i] > pivot /\ pc' = "down" /\ UNCHANGED i
  /\ UNCHANGED <<A0, A, pivot, j>>

ScanUp ==
  /\ pc = "up" /\ ~oob
  /\ \/ A[i] < pivot /\ i' = i + 1 /\ UNCHANGED pc
     \/ A[i] >= pivot /\ pc' = "down" /\ UNCHANGED i
  /\ UNCHANGED <<A0, A, pivot, j>>

ScanDown ==
  /\ pc = "down" /\ ~oob
  /\ \/ A[j] > pivot /\ j' = j - 1 /\ UNCHANGED pc
     \/ A[j] <= pivot /\ pc' = "swap" /\ UNCHANGED j
  /\ UNCHANGED <<A0, A, pivot, i>>

\* A slip: a cursor that does not move after the swap.
SwapStuck ==
  /\ pc = "swap" /\ ~oob
  /\ IF i <= j
     THEN /\ A' = [A EXCEPT ![i] = A[j], ![j] = A[i]]
          /\ i' = i + 1 /\ j' = j
     ELSE UNCHANGED <<A, i, j>>
  /\ pc' = IF i' <= j' THEN "up" ELSE "done"
  /\ UNCHANGED <<A0, pivot>>

\* A slip: only one of the two elements is written.
SwapHalf ==
  /\ pc = "swap" /\ ~oob
  /\ IF i <= j
     THEN /\ A' = [A EXCEPT ![i] = A[j]]
          /\ i' = i + 1 /\ j' = j - 1
     ELSE UNCHANGED <<A, i, j>>
  /\ pc' = IF i' <= j' THEN "up" ELSE "done"
  /\ UNCHANGED <<A0, pivot>>

Swap ==
  /\ pc = "swap" /\ ~oob
  /\ IF i <= j
     THEN /\ A' = [A EXCEPT ![i] = A[j], ![j] = A[i]]
          /\ i' = i + 1 /\ j' = j - 1
     ELSE UNCHANGED <<A, i, j>>
  /\ pc' = IF i' <= j' THEN "up" ELSE "done"
  /\ UNCHANGED <<A0, pivot>>

Next == ScanUp \/ ScanDown \/ Swap

Spec == Init /\ [][Next]_vars

FairSpec == Spec /\ WF_vars(Next)

----------------------------------------------------------------------------
\* The variables hold values of their types.
TypeOK ==
  /\ A0 \in [Positions -> PartValues] /\ A \in [Positions -> PartValues]
  /\ pivot \in PartValues
  /\ i \in 0 .. NPart /\ j \in -1 .. NPart - 1
  /\ pc \in {"up", "down", "swap", "done"}

\* Neither scan reads outside of the segment (worker_fn: `while (A[i] < pivot)'
\* and `while (A[j] > pivot)'), however the values repeat.
InBounds == ~oob

\* What the rest of worker_fn relies on: the parts [0, j+1) and [i, NPart) are
\* separated by the pivot, at most one element is in neither, both are proper
\* parts of the segment - so that the recursion ends - and not both are empty.
Partitioned ==
  pc = "done" =>
    /\ \A p \in 0 .. i - 1 : A[p] <= pivot
    /\ \A p \in j + 1 .. NPart - 1 : A[p] >= pivot
    /\ i - j \in {1, 2}
    /\ j + 1 \in 0 .. NPart - 1 /\ i \in 1 .. NPart

\* The elements are only moved around: each value occurs as often as before.
Permuted ==
  \A v \in PartValues :
    Cardinality({p \in Positions : A[p] = v}) = Cardinality({p \in Positions : A0[p] = v})

\* The partition ends.
Ended == pc = "done"

Ends == <>Ended
=============================================================================
