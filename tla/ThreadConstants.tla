--------------------------- MODULE ThreadConstants ---------------------------
(***************************************************************************)
(* The parameters of the thread programs, each program's own, and what the *)
(* programs require of them.                                               *)
(***************************************************************************)
EXTENDS Integers, FiniteSets

CONSTANTS
  Workers,     \* the worker threads of qsort, msort and chess
  Capacity,    \* QUEUE_CAPACITY of qsort and msort
  Small,       \* SMALL_THRESHOLD of qsort and msort
  NSort,       \* qsort: the number of elements
  NPart,       \* qsort: the number of elements of the segment to partition
  PartValues,  \* qsort: what an element of it may be
  NMerge,      \* msort: the number of elements
  MergeValues, \* msort: what an element may be
  NExpr,       \* expr: N
  TExpr,       \* expr: T
  CellWord,    \* expr: 2^64, what a cell of dp is counted modulo
  MaxJobs,     \* chess, bound: the most jobs seed_tasks leaves in the queue
  MaxMeals,    \* phil, bound: how often a philosopher is told to eat
  MaxLate      \* phil, bound: how many waits for a wave time out

\* 64 threads are what WaitForMultipleObjects can wait for.
ASSUME WorkersAssumption ==
  IsFiniteSet(Workers) /\ Workers # {} /\ Cardinality(Workers) <= 64

ASSUME QueueAssumption == Capacity \in Nat \ {0} /\ Small \in Nat \ {0}

ASSUME QSortAssumption == NSort \in Nat \ {0}

ASSUME PartitionAssumption == NPart \in Nat /\ NPart > 1 /\ PartValues \subseteq Int

ASSUME MSortAssumption == NMerge \in Nat \ {0} /\ MergeValues \subseteq Int

ASSUME ExprAssumption ==
  NExpr \in Nat \ {0} /\ TExpr \in Nat \ {0} /\ CellWord \in Nat /\ CellWord > 1

ASSUME ChessAssumption == MaxJobs \in Nat

ASSUME PhilAssumption == MaxMeals \in Nat /\ MaxLate \in Nat
=============================================================================
