----------------------------- MODULE ThreadsProofs -----------------------------
(***************************************************************************)
(* Proofs about the thread programs as MCThreads composes them, for every  *)
(* value of the constants: the partition, the barrier, the philosophers,   *)
(* the pool of qsort and the jobs of the search, whose invariants are      *)
(* proved here (the lemmas begin with Part, Expr, Phil, Pool and Chess),   *)
(* then the composition with what MSortPoolProofs proves of msort.         *)
(***************************************************************************)
EXTENDS MCThreads, FiniteSetTheorems, TLAPS

USE PartitionAssumption, ExprAssumption DEF PartitionAssumption, ExprAssumption

\* An instance has its own Cardinality, which is the same.
LEMMA PartCardinality == \A S : Partition!Cardinality(S) = Cardinality(S)
BY DEF Cardinality, Partition!Cardinality, IsFiniteSet, Partition!IsFiniteSet

----------------------------------------------------------------------------
(* The partition of qsort.cpp: the inductive invariant. *)

\* What stops the scans: until the first swap an element equal to the pivot
\* between the cursors, then the swapped elements behind them.
PartSentinels ==
  \/ \E q \in Partition!Positions : i <= q /\ q <= j /\ A[q] = pivot
  \/ i >= 1 /\ j <= NPart - 2

\* What the cursors have passed is on the right side of the pivot.
PartPassed ==
  /\ \A p \in Partition!Positions : p < i => A[p] <= pivot
  /\ \A p \in Partition!Positions : p > j => A[p] >= pivot

\* The cursors have not crossed by more than the last exchange allows.
PartCursors ==
  /\ pc # "done" => i <= j + 1
  /\ pc = "done" => i - j \in {1, 2} /\ i >= 1 /\ j <= NPart - 2

\* Where a scan stopped.
PartStopped ==
  /\ pc \in {"down", "swap"} => i \in Partition!Positions /\ A[i] >= pivot
  /\ pc = "swap" => j \in Partition!Positions /\ A[j] <= pivot

PartIInv == Partition!TypeOK /\ PartSentinels /\ PartPassed /\ PartCursors /\ PartStopped

LEMMA PartElements ==
  ASSUME Partition!TypeOK
  PROVE  pivot \in Int /\ i \in Int /\ j \in Int /\ NPart \in Int
         /\ \A p \in Partition!Positions : p \in Int /\ A[p] \in Int
<1>1. \A p \in Partition!Positions : A[p] \in PartValues
  BY DEF Partition!TypeOK
<1>2. \A p \in Partition!Positions : p \in Int
  BY DEF Partition!Positions
<1>3. pivot \in Int /\ i \in Int /\ j \in Int
  BY DEF Partition!TypeOK
<1>4. \A p \in Partition!Positions : A[p] \in Int
  BY <1>1
<1>5. QED
  BY <1>2, <1>3, <1>4

LEMMA PartInitIInv == Partition!Init => PartIInv
<1> SUFFICES ASSUME Partition!Init PROVE PartIInv
  OBVIOUS
<1>1. 0 \in Partition!Positions /\ NPart \div 2 \in Partition!Positions
        /\ NPart - 1 \in Partition!Positions
  BY DEF Partition!Positions
<1>2. pivot \in {A[0], A[NPart \div 2], A[NPart - 1]}
  BY DEF Partition!Init, Partition!Median
<1>3. \E q \in Partition!Positions : A[q] = pivot
  BY <1>1, <1>2
<1>4. Partition!TypeOK
  BY <1>1, <1>2 DEF Partition!Init, Partition!TypeOK
<1>5. PartSentinels
  BY <1>3 DEF Partition!Init, PartSentinels, Partition!Positions
<1>6. PartPassed /\ PartCursors /\ PartStopped
  BY DEF Partition!Init, PartPassed, PartCursors, PartStopped, Partition!Positions
<1>7. QED
  BY <1>4, <1>5, <1>6 DEF PartIInv

\* No scan is about to leave the segment.
LEMMA PartIInvInBounds == PartIInv => Partition!InBounds
<1> SUFFICES ASSUME PartIInv PROVE Partition!InBounds
  OBVIOUS
<1>1. CASE pc = "up"
  BY <1>1 DEF PartIInv, Partition!TypeOK, PartSentinels, PartCursors, Partition!InBounds,
     Partition!oob, Partition!Positions
<1>2. CASE pc \in {"down", "swap"}
  BY <1>2 DEF PartIInv, Partition!TypeOK, PartSentinels, PartCursors, Partition!InBounds,
     Partition!oob, Partition!Positions
<1>3. QED
  BY <1>1, <1>2 DEF Partition!InBounds, Partition!oob

LEMMA PartScanUpIInv == PartIInv /\ Partition!ScanUp => PartIInv'
<1> SUFFICES ASSUME PartIInv, Partition!ScanUp PROVE PartIInv'
  OBVIOUS
<1>1. /\ pivot \in Int /\ i \in Int /\ j \in Int /\ NPart \in Int
      /\ \A p \in Partition!Positions : p \in Int /\ A[p] \in Int
  BY PartElements DEF PartIInv
<1>2. i \in Partition!Positions
  BY DEF Partition!ScanUp, Partition!oob
<1>3. CASE A[i] < pivot /\ i' = i + 1 /\ UNCHANGED pc
  <2>1. i <= j
    BY <1>1, <1>2, <1>3 DEF PartIInv, PartSentinels, PartPassed, Partition!Positions
  <2>2. Partition!TypeOK'
    BY <1>2, <1>3 DEF PartIInv, Partition!TypeOK, Partition!ScanUp, Partition!Positions
  <2>3. PartSentinels'
    BY <1>1, <1>2, <1>3 DEF PartIInv, PartSentinels, Partition!ScanUp, Partition!Positions
  <2>4. PartPassed'
    BY <1>1, <1>2, <1>3 DEF PartIInv, PartPassed, Partition!ScanUp, Partition!Positions
  <2>5. PartCursors' /\ PartStopped'
    BY <1>1, <1>3, <2>1 DEF Partition!ScanUp, PartCursors, PartStopped
  <2>6. QED
    BY <2>2, <2>3, <2>4, <2>5 DEF PartIInv
<1>4. CASE A[i] >= pivot /\ pc' = "down" /\ UNCHANGED i
  BY <1>1, <1>2, <1>4 DEF PartIInv, Partition!TypeOK, PartSentinels, PartPassed, PartCursors,
     PartStopped, Partition!ScanUp
<1>5. QED
  BY <1>3, <1>4 DEF Partition!ScanUp

LEMMA PartScanDownIInv == PartIInv /\ Partition!ScanDown => PartIInv'
<1> SUFFICES ASSUME PartIInv, Partition!ScanDown PROVE PartIInv'
  OBVIOUS
<1>1. /\ pivot \in Int /\ i \in Int /\ j \in Int /\ NPart \in Int
      /\ \A p \in Partition!Positions : p \in Int /\ A[p] \in Int
  BY PartElements DEF PartIInv
<1>2. j \in Partition!Positions
  BY DEF Partition!ScanDown, Partition!oob
<1>3. CASE A[j] > pivot /\ j' = j - 1 /\ UNCHANGED pc
  <2>1. i <= j
    BY <1>1, <1>2, <1>3 DEF PartIInv, PartSentinels, PartPassed, PartCursors,
       Partition!ScanDown, Partition!Positions
  <2>2. Partition!TypeOK'
    BY <1>2, <1>3 DEF PartIInv, Partition!TypeOK, Partition!ScanDown, Partition!Positions
  <2>3. PartSentinels'
    BY <1>1, <1>2, <1>3 DEF PartIInv, PartSentinels, Partition!ScanDown, Partition!Positions
  <2>4. PartPassed'
    BY <1>1, <1>2, <1>3 DEF PartIInv, PartPassed, Partition!ScanDown, Partition!Positions
  <2>5. PartCursors' /\ PartStopped'
    BY <1>1, <1>3, <2>1 DEF PartIInv, Partition!ScanDown, PartCursors, PartStopped
  <2>6. QED
    BY <2>2, <2>3, <2>4, <2>5 DEF PartIInv
<1>4. CASE A[j] <= pivot /\ pc' = "swap" /\ UNCHANGED j
  BY <1>1, <1>2, <1>4 DEF PartIInv, Partition!TypeOK, PartSentinels, PartPassed, PartCursors,
     PartStopped, Partition!ScanDown
<1>5. QED
  BY <1>3, <1>4 DEF Partition!ScanDown

LEMMA PartSwapIInv == PartIInv /\ Partition!Swap => PartIInv'
<1> SUFFICES ASSUME PartIInv, Partition!Swap PROVE PartIInv'
  OBVIOUS
<1>1. /\ pivot \in Int /\ i \in Int /\ j \in Int /\ NPart \in Int
      /\ \A p \in Partition!Positions : p \in Int /\ A[p] \in Int
  BY PartElements DEF PartIInv
<1>2. /\ i \in Partition!Positions /\ A[i] >= pivot
      /\ j \in Partition!Positions /\ A[j] <= pivot
      /\ i <= j + 1
  BY DEF PartIInv, PartStopped, PartCursors, Partition!Swap
<1>3. CASE i <= j
  <2>1. /\ A' = [A EXCEPT ![i] = A[j], ![j] = A[i]]
        /\ i' = i + 1 /\ j' = j - 1 /\ pivot' = pivot
        /\ pc' = IF i' <= j' THEN "up" ELSE "done"
    BY <1>3 DEF Partition!Swap
  <2>2. Partition!TypeOK'
    <3>1. A \in [Partition!Positions -> PartValues] /\ A0' = A0 /\ Partition!TypeOK
      BY DEF PartIInv, Partition!TypeOK, Partition!Swap
    <3>2. A' \in [Partition!Positions -> PartValues]
      BY <1>2, <2>1, <3>1
    <3>3. i' \in 0 .. NPart /\ j' \in -1 .. NPart - 1
      BY <1>2, <2>1 DEF Partition!Positions
    <3>4. QED
      BY <2>1, <3>1, <3>2, <3>3 DEF Partition!TypeOK, Partition!Positions
  <2>3. i' >= 1 /\ j' <= NPart - 2
    BY <1>1, <1>2, <2>1 DEF Partition!Positions
  <2>4. \A p \in Partition!Positions :
          A'[p] = IF p = j THEN A[i] ELSE IF p = i THEN A[j] ELSE A[p]
    BY <2>1 DEF PartIInv, Partition!TypeOK
  <2>5. PartPassed'
    <3> DEFINE B == A'
    <3> SUFFICES /\ \A p \in Partition!Positions : p < i' => B[p] <= pivot
                 /\ \A p \in Partition!Positions : p > j' => B[p] >= pivot
      BY <2>1 DEF PartPassed
    <3>0. \A p \in Partition!Positions :
            B[p] = IF p = j THEN A[i] ELSE IF p = i THEN A[j] ELSE A[p]
      BY <2>4
    <3> HIDE DEF B
    <3>1. ASSUME NEW p \in Partition!Positions, p < i' PROVE B[p] <= pivot
      <4>1. CASE p = i \/ p = j
        BY <1>1, <1>2, <1>3, <2>1, <3>0, <3>1, <4>1
      <4>2. CASE p # i /\ p # j
        <5>1. p < i
          BY <1>1, <1>2, <2>1, <3>1, <4>2
        <5>2. A[p] <= pivot
          BY <5>1 DEF PartIInv, PartPassed
        <5>3. QED
          BY <3>0, <4>2, <5>2
      <4>3. QED
        BY <4>1, <4>2
    <3>2. ASSUME NEW p \in Partition!Positions, p > j' PROVE B[p] >= pivot
      <4>1. CASE p = i \/ p = j
        BY <1>1, <1>2, <1>3, <2>1, <3>0, <3>2, <4>1
      <4>2. CASE p # i /\ p # j
        <5>1. p > j
          BY <1>1, <1>2, <2>1, <3>2, <4>2
        <5>2. A[p] >= pivot
          BY <5>1 DEF PartIInv, PartPassed
        <5>3. QED
          BY <3>0, <4>2, <5>2
      <4>3. QED
        BY <4>1, <4>2
    <3>3. QED
      BY <3>1, <3>2
  <2>6. PartCursors' /\ PartStopped'
    BY <1>1, <1>3, <2>1, <2>3 DEF PartCursors, PartStopped
  <2>7. QED
    BY <2>2, <2>3, <2>5, <2>6 DEF PartIInv, PartSentinels
<1>4. CASE ~(i <= j)
  <2>1. UNCHANGED <<A0, A, pivot, i, j>> /\ pc' = "done"
    BY <1>4 DEF Partition!Swap
  <2>2. i >= 1 /\ j <= NPart - 2 /\ i - j = 1
    BY <1>1, <1>2, <1>4 DEF PartIInv, PartSentinels
  <2>3. QED
    BY <2>1, <2>2 DEF PartIInv, Partition!TypeOK, PartSentinels, PartPassed, PartCursors,
       PartStopped
<1>5. QED
  BY <1>3, <1>4

LEMMA PartNextIInv == PartIInv /\ [Partition!Next]_(Partition!vars) => PartIInv'
<1>1. ASSUME PartIInv, UNCHANGED Partition!vars PROVE PartIInv'
  BY <1>1 DEF PartIInv, Partition!TypeOK, PartSentinels, PartPassed, PartCursors, PartStopped,
     Partition!vars
<1>2. QED
  BY <1>1, PartScanUpIInv, PartScanDownIInv, PartSwapIInv DEF Partition!Next

\* No scan leaves the segment, and it ends with two proper parts.
LEMMA PartResults == PartIInv => Partition!Partitioned
BY DEF PartIInv, Partition!TypeOK, PartPassed, PartCursors, Partition!Partitioned,
       Partition!Positions

----------------------------------------------------------------------------
(* Nothing is lost. *)

PartOccurrences(f, v) == {p \in Partition!Positions : f[p] = v}

LEMMA PartOccurrencesFinite ==
  ASSUME NEW f, NEW v
  PROVE  IsFiniteSet(PartOccurrences(f, v))
<1>1. IsFiniteSet(Partition!Positions)
  BY FS_Interval DEF Partition!Positions
<1>2. QED
  BY <1>1, FS_Subset DEF PartOccurrences

\* Exchanging two elements keeps the number of occurrences of each value.
LEMMA PartExchange ==
  ASSUME NEW f \in [Partition!Positions -> PartValues], NEW a \in Partition!Positions,
           NEW b \in Partition!Positions,
         NEW g \in [Partition!Positions -> PartValues],
         \A p \in Partition!Positions : g[p] = IF p = b THEN f[a] ELSE IF p = a THEN f[b]
           ELSE f[p],
         NEW v
  PROVE  Cardinality(PartOccurrences(g, v)) = Cardinality(PartOccurrences(f, v))
<1> DEFINE to(p) == IF p = a THEN b ELSE IF p = b THEN a ELSE p
<1> DEFINE h == [p \in PartOccurrences(f, v) |-> to(p)]
<1>1. \A p \in Partition!Positions : to(p) \in Partition!Positions /\ to(to(p)) = p
        /\ g[to(p)] = f[p]
  OBVIOUS
<1>2. \A p \in Partition!Positions : f[to(p)] = g[p]
  OBVIOUS
<1> HIDE DEF to
<1>3. h \in [PartOccurrences(f, v) -> PartOccurrences(g, v)]
  BY <1>1 DEF PartOccurrences
<1>4. \A p, q \in PartOccurrences(f, v) : h[p] = h[q] => p = q
  BY <1>1 DEF PartOccurrences
<1>5. \A q \in PartOccurrences(g, v) : \E p \in PartOccurrences(f, v) : h[p] = q
  <2> SUFFICES ASSUME NEW q \in PartOccurrences(g, v)
               PROVE  \E p \in PartOccurrences(f, v) : h[p] = q
    OBVIOUS
  <2>1. to(q) \in PartOccurrences(f, v)
    BY <1>1, <1>2 DEF PartOccurrences
  <2>2. h[to(q)] = q
    BY <1>1, <2>1 DEF PartOccurrences
  <2>3. QED
    BY <2>1, <2>2
<1>6. h \in Bijection(PartOccurrences(f, v), PartOccurrences(g, v))
  BY <1>3, <1>4, <1>5 DEF Bijection, Injection, Surjection, IsInjective
<1>7. ExistsBijection(PartOccurrences(f, v), PartOccurrences(g, v))
  BY <1>6 DEF ExistsBijection
<1>8. QED
  BY <1>7, PartOccurrencesFinite, FS_Bijection

LEMMA PartInitPermuted == Partition!Init => Partition!Permuted
BY DEF Partition!Init, Partition!Permuted

LEMMA PartNextPermuted ==
  ASSUME PartIInv, Partition!Permuted, [Partition!Next]_(Partition!vars)
  PROVE  Partition!Permuted'
<1>1. CASE UNCHANGED <<A0, A>>
  BY <1>1 DEF Partition!Permuted
<1>2. CASE /\ A' = [A EXCEPT ![i] = A[j], ![j] = A[i]] /\ A0' = A0
           /\ i \in Partition!Positions /\ j \in Partition!Positions
  <2>1. ASSUME NEW v \in PartValues
        PROVE  Cardinality(PartOccurrences(A', v)) = Cardinality(PartOccurrences(A, v))
    <3> DEFINE f == A  g == A'
    <3>1. A \in [Partition!Positions -> PartValues]
      BY DEF PartIInv, Partition!TypeOK
    <3>2. /\ f \in [Partition!Positions -> PartValues]
          /\ g \in [Partition!Positions -> PartValues]
          /\ i \in Partition!Positions /\ j \in Partition!Positions
          /\ \A p \in Partition!Positions :
               g[p] = IF p = j THEN f[i] ELSE IF p = i THEN f[j] ELSE f[p]
      BY <1>2, <3>1
    <3> HIDE DEF f, g
    <3>3. Cardinality(PartOccurrences(g, v)) = Cardinality(PartOccurrences(f, v))
      BY ONLY <3>2, PartExchange, ZenonT(60)
    <3>4. QED
      BY <3>3 DEF f, g
  <2>2. QED
    BY <1>2, <2>1, PartCardinality DEF Partition!Permuted, PartOccurrences
<1>3. CASE Partition!Swap
  BY <1>1, <1>2, <1>3 DEF Partition!Swap, PartIInv, PartStopped
<1>4. QED
  BY <1>1, <1>3 DEF Partition!Next, Partition!vars, Partition!ScanUp, Partition!ScanDown

----------------------------------------------------------------------------
(* The barrier of expr.cpp: the inductive invariant. *)

ExprControlTypeOK ==
  /\ start_epoch \in Int
  /\ epoch \in 1 .. NExpr + 1
  /\ mpc \in {"announce", "sleep", "recheck"} => epoch <= NExpr
  /\ mpc \in {"fill", "announce", "sleep", "recheck", "join", "done"}
  /\ seen \in [Expr!Threads -> Int]
  /\ wpc \in [Expr!Threads -> {"check", "sleep", "compute", "count", "exited"}]

\* Nobody has moved before the first epoch is announced.
ExprNotBegun ==
  mpc \in {"fill", "announce"} /\ epoch = 1 =>
    start_epoch = 0 /\ \A t \in Expr!Threads : seen[t] = -1 /\ wpc[t] = "check"

\* While main waits for the epoch a thread has not looked yet, is in it or is
\* through with it.
ExprWithin ==
  mpc \in {"sleep", "recheck"} =>
    /\ start_epoch = epoch
    /\ \A t \in Expr!Threads :
         \/ seen[t] < epoch /\ wpc[t] = "check"
         \/ seen[t] = epoch /\ wpc[t] \in {"compute", "count", "check", "sleep"}

\* finished counts the threads that are through with the epoch.
ExprThrough == {t \in Expr!Threads : seen[t] = start_epoch /\ wpc[t] \in {"check", "sleep"}}

ExprFinishedCounts == mpc \in {"sleep", "recheck"} => finished = Cardinality(ExprThrough)

\* Between two epochs all are through with the first.
ExprBetween ==
  mpc \in {"fill", "announce"} /\ epoch > 1 =>
    /\ start_epoch = epoch - 1
    /\ \A t \in Expr!Threads : seen[t] = epoch - 1 /\ wpc[t] \in {"check", "sleep"}

\* And so they are when main stops them.
ExprStopping ==
  mpc \in {"join", "done"} =>
    /\ epoch > 1 /\ start_epoch = -1
    /\ \A t \in Expr!Threads : seen[t] = epoch - 1 /\ wpc[t] \in {"check", "sleep", "exited"}

ExprPhases == ExprNotBegun /\ ExprWithin /\ ExprFinishedCounts /\ ExprBetween /\ ExprStopping

ExprIInv == ExprControlTypeOK /\ (early = {} => ExprPhases)

----------------------------------------------------------------------------
LEMMA ExprThreadsCounted == IsFiniteSet(Expr!Threads) /\ Cardinality(Expr!Threads) = TExpr
BY FS_Interval DEF Expr!Threads

\* When TExpr threads are through, all are.
LEMMA ExprAllThrough ==
  ASSUME ExprPhases, mpc \in {"sleep", "recheck"}, ~(finished < TExpr)
  PROVE  ExprThrough = Expr!Threads
<1>1. ExprThrough \in SUBSET Expr!Threads
  BY DEF ExprThrough
<1>2. /\ IsFiniteSet(ExprThrough) /\ Cardinality(ExprThrough) <= TExpr
      /\ (Cardinality(ExprThrough) = TExpr => ExprThrough = Expr!Threads)
  BY <1>1, ExprThreadsCounted, FS_Subset
<1>3. Cardinality(ExprThrough) \in Nat
  BY <1>2, FS_CardinalityType
<1>4. finished = Cardinality(ExprThrough)
  BY DEF ExprPhases, ExprFinishedCounts
<1>5. QED
  BY <1>2, <1>3, <1>4

LEMMA ExprInitIInv == Expr!Init => ExprIInv
BY DEF Expr!Init, ExprIInv, ExprControlTypeOK, ExprPhases, ExprNotBegun, ExprWithin,
       ExprFinishedCounts, ExprBetween, ExprStopping

----------------------------------------------------------------------------
(* The steps of a thread. *)

LEMMA ExprCheckIInv ==
  ASSUME ExprIInv, NEW t \in Expr!Threads, Expr!Check(t)
  PROVE  ExprIInv'
<1>1. wpc[t] = "check" /\ UNCHANGED <<start_epoch, finished, dp, mpc, epoch, result_val>>
  BY DEF Expr!Check, Expr!mainVars
<1>2. CASE seen[t] = start_epoch /\ wpc' = [wpc EXCEPT ![t] = "sleep"]
           /\ UNCHANGED <<seen, todo, early>>
  <2>1. \A u \in Expr!Threads : wpc'[u] = IF u = t THEN "sleep" ELSE wpc[u]
    BY <1>2 DEF ExprIInv, ExprControlTypeOK
  <2>2. ExprControlTypeOK'
    BY <1>1, <1>2 DEF ExprIInv, ExprControlTypeOK
  <2>3. ExprThrough' = ExprThrough
    BY <1>1, <1>2, <2>1 DEF ExprThrough
  <2>4. ASSUME ExprPhases, early = {} PROVE ExprPhases'
    <3>1. ExprNotBegun'
      BY <1>1, <1>2, <2>1, <2>4 DEF ExprPhases, ExprNotBegun
    <3>2. ExprWithin' /\ ExprBetween' /\ ExprStopping'
      BY <1>1, <1>2, <2>1, <2>4 DEF ExprIInv, ExprControlTypeOK, ExprPhases, ExprWithin,
         ExprBetween, ExprStopping
    <3>3. ExprFinishedCounts'
      BY <1>1, <2>3, <2>4 DEF ExprPhases, ExprFinishedCounts
    <3>4. QED
      BY <3>1, <3>2, <3>3 DEF ExprPhases
  <2>5. QED
    BY <1>2, <2>2, <2>4 DEF ExprIInv
<1>3. CASE seen[t] # start_epoch /\ start_epoch < 0 /\ wpc' = [wpc EXCEPT ![t] = "exited"]
           /\ UNCHANGED <<seen, todo, early>>
  <2>1. \A u \in Expr!Threads : wpc'[u] = IF u = t THEN "exited" ELSE wpc[u]
    BY <1>3 DEF ExprIInv, ExprControlTypeOK
  <2>2. ExprControlTypeOK'
    BY <1>1, <1>3 DEF ExprIInv, ExprControlTypeOK
  <2>3. ASSUME ExprPhases, early = {} PROVE ExprPhases'
    <3>1. mpc \in {"join", "done"}
      BY <1>3, <2>3 DEF ExprIInv, ExprControlTypeOK, ExprPhases, ExprNotBegun, ExprWithin,
         ExprBetween
    <3>2. QED
      BY <1>1, <1>3, <2>1, <2>3, <3>1
      DEF ExprPhases, ExprNotBegun, ExprWithin, ExprFinishedCounts, ExprBetween, ExprStopping
  <2>4. QED
    BY <1>3, <2>2, <2>3 DEF ExprIInv
<1>4. CASE /\ seen[t] # start_epoch /\ start_epoch >= 0
           /\ seen' = [seen EXCEPT ![t] = start_epoch]
           /\ wpc' = [wpc EXCEPT ![t] = "compute"]
           /\ early' = IF start_epoch = 0 THEN early \cup {t} ELSE early
  <2>0. ExprControlTypeOK'
    BY <1>1, <1>4 DEF ExprIInv, ExprControlTypeOK
  <2> SUFFICES ASSUME early' = {} PROVE ExprPhases'
    BY <2>0 DEF ExprIInv
  <2>1. early = {} /\ start_epoch # 0 /\ ExprPhases
    BY <1>4 DEF ExprIInv
  <2>2. \A u \in Expr!Threads : /\ wpc'[u] = IF u = t THEN "compute" ELSE wpc[u]
                                /\ seen'[u] = IF u = t THEN start_epoch ELSE seen[u]
    BY <1>4 DEF ExprIInv, ExprControlTypeOK
  <2>3. mpc \in {"sleep", "recheck"}
    BY <1>1, <1>4, <2>1 DEF ExprIInv, ExprControlTypeOK, ExprPhases, ExprNotBegun, ExprBetween,
       ExprStopping
  <2>4. start_epoch = epoch /\ epoch \in Int
    BY <2>1, <2>3 DEF ExprPhases, ExprWithin, ExprIInv, ExprControlTypeOK
  <2>5. ExprThrough' = ExprThrough
    BY <1>1, <1>4, <2>2 DEF ExprThrough
  <2>6. ExprWithin'
    BY <1>1, <2>1, <2>2, <2>3, <2>4 DEF ExprPhases, ExprWithin
  <2>7. ExprFinishedCounts'
    BY <1>1, <2>1, <2>5 DEF ExprPhases, ExprFinishedCounts
  <2>8. ExprNotBegun' /\ ExprBetween' /\ ExprStopping'
    BY <1>1, <2>3 DEF ExprNotBegun, ExprBetween, ExprStopping
  <2>9. QED
    BY <2>6, <2>7, <2>8 DEF ExprPhases
<1>5. QED
  BY <1>2, <1>3, <1>4 DEF Expr!Check

LEMMA ExprComputeIInv ==
  ASSUME ExprIInv, NEW t \in Expr!Threads, Expr!Compute(t)
  PROVE  ExprIInv'
<1>1. /\ wpc[t] = "compute"
      /\ wpc' = wpc \/ wpc' = [wpc EXCEPT ![t] = "count"]
      /\ UNCHANGED <<start_epoch, finished, seen, mpc, epoch, early>>
  BY DEF Expr!Compute, Expr!mainVars
<1>2. \A u \in Expr!Threads : \/ wpc'[u] = wpc[u]
                              \/ u = t /\ wpc'[u] = "count"
  <2>1. wpc \in [Expr!Threads -> {"check", "sleep", "compute", "count", "exited"}]
    BY DEF ExprIInv, ExprControlTypeOK
  <2>2. QED
    BY <1>1, <2>1
<1>3. ExprControlTypeOK'
  BY <1>1 DEF ExprIInv, ExprControlTypeOK
<1>4. ExprThrough' = ExprThrough
  BY <1>1, <1>2 DEF ExprThrough
<1>5. ASSUME ExprPhases, early = {} PROVE ExprPhases'
  <2>1. mpc \in {"sleep", "recheck"}
    BY <1>1, <1>5 DEF ExprIInv, ExprControlTypeOK, ExprPhases, ExprNotBegun, ExprBetween,
       ExprStopping
  <2>2. ExprWithin'
    BY <1>1, <1>2, <1>5, <2>1 DEF ExprPhases, ExprWithin
  <2>3. ExprFinishedCounts'
    BY <1>1, <1>4, <1>5 DEF ExprPhases, ExprFinishedCounts
  <2>4. ExprNotBegun' /\ ExprBetween' /\ ExprStopping'
    BY <1>1, <2>1 DEF ExprNotBegun, ExprBetween, ExprStopping
  <2>5. QED
    BY <2>2, <2>3, <2>4 DEF ExprPhases
<1>6. QED
  BY <1>1, <1>3, <1>5 DEF ExprIInv

LEMMA ExprCountIInv ==
  ASSUME ExprIInv, NEW t \in Expr!Threads, Expr!Count(t)
  PROVE  ExprIInv'
<1>1. /\ wpc[t] = "count" /\ wpc' = [wpc EXCEPT ![t] = "check"]
      /\ finished' = finished + 1
      /\ mpc' = mpc \/ (mpc = "sleep" /\ mpc' = "recheck")
      /\ UNCHANGED <<start_epoch, seen, epoch, early>>
  BY DEF Expr!Count
<1>2. \A u \in Expr!Threads : wpc'[u] = IF u = t THEN "check" ELSE wpc[u]
  BY <1>1 DEF ExprIInv, ExprControlTypeOK
<1>3. ExprControlTypeOK'
  BY <1>1 DEF ExprIInv, ExprControlTypeOK
<1>4. ASSUME ExprPhases, early = {} PROVE ExprPhases'
  <2>1. mpc \in {"sleep", "recheck"} /\ mpc' \in {"sleep", "recheck"}
    BY <1>1, <1>4 DEF ExprIInv, ExprControlTypeOK, ExprPhases, ExprNotBegun, ExprBetween,
       ExprStopping
  <2>2. seen[t] = epoch /\ start_epoch = epoch
    BY <1>1, <1>4, <2>1 DEF ExprPhases, ExprWithin
  <2>3. ExprWithin'
    BY <1>1, <1>2, <1>4, <2>1, <2>2 DEF ExprPhases, ExprWithin
  <2>4. ExprFinishedCounts'
    <3>1. ExprThrough' = ExprThrough \cup {t} /\ t \notin ExprThrough
      BY <1>1, <1>2, <2>2 DEF ExprThrough
    <3>2. IsFiniteSet(ExprThrough)
      BY ExprThreadsCounted, FS_Subset DEF ExprThrough
    <3>3. Cardinality(ExprThrough') = Cardinality(ExprThrough) + 1
      BY <3>1, <3>2, FS_AddElement
    <3>4. QED
      BY <1>1, <1>4, <2>1, <3>3 DEF ExprPhases, ExprFinishedCounts
  <2>5. ExprNotBegun' /\ ExprBetween' /\ ExprStopping'
    BY <2>1 DEF ExprNotBegun, ExprBetween, ExprStopping
  <2>6. QED
    BY <2>3, <2>4, <2>5 DEF ExprPhases
<1>5. QED
  BY <1>1, <1>3, <1>4 DEF ExprIInv

----------------------------------------------------------------------------
(* The steps of main. *)

LEMMA ExprFillIInv == ExprIInv /\ Expr!Fill => ExprIInv'
BY DEF Expr!Fill, Expr!workerVars, ExprIInv, ExprControlTypeOK, ExprPhases, ExprNotBegun,
       ExprWithin, ExprFinishedCounts, ExprBetween,
       ExprStopping

LEMMA ExprWoken ==
  ASSUME ExprControlTypeOK, Expr!WakeThreads
  PROVE  /\ wpc' \in [Expr!Threads -> {"check", "sleep", "compute", "count", "exited"}]
         /\ \A t \in Expr!Threads : wpc'[t] = IF wpc[t] = "sleep" THEN "check" ELSE wpc[t]
BY DEF ExprControlTypeOK, Expr!WakeThreads

LEMMA ExprAnnounceIInv == ExprIInv /\ Expr!Announce => ExprIInv'
<1> SUFFICES ASSUME ExprIInv, Expr!Announce PROVE ExprIInv'
  OBVIOUS
<1>1. /\ mpc = "announce" /\ mpc' = "sleep" /\ start_epoch' = epoch /\ finished' = 0
      /\ UNCHANGED <<dp, seen, todo, epoch, result_val, early>>
  BY DEF Expr!Announce
<1>2. /\ wpc' \in [Expr!Threads -> {"check", "sleep", "compute", "count", "exited"}]
      /\ \A t \in Expr!Threads : wpc'[t] = IF wpc[t] = "sleep" THEN "check" ELSE wpc[t]
  BY ExprWoken DEF ExprIInv, Expr!Announce
<1>3. ExprControlTypeOK'
  BY <1>1, <1>2 DEF ExprIInv, ExprControlTypeOK
<1>4. ASSUME ExprPhases, early = {} PROVE ExprPhases'
  <2>1. \A t \in Expr!Threads : seen[t] < epoch /\ wpc[t] \in {"check", "sleep"}
    BY <1>1, <1>4 DEF ExprIInv, ExprControlTypeOK, ExprPhases, ExprNotBegun, ExprBetween
  <2>2. ExprWithin'
    BY <1>1, <1>2, <2>1 DEF ExprWithin
  <2>3. ExprThrough' = {}
    BY <1>1, <2>1 DEF ExprThrough, ExprIInv, ExprControlTypeOK
  <2>4. ExprFinishedCounts'
    BY <1>1, <2>3, FS_EmptySet DEF ExprFinishedCounts
  <2>5. ExprNotBegun' /\ ExprBetween' /\ ExprStopping'
    BY <1>1 DEF ExprNotBegun, ExprBetween, ExprStopping
  <2>6. QED
    BY <2>2, <2>4, <2>5 DEF ExprPhases
<1>5. QED
  BY <1>1, <1>3, <1>4 DEF ExprIInv

LEMMA ExprRecheckIInv == ExprIInv /\ Expr!Recheck => ExprIInv'
<1> SUFFICES ASSUME ExprIInv, Expr!Recheck PROVE ExprIInv'
  OBVIOUS
<1>1. /\ mpc = "recheck"
      /\ UNCHANGED <<start_epoch, finished, dp, seen, wpc, todo, result_val, early>>
  BY DEF Expr!Recheck, Expr!workerVars
<1>2. CASE mpc' = "sleep" /\ UNCHANGED epoch
  BY <1>1, <1>2 DEF ExprIInv, ExprControlTypeOK, ExprPhases, ExprNotBegun, ExprWithin,
     ExprFinishedCounts, ExprThrough,
                    ExprBetween, ExprStopping
<1>3. CASE ~(finished < TExpr) /\ mpc' = "fill" /\ epoch' = epoch + 1
  <2>1. ExprControlTypeOK'
    BY <1>1, <1>3 DEF ExprIInv, ExprControlTypeOK
  <2>2. ASSUME ExprPhases, early = {} PROVE ExprPhases'
    <3>1. ExprThrough = Expr!Threads
      BY <1>1, <1>3, <2>2, ExprAllThrough
    <3>2. /\ start_epoch = epoch
          /\ \A t \in Expr!Threads : seen[t] = epoch /\ wpc[t] \in {"check", "sleep"}
      BY <1>1, <2>2, <3>1 DEF ExprPhases, ExprWithin, ExprThrough
    <3>3. QED
      BY <1>1, <1>3, <3>2 DEF ExprIInv, ExprControlTypeOK, ExprPhases, ExprNotBegun,
         ExprWithin, ExprFinishedCounts,
                              ExprBetween, ExprStopping
  <2>3. QED
    BY <1>1, <2>1, <2>2 DEF ExprIInv
<1>4. QED
  BY <1>2, <1>3 DEF Expr!Recheck

LEMMA ExprStopIInv == ExprIInv /\ Expr!StopThreads => ExprIInv'
<1> SUFFICES ASSUME ExprIInv, Expr!StopThreads PROVE ExprIInv'
  OBVIOUS
<1>1. /\ mpc = "fill" /\ mpc' = "join" /\ start_epoch' = -1 /\ epoch > NExpr
      /\ UNCHANGED <<finished, dp, seen, todo, epoch, early>>
  BY DEF Expr!StopThreads
<1>2. /\ wpc' \in [Expr!Threads -> {"check", "sleep", "compute", "count", "exited"}]
      /\ \A t \in Expr!Threads : wpc'[t] = IF wpc[t] = "sleep" THEN "check" ELSE wpc[t]
  BY ExprWoken DEF ExprIInv, Expr!StopThreads
<1>3. ExprControlTypeOK' /\ epoch > 1
  BY <1>1, <1>2 DEF ExprIInv, ExprControlTypeOK
<1>4. ASSUME ExprPhases, early = {} PROVE ExprPhases'
  BY <1>1, <1>2, <1>3, <1>4 DEF ExprPhases, ExprNotBegun, ExprWithin, ExprFinishedCounts,
     ExprBetween, ExprStopping
<1>5. QED
  BY <1>1, <1>3, <1>4 DEF ExprIInv

LEMMA ExprJoinIInv == ExprIInv /\ Expr!Join => ExprIInv'
BY DEF Expr!Join, Expr!workerVars, ExprIInv, ExprControlTypeOK, ExprPhases, ExprNotBegun,
       ExprWithin, ExprFinishedCounts, ExprBetween,
       ExprStopping

LEMMA ExprSpuriousIInv == ExprIInv /\ Expr!SpuriousWakeup => ExprIInv'
<1> SUFFICES ASSUME ExprIInv, Expr!SpuriousWakeup PROVE ExprIInv'
  OBVIOUS
<1>1. UNCHANGED <<start_epoch, finished, dp, seen, todo, epoch, result_val, early>>
  BY DEF Expr!SpuriousWakeup
<1>2. CASE mpc = "sleep" /\ mpc' = "recheck" /\ UNCHANGED wpc
  BY <1>1, <1>2 DEF ExprIInv, ExprControlTypeOK, ExprPhases, ExprNotBegun, ExprWithin,
     ExprFinishedCounts, ExprThrough,
                    ExprBetween, ExprStopping
<1>3. ASSUME NEW t \in Expr!Threads, wpc[t] = "sleep", wpc' = [wpc EXCEPT ![t] = "check"],
             UNCHANGED mpc
      PROVE  ExprIInv'
  <2>1. \A u \in Expr!Threads : wpc'[u] = IF u = t THEN "check" ELSE wpc[u]
    BY <1>3 DEF ExprIInv, ExprControlTypeOK
  <2>2. ExprControlTypeOK'
    BY <1>1, <1>3 DEF ExprIInv, ExprControlTypeOK
  <2>3. ExprThrough' = ExprThrough
    BY <1>1, <1>3, <2>1 DEF ExprThrough
  <2>4. ASSUME ExprPhases, early = {} PROVE ExprPhases'
    <3>1. ExprFinishedCounts'
      BY <1>1, <1>3, <2>3, <2>4 DEF ExprPhases, ExprFinishedCounts
    <3>2. ExprNotBegun'
      BY <1>1, <1>3, <2>1, <2>4 DEF ExprPhases, ExprNotBegun
    <3>3. ExprWithin' /\ ExprBetween' /\ ExprStopping'
      BY <1>1, <1>3, <2>1, <2>4 DEF ExprPhases, ExprWithin, ExprBetween, ExprStopping
    <3>4. QED
      BY <3>1, <3>2, <3>3 DEF ExprPhases
  <2>5. QED
    BY <1>1, <2>2, <2>4 DEF ExprIInv
<1>4. QED
  BY <1>2, <1>3 DEF Expr!SpuriousWakeup

LEMMA ExprNextIInv == ExprIInv /\ [Expr!Next]_(Expr!vars) => ExprIInv'
<1>1. ASSUME ExprIInv, UNCHANGED Expr!vars PROVE ExprIInv'
  BY <1>1 DEF Expr!vars, Expr!workerVars, Expr!mainVars, ExprIInv, ExprControlTypeOK,
     ExprPhases, ExprNotBegun, ExprWithin,
              ExprFinishedCounts, ExprThrough, ExprBetween, ExprStopping
<1>2. QED
  BY <1>1, ExprCheckIInv, ExprComputeIInv, ExprCountIInv, ExprFillIInv, ExprAnnounceIInv,
     ExprRecheckIInv, ExprStopIInv,
     ExprJoinIInv, ExprSpuriousIInv DEF Expr!Next, Expr!Main, Expr!Worker

LEMMA ExprResults == ExprIInv => Expr!Barrier
<1> SUFFICES ASSUME ExprIInv, Expr!Released
             PROVE  \A t \in Expr!Threads : /\ seen[t] = epoch - 1
                                            /\ wpc[t] \in {"check", "sleep", "exited"}
  BY DEF Expr!Barrier
<1>1. CASE mpc \in {"fill", "announce"}
  BY <1>1 DEF ExprIInv, ExprPhases, ExprBetween, Expr!Released
<1>2. CASE mpc \in {"join", "done"}
  BY <1>2 DEF ExprIInv, ExprPhases, ExprStopping, Expr!Released
<1>3. QED
  BY <1>1, <1>2 DEF Expr!Released

----------------------------------------------------------------------------
(* The philosophers: the inductive invariant. *)

\* What the variables hold, without the bounds.
PhilTypes ==
  /\ start_evt \subseteq Phil!Philosophers /\ done_evt \subseteq Phil!Philosophers
  /\ wpc \in [Phil!Philosophers ->
                {"wait", "started", "eating", "ended", "printed", "terminated"}]
  /\ mpc \in {"loop", "second", "await", "clear", "clear2", "terminate", "over"}
  /\ wave_idx \in 1 .. 5
  /\ begun \in [Phil!Philosophers -> Nat] /\ meals \in [Phil!Philosophers -> Nat]
  /\ late \in Nat

\* Main has not left its loop.
PhilInWaves == mpc \notin {"terminate", "over"}

PhilIs(b) == IF b THEN 1 ELSE 0

\* What n has got of its starts.
PhilRepaid(n) == meals[n] + PhilIs(Phil!Eats(n)) + PhilIs(n \in start_evt)

\* Every start becomes at most one meal; while no wait has timed out, exactly one.
PhilRepays ==
  PhilInWaves => \A n \in Phil!Philosophers :
    /\ wpc[n] # "terminated"
    /\ PhilRepaid(n) <= begun[n]
    /\ late = 0 => PhilRepaid(n) = begun[n]

\* What n's thread and events may be: nothing to do, or a meal to have, had or
\* under way.
PhilIdle(n) == wpc[n] = "wait" /\ n \notin start_evt /\ n \notin done_evt

PhilInMeal(n) ==
  \/ wpc[n] = "wait" /\ ~(n \in start_evt /\ n \in done_evt)
  \/ /\ wpc[n] \in {"started", "eating", "ended", "printed"}
     /\ n \notin start_evt /\ n \notin done_evt

\* Those of the wave whose start event main has set.
PhilBidden ==
  IF mpc = "second" THEN {Phil!First}
  ELSE IF mpc = "await" THEN {Phil!First, Phil!Second}
  ELSE {}

\* Only they do anything, and nobody once main has left the loop.
PhilOnlyTheWave ==
  late = 0 =>
    IF PhilInWaves
    THEN \A n \in Phil!Philosophers : IF n \in PhilBidden THEN PhilInMeal(n) ELSE PhilIdle(n)
    ELSE \A n \in Phil!Philosophers : wpc[n] \in {"wait", "terminated"} /\ n \notin start_evt

\* The starts of n since the first wave last began.
PhilTurns(n) ==
  PhilIs(wave_idx > 1 /\ n \in {1, 4}) + PhilIs(wave_idx > 2 /\ n \in {2, 0})
    + PhilIs(wave_idx > 3 /\ n \in {3, 1}) + PhilIs(wave_idx > 4 /\ n \in {4, 2})
    + PhilIs(n = Phil!First /\ mpc \in {"second", "await", "clear", "clear2"})
    + PhilIs(n = Phil!Second /\ mpc \in {"await", "clear", "clear2"})

\* Nobody is ahead in starts but by what the waves of this round make of it.
PhilInTurn ==
  PhilInWaves => \A n, k \in Phil!Philosophers :
    begun[n] - begun[k] = PhilTurns(n) - PhilTurns(k)

PhilIInv == PhilTypes /\ PhilRepays /\ PhilOnlyTheWave /\ PhilInTurn

\* Who the two of a wave are: never neighbours.
LEMMA PhilWaveShape ==
  ASSUME wave_idx \in 1 .. 5
  PROVE  /\ Phil!First \in Phil!Philosophers /\ Phil!Second \in Phil!Philosophers
              /\ Phil!First # Phil!Second
         /\ Phil!Neighbour(Phil!First) # Phil!Second /\ Phil!Neighbour(Phil!Second) # Phil!First
         /\ \A n \in Phil!Philosophers : Phil!Neighbour(n) \in Phil!Philosophers
              /\ Phil!Neighbour(n) # n
         /\ wave_idx = 1 => Phil!First = 1 /\ Phil!Second = 4
         /\ wave_idx = 2 => Phil!First = 2 /\ Phil!Second = 0
         /\ wave_idx = 3 => Phil!First = 3 /\ Phil!Second = 1
         /\ wave_idx = 4 => Phil!First = 4 /\ Phil!Second = 2
         /\ wave_idx = 5 => Phil!First = 0 /\ Phil!Second = 3
<1>1. \A n \in Phil!Philosophers : Phil!Neighbour(n) = IF n = 4 THEN 0 ELSE n + 1
  BY DEF Phil!Philosophers, Phil!Neighbour
<1>2. \/ wave_idx = 1 /\ Phil!First = 1 /\ Phil!Second = 4
      \/ wave_idx = 2 /\ Phil!First = 2 /\ Phil!Second = 0
      \/ wave_idx = 3 /\ Phil!First = 3 /\ Phil!Second = 1
      \/ wave_idx = 4 /\ Phil!First = 4 /\ Phil!Second = 2
      \/ wave_idx = 5 /\ Phil!First = 0 /\ Phil!Second = 3
  <2>1. wave_idx = 1 \/ wave_idx = 2 \/ wave_idx = 3 \/ wave_idx = 4 \/ wave_idx = 5
    OBVIOUS
  <2>2. QED
    BY <2>1 DEF Phil!First, Phil!Second, Phil!waves
<1>3. QED
  BY <1>1, <1>2 DEF Phil!Philosophers

\* What a step of a philosopher's thread leaves to main.
LEMMA PhilPhilosopherStep ==
  ASSUME PhilIInv, NEW n \in Phil!Philosophers, UNCHANGED <<mpc, wave_idx, begun, late>>,
         PhilTypes',
         wpc[n] # "terminated", wpc'[n] # "terminated",
         \A k \in Phil!Philosophers : k # n =>
           wpc'[k] = wpc[k] /\ meals'[k] = meals[k]
             /\ (k \in start_evt' <=> k \in start_evt) /\ (k \in done_evt' <=> k \in done_evt),
         PhilRepaid(n)' = PhilRepaid(n),
         PhilInMeal(n) /\ ~PhilIdle(n) => PhilInMeal(n)',
         ~PhilIdle(n),
         wpc[n] # "wait" \/ n \in start_evt
  PROVE  PhilIInv'
<1>1. Phil!First' = Phil!First /\ Phil!Second' = Phil!Second /\ PhilBidden' = PhilBidden
        /\ (PhilInWaves' <=> PhilInWaves)
  BY DEF Phil!First, Phil!Second, PhilBidden, PhilInWaves
<1>2. PhilRepays'
  <2> SUFFICES ASSUME PhilInWaves, NEW k \in Phil!Philosophers
               PROVE  /\ wpc'[k] # "terminated"
                      /\ PhilRepaid(k)' <= begun[k]
                      /\ late = 0 => PhilRepaid(k)' = begun[k]
    BY <1>1 DEF PhilRepays
  <2>1. PhilRepaid(k)' = PhilRepaid(k)
    BY DEF PhilRepaid, Phil!Eats, PhilIs
  <2>2. QED
    BY <2>1 DEF PhilIInv, PhilRepays
<1>3. PhilOnlyTheWave'
  <2> SUFFICES ASSUME late = 0
               PROVE  /\ PhilInWaves => \A k \in Phil!Philosophers :
                           IF k \in PhilBidden THEN PhilInMeal(k)' ELSE PhilIdle(k)'
                      /\ ~PhilInWaves => \A k \in Phil!Philosophers :
                           wpc'[k] \in {"wait", "terminated"} /\ k \notin start_evt'
    BY <1>1 DEF PhilOnlyTheWave
  <2>1. ASSUME PhilInWaves, NEW k \in Phil!Philosophers
        PROVE  IF k \in PhilBidden THEN PhilInMeal(k)' ELSE PhilIdle(k)'
    BY <2>1 DEF PhilIInv, PhilOnlyTheWave, PhilInMeal, PhilIdle
  <2>2. ASSUME ~PhilInWaves PROVE FALSE
    BY <2>2 DEF PhilIInv, PhilOnlyTheWave
  <2>3. QED
    BY <2>1, <2>2
<1>4. PhilInTurn'
  <2>1. \A k \in Phil!Philosophers : PhilTurns(k)' = PhilTurns(k)
    BY <1>1 DEF PhilTurns, PhilIs
  <2>2. QED
    BY <1>1, <2>1 DEF PhilIInv, PhilInTurn
<1>5. QED
  BY <1>2, <1>3, <1>4 DEF PhilIInv

LEMMA PhilPhilosopherIInv ==
  ASSUME PhilIInv, NEW n \in Phil!Philosophers, Phil!Philosopher(n)
  PROVE  PhilIInv'
<1> USE DEF Phil!At, Phil!eventVars
<1>1. CASE Phil!TakeStart(n)
  <2>1. PhilTypes'
    BY <1>1 DEF PhilIInv, PhilTypes, Phil!TakeStart
  <2>2. /\ wpc[n] = "wait" /\ n \in start_evt
        /\ wpc'[n] = "started" /\ n \notin start_evt' /\ done_evt' = done_evt /\ meals' = meals
    BY <1>1 DEF PhilIInv, PhilTypes, Phil!TakeStart
  <2>3. PhilRepaid(n)' = PhilRepaid(n)
    BY <2>2 DEF PhilIInv, PhilTypes, PhilRepaid, Phil!Eats, PhilIs
  <2>4. PhilInMeal(n) => PhilInMeal(n)'
    BY <2>2 DEF PhilInMeal
  <2>5. \A k \in Phil!Philosophers : k # n => wpc'[k] = wpc[k]
          /\ (k \in start_evt' <=> k \in start_evt)
    BY <1>1 DEF PhilIInv, PhilTypes, Phil!TakeStart
  <2>6. QED
    BY <1>1, <2>1, <2>2, <2>3, <2>4, <2>5, PhilPhilosopherStep DEF Phil!TakeStart, PhilIdle
<1>2. CASE Phil!PrintEating(n) \/ Phil!PrintThinking(n)
  <2>1. PhilTypes'
    BY <1>2 DEF PhilIInv, PhilTypes, Phil!PrintEating, Phil!PrintThinking
  <2>2. /\ \/ wpc[n] = "started" /\ wpc'[n] = "eating"
           \/ wpc[n] = "ended" /\ wpc'[n] = "printed"
        /\ UNCHANGED <<start_evt, done_evt, meals, mpc, wave_idx, begun, late>>
    BY <1>2 DEF PhilIInv, PhilTypes, Phil!PrintEating, Phil!PrintThinking
  <2>3. PhilRepaid(n)' = PhilRepaid(n)
    BY <2>2 DEF PhilRepaid, Phil!Eats
  <2>4. PhilInMeal(n) => PhilInMeal(n)'
    BY <2>2 DEF PhilInMeal
  <2>5. \A k \in Phil!Philosophers : k # n => wpc'[k] = wpc[k]
    BY <1>2 DEF PhilIInv, PhilTypes, Phil!PrintEating, Phil!PrintThinking
  <2>6. QED
    BY <2>1, <2>2, <2>3, <2>4, <2>5, PhilPhilosopherStep DEF PhilIdle
<1>3. CASE Phil!EndMeal(n)
  <2>1. PhilTypes'
    BY <1>3 DEF PhilIInv, PhilTypes, Phil!EndMeal
  <2>2. /\ wpc[n] = "eating" /\ wpc'[n] = "ended" /\ meals'[n] = meals[n] + 1
        /\ UNCHANGED <<start_evt, done_evt, mpc, wave_idx, begun, late>>
    BY <1>3 DEF PhilIInv, PhilTypes, Phil!EndMeal
  <2>3. PhilRepaid(n)' = PhilRepaid(n)
    <3>1. meals[n] \in Int /\ PhilIs(n \in start_evt) \in Int
      BY DEF PhilIInv, PhilTypes, PhilIs
    <3>2. /\ PhilRepaid(n) = meals[n] + 1 + PhilIs(n \in start_evt)
          /\ PhilRepaid(n)' = (meals[n] + 1) + 0 + PhilIs(n \in start_evt)
      BY <2>2 DEF PhilRepaid, Phil!Eats, PhilIs
    <3>3. QED
      BY <3>1, <3>2
  <2>4. PhilInMeal(n) => PhilInMeal(n)'
    BY <2>2 DEF PhilInMeal
  <2>5. \A k \in Phil!Philosophers : k # n => wpc'[k] = wpc[k] /\ meals'[k] = meals[k]
    BY <1>3 DEF PhilIInv, PhilTypes, Phil!EndMeal
  <2>6. QED
    BY <2>1, <2>2, <2>3, <2>4, <2>5, PhilPhilosopherStep DEF PhilIdle
<1>4. CASE Phil!SetDone(n)
  <2>1. PhilTypes'
    BY <1>4 DEF PhilIInv, PhilTypes, Phil!SetDone
  <2>2. /\ wpc[n] = "printed" /\ wpc'[n] = "wait" /\ done_evt' = done_evt \cup {n}
        /\ UNCHANGED <<start_evt, meals, mpc, wave_idx, begun, late>>
    BY <1>4 DEF PhilIInv, PhilTypes, Phil!SetDone
  <2>3. PhilRepaid(n)' = PhilRepaid(n)
    BY <2>2 DEF PhilRepaid, Phil!Eats
  <2>4. PhilInMeal(n) => PhilInMeal(n)'
    BY <2>2 DEF PhilInMeal
  <2>5. \A k \in Phil!Philosophers : k # n => wpc'[k] = wpc[k]
    BY <1>4 DEF PhilIInv, PhilTypes, Phil!SetDone
  <2>6. QED
    BY <2>1, <2>2, <2>3, <2>4, <2>5, PhilPhilosopherStep DEF PhilIdle
<1>5. QED
  BY <1>1, <1>2, <1>3, <1>4 DEF Phil!Philosopher

----------------------------------------------------------------------------
\* Main starts one of the wave.
LEMMA PhilStartIInv ==
  ASSUME PhilIInv, NEW n \in Phil!Philosophers, PhilInWaves, PhilInWaves', mpc' \in {"second",
           "await"},
         Phil!Start(n),
         n \notin PhilBidden, PhilBidden' = PhilBidden \cup {n},
         \A k \in Phil!Philosophers : PhilTurns(k)' = IF k = n THEN PhilTurns(k) + 1
           ELSE PhilTurns(k)
  PROVE  PhilIInv'
<1>1. /\ start_evt' = start_evt \cup {n} /\ begun' = [begun EXCEPT ![n] = @ + 1]
      /\ UNCHANGED <<done_evt, wpc, wave_idx, meals, late>>
  BY DEF Phil!Start
<1>2. /\ begun[n] \in Nat
      /\ \A k \in Phil!Philosophers : begun'[k] = IF k = n THEN begun[k] + 1 ELSE begun[k]
      /\ begun' \in [Phil!Philosophers -> Nat]
  BY <1>1 DEF PhilIInv, PhilTypes
<1>3. PhilTypes'
  BY <1>1, <1>2 DEF PhilIInv, PhilTypes
<1>4. PhilRepays'
  <2> SUFFICES ASSUME NEW k \in Phil!Philosophers
               PROVE  /\ wpc[k] # "terminated"
                      /\ PhilRepaid(k)' <= begun'[k]
                      /\ late = 0 => PhilRepaid(k)' = begun'[k]
    BY <1>1 DEF PhilRepays
  <2>1. /\ meals[k] \in Int /\ PhilIs(Phil!Eats(k)) \in {0, 1}
             /\ PhilIs(k \in start_evt) \in {0, 1}
        /\ begun[k] \in Int
        /\ PhilRepaid(k) = meals[k] + PhilIs(Phil!Eats(k)) + PhilIs(k \in start_evt)
        /\ PhilRepaid(k)' = meals[k] + PhilIs(Phil!Eats(k)) + PhilIs(k \in start_evt')
    BY <1>1 DEF PhilIInv, PhilTypes, PhilIs, Phil!Eats, PhilRepaid
  <2>2. CASE k = n
    <3>1. PhilIs(k \in start_evt') = 1 /\ begun'[k] = begun[k] + 1
      BY <1>1, <1>2, <2>2 DEF PhilIs
    <3>2. PhilRepaid(k) <= begun[k] /\ (late = 0 => PhilRepaid(k) = begun[k])
            /\ wpc[k] # "terminated"
      BY DEF PhilIInv, PhilRepays
    <3>3. late = 0 => PhilIs(k \in start_evt) = 0
      BY <2>2 DEF PhilIInv, PhilOnlyTheWave, PhilIdle, PhilIs
    <3> DEFINE m == meals[k]  e == PhilIs(Phil!Eats(k))  s == PhilIs(k \in start_evt)
               b == begun[k]  r == PhilRepaid(k)  rNew == PhilRepaid(k)'  bNew == begun'[k]
    <3>4. /\ m \in Int /\ e \in {0, 1} /\ s \in {0, 1} /\ b \in Int
          /\ r = m + e + s /\ rNew = m + e + 1 /\ bNew = b + 1
          /\ r <= b /\ (late = 0 => r = b) /\ (late = 0 => s = 0)
      BY <2>1, <3>1, <3>2, <3>3
    <3> HIDE DEF m, e, s, b, r, rNew, bNew
    <3>5. rNew <= bNew /\ (late = 0 => rNew = bNew)
      BY ONLY <3>4
    <3>6. QED
      BY <3>2, <3>5 DEF rNew, bNew
  <2>3. CASE k # n
    <3>1. begun'[k] = begun[k] /\ (k \in start_evt' <=> k \in start_evt)
      BY <1>1, <1>2, <2>3
    <3>2. PhilRepaid(k)' = PhilRepaid(k)
      BY <1>1, <3>1 DEF PhilRepaid, PhilIs, Phil!Eats
    <3>3. QED
      BY <3>1, <3>2 DEF PhilIInv, PhilRepays
  <2>4. QED
    BY <2>2, <2>3
<1>5. PhilOnlyTheWave'
  <2> SUFFICES ASSUME late = 0, NEW k \in Phil!Philosophers
               PROVE  IF k \in PhilBidden' THEN PhilInMeal(k)' ELSE PhilIdle(k)'
    BY <1>1 DEF PhilOnlyTheWave
  <2>1. IF k \in PhilBidden THEN PhilInMeal(k) ELSE PhilIdle(k)
    BY DEF PhilIInv, PhilOnlyTheWave
  <2>2. CASE k = n
    BY <1>1, <2>1, <2>2 DEF PhilInMeal, PhilIdle
  <2>3. CASE k # n
    BY <1>1, <2>1, <2>3 DEF PhilInMeal, PhilIdle
  <2>4. QED
    BY <2>2, <2>3
<1>6. PhilInTurn'
  <2> SUFFICES ASSUME NEW p \in Phil!Philosophers, NEW k \in Phil!Philosophers
               PROVE  begun'[p] - begun'[k] = PhilTurns(p)' - PhilTurns(k)'
    BY DEF PhilInTurn
  <2>1. begun[p] - begun[k] = PhilTurns(p) - PhilTurns(k)
    BY DEF PhilIInv, PhilInTurn
  <2>2. begun[p] \in Int /\ begun[k] \in Int /\ PhilTurns(p) \in Int /\ PhilTurns(k) \in Int
    BY DEF PhilIInv, PhilTypes, PhilTurns, PhilIs
  <2> DEFINE bp == begun[p]  bk == begun[k]  tp == PhilTurns(p)  tk == PhilTurns(k)
             gp == PhilIs(p = n)  gk == PhilIs(k = n)
             bpNew == begun'[p]  bkNew == begun'[k]
             tpNew == PhilTurns(p)'  tkNew == PhilTurns(k)'
  <2>3. /\ bp - bk = tp - tk
        /\ bp \in Int /\ bk \in Int /\ tp \in Int /\ tk \in Int /\ gp \in Int /\ gk \in Int
        /\ bpNew = bp + gp /\ bkNew = bk + gk /\ tpNew = tp + gp /\ tkNew = tk + gk
    BY <1>2, <2>1, <2>2 DEF PhilIs
  <2> HIDE DEF bp, bk, tp, tk, gp, gk, bpNew, bkNew, tpNew, tkNew
  <2>4. bpNew - bkNew = tpNew - tkNew
    BY ONLY <2>3
  <2>5. QED
    BY <2>4 DEF bpNew, bkNew, tpNew, tkNew
<1>7. QED
  BY <1>3, <1>4, <1>5, <1>6 DEF PhilIInv

LEMMA PhilStartFirstIInv == PhilIInv /\ Phil!StartFirst => PhilIInv'
<1> SUFFICES ASSUME PhilIInv, Phil!StartFirst PROVE PhilIInv'
  OBVIOUS
<1>1. mpc = "loop" /\ mpc' = "second" /\ Phil!Start(Phil!First) /\ wave_idx' = wave_idx
  BY DEF Phil!StartFirst, Phil!MainAt, Phil!Start
<1>2. Phil!First \in Phil!Philosophers /\ Phil!First # Phil!Second
        /\ Phil!First' = Phil!First /\ Phil!Second' = Phil!Second
  BY <1>1, PhilWaveShape DEF PhilIInv, PhilTypes, Phil!First, Phil!Second
<1>3. PhilInWaves /\ PhilInWaves' /\ Phil!First \notin PhilBidden
        /\ PhilBidden' = PhilBidden \cup {Phil!First}
  BY <1>1, <1>2 DEF PhilInWaves, PhilBidden
<1>4. \A k \in Phil!Philosophers : PhilTurns(k)' = IF k = Phil!First THEN PhilTurns(k) + 1
        ELSE PhilTurns(k)
  BY <1>1, <1>2 DEF PhilTurns, PhilIs
<1>5. QED
  BY <1>1, <1>2, <1>3, <1>4, PhilStartIInv

LEMMA PhilStartSecondIInv == PhilIInv /\ Phil!StartSecond => PhilIInv'
<1> SUFFICES ASSUME PhilIInv, Phil!StartSecond PROVE PhilIInv'
  OBVIOUS
<1>1. mpc = "second" /\ mpc' = "await" /\ Phil!Start(Phil!Second) /\ wave_idx' = wave_idx
  BY DEF Phil!StartSecond, Phil!MainAt, Phil!Start
<1>2. Phil!Second \in Phil!Philosophers /\ Phil!First # Phil!Second
        /\ Phil!First' = Phil!First /\ Phil!Second' = Phil!Second
  BY <1>1, PhilWaveShape DEF PhilIInv, PhilTypes, Phil!First, Phil!Second
<1>3. PhilInWaves /\ PhilInWaves' /\ Phil!Second \notin PhilBidden
        /\ PhilBidden' = PhilBidden \cup {Phil!Second}
  BY <1>1, <1>2 DEF PhilInWaves, PhilBidden
<1>4. \A k \in Phil!Philosophers : PhilTurns(k)' = IF k = Phil!Second
        THEN PhilTurns(k) + 1 ELSE PhilTurns(k)
  BY <1>1, <1>2 DEF PhilTurns, PhilIs
<1>5. QED
  BY <1>1, <1>2, <1>3, <1>4, PhilStartIInv

\* Main takes or clears done events of the wave, or goes on after a timeout.
LEMMA PhilClearIInv ==
  ASSUME PhilIInv, PhilInWaves, PhilInWaves', UNCHANGED <<start_evt, wpc, begun, meals>>,
         mpc' \in {"loop", "clear", "clear2"},
         done_evt' \subseteq done_evt,
         wave_idx' \in 1 .. 5, late' \in Nat, late' >= late,
         late' = 0 => \A k \in Phil!Philosophers : PhilIdle(k)',
         \A n, k \in Phil!Philosophers :
           PhilTurns(n)' - PhilTurns(k)' = PhilTurns(n) - PhilTurns(k)
  PROVE  PhilIInv'
<1>1. PhilTypes'
  BY DEF PhilIInv, PhilTypes
<1>2. late' = 0 => late = 0
  BY DEF PhilIInv, PhilTypes
<1>3. PhilRepays'
  <2>1. \A k \in Phil!Philosophers : PhilRepaid(k)' = PhilRepaid(k)
    BY DEF PhilRepaid, Phil!Eats
  <2>2. QED
    BY <1>2, <2>1 DEF PhilIInv, PhilRepays
<1>4. PhilBidden' = {}
  BY DEF PhilBidden
<1>5. PhilOnlyTheWave'
  BY <1>4 DEF PhilOnlyTheWave
<1>6. PhilInTurn'
  BY DEF PhilIInv, PhilInTurn
<1>7. QED
  BY <1>1, <1>3, <1>5, <1>6 DEF PhilIInv

LEMMA PhilAwaitIInv == PhilIInv /\ (Phil!AwaitBoth \/ Phil!AwaitTimeout) => PhilIInv'
<1> SUFFICES ASSUME PhilIInv, Phil!AwaitBoth \/ Phil!AwaitTimeout PROVE PhilIInv'
  OBVIOUS
<1>1. /\ mpc = "await" /\ mpc' = "clear" /\ PhilInWaves /\ PhilInWaves'
      /\ UNCHANGED <<start_evt, wpc, wave_idx, begun, meals>>
      /\ done_evt' \subseteq done_evt
  BY DEF Phil!AwaitBoth, Phil!AwaitTimeout, Phil!MainAt, PhilInWaves, Phil!eventVars
<1>2. wave_idx \in 1 .. 5 /\ late \in Nat
  BY DEF PhilIInv, PhilTypes
<1>3. \A n \in Phil!Philosophers : PhilTurns(n)' = PhilTurns(n)
  BY <1>1 DEF PhilTurns, Phil!First, Phil!Second
<1>4. late' \in Nat /\ late' >= late
  BY <1>2 DEF Phil!AwaitBoth, Phil!AwaitTimeout
<1>5. late' = 0 => \A k \in Phil!Philosophers : PhilIdle(k)'
  <2> SUFFICES ASSUME late' = 0, NEW k \in Phil!Philosophers PROVE PhilIdle(k)'
    OBVIOUS
  <2>1. Phil!AwaitBoth /\ late = 0
    BY <1>2 DEF Phil!AwaitBoth, Phil!AwaitTimeout
  <2>2. IF k \in {Phil!First, Phil!Second} THEN PhilInMeal(k) ELSE PhilIdle(k)
    BY <1>1, <2>1 DEF PhilIInv, PhilOnlyTheWave, PhilBidden
  <2>3. QED
    BY <1>1, <2>1, <2>2 DEF Phil!AwaitBoth, PhilInMeal, PhilIdle
<1>6. QED
  BY <1>1, <1>2, <1>3, <1>4, <1>5, PhilClearIInv

LEMMA PhilClearFirstIInv == PhilIInv /\ Phil!ClearFirst => PhilIInv'
<1> SUFFICES ASSUME PhilIInv, Phil!ClearFirst PROVE PhilIInv'
  OBVIOUS
<1>1. /\ mpc = "clear" /\ mpc' = "clear2" /\ PhilInWaves /\ PhilInWaves'
      /\ UNCHANGED <<start_evt, wpc, wave_idx, begun, meals, late>>
      /\ done_evt' \subseteq done_evt
  BY DEF Phil!ClearFirst, Phil!MainAt, PhilInWaves
<1>2. wave_idx \in 1 .. 5 /\ late \in Nat
  BY DEF PhilIInv, PhilTypes
<1>3. \A n \in Phil!Philosophers : PhilTurns(n)' = PhilTurns(n)
  BY <1>1 DEF PhilTurns, Phil!First, Phil!Second
<1>4. late' = 0 => \A k \in Phil!Philosophers : PhilIdle(k)'
  BY <1>1 DEF PhilIInv, PhilOnlyTheWave, PhilBidden, PhilIdle
<1>5. QED
  BY <1>1, <1>2, <1>3, <1>4, PhilClearIInv

LEMMA PhilClearSecondIInv == PhilIInv /\ Phil!ClearSecond => PhilIInv'
<1> SUFFICES ASSUME PhilIInv, Phil!ClearSecond PROVE PhilIInv'
  OBVIOUS
<1>1. /\ mpc = "clear2" /\ mpc' = "loop" /\ PhilInWaves /\ PhilInWaves'
      /\ UNCHANGED <<start_evt, wpc, begun, meals, late>>
      /\ done_evt' \subseteq done_evt /\ wave_idx' = (wave_idx % 5) + 1
  BY DEF Phil!ClearSecond, Phil!MainAt, PhilInWaves
<1>2. wave_idx \in 1 .. 5 /\ late \in Nat
  BY DEF PhilIInv, PhilTypes
<1>3. wave_idx' = IF wave_idx = 5 THEN 1 ELSE wave_idx + 1
  BY <1>1, <1>2
<1>4. \A n \in Phil!Philosophers : PhilTurns(n)' = IF wave_idx = 5 THEN PhilTurns(n) - 2
        ELSE PhilTurns(n)
  <2> SUFFICES ASSUME NEW n \in Phil!Philosophers
               PROVE  PhilTurns(n)' = IF wave_idx = 5 THEN PhilTurns(n) - 2 ELSE PhilTurns(n)
    OBVIOUS
  <2>1. n \in {0, 1, 2, 3, 4}
    BY DEF Phil!Philosophers
  <2>2. /\ wave_idx = 1 => Phil!First = 1 /\ Phil!Second = 4
        /\ wave_idx = 2 => Phil!First = 2 /\ Phil!Second = 0
        /\ wave_idx = 3 => Phil!First = 3 /\ Phil!Second = 1
        /\ wave_idx = 4 => Phil!First = 4 /\ Phil!Second = 2
        /\ wave_idx = 5 => Phil!First = 0 /\ Phil!Second = 3
    BY <1>2, PhilWaveShape
  <2>3. PhilTurns(n) = PhilIs(wave_idx > 1 /\ n \in {1, 4}) + PhilIs(wave_idx > 2 /\ n \in {2,
          0})
                     + PhilIs(wave_idx > 3 /\ n \in {3, 1}) + PhilIs(wave_idx > 4 /\ n \in {4,
                       2})
                     + PhilIs(n = Phil!First) + PhilIs(n = Phil!Second)
    BY <1>1 DEF PhilTurns, PhilIs
  <2>4. PhilTurns(n)' = PhilIs(wave_idx' > 1 /\ n \in {1, 4}) + PhilIs(wave_idx' > 2
          /\ n \in {2, 0})
                      + PhilIs(wave_idx' > 3 /\ n \in {3, 1}) + PhilIs(wave_idx' > 4
                        /\ n \in {4, 2})
    BY <1>1, <1>2, <1>3 DEF PhilTurns, PhilIs
  <2>5. CASE wave_idx = 1
    BY <1>3, <2>1, <2>2, <2>3, <2>4, <2>5 DEF PhilIs
  <2>6. CASE wave_idx = 2
    BY <1>3, <2>1, <2>2, <2>3, <2>4, <2>6 DEF PhilIs
  <2>7. CASE wave_idx = 3
    BY <1>3, <2>1, <2>2, <2>3, <2>4, <2>7 DEF PhilIs
  <2>8. CASE wave_idx = 4
    BY <1>3, <2>1, <2>2, <2>3, <2>4, <2>8 DEF PhilIs
  <2>9. CASE wave_idx = 5
    BY <1>3, <2>1, <2>2, <2>3, <2>4, <2>9 DEF PhilIs
  <2>10. QED
    BY <1>2, <2>5, <2>6, <2>7, <2>8, <2>9
<1>5. \A n, k \in Phil!Philosophers : PhilTurns(n)' - PhilTurns(k)' = PhilTurns(n) - PhilTurns(k)
  <2>1. \A n \in Phil!Philosophers : PhilTurns(n) \in Int
    BY DEF PhilTurns, PhilIs
  <2>2. QED
    BY <1>4, <2>1
<1>6. late' = 0 => \A k \in Phil!Philosophers : PhilIdle(k)'
  BY <1>1 DEF PhilIInv, PhilOnlyTheWave, PhilBidden, PhilIdle
<1>7. wave_idx' \in 1 .. 5 /\ late' \in Nat /\ late' >= late
  BY <1>1, <1>2, <1>3
<1>8. QED
  BY <1>1, <1>5, <1>6, <1>7, PhilClearIInv

\* Main has left the loop, or leaves it: nobody has a start event left.
LEMMA PhilEndIInv == PhilIInv /\ (Phil!LeaveLoop \/ Phil!Terminate) => PhilIInv'
<1> SUFFICES ASSUME PhilIInv, Phil!LeaveLoop \/ Phil!Terminate PROVE PhilIInv'
  OBVIOUS
<1>1. /\ UNCHANGED <<start_evt, done_evt, wave_idx, begun, meals, late>>
      /\ mpc' \in {"terminate", "over"} /\ ~PhilInWaves'
      /\ mpc \in {"loop", "terminate"}
  BY DEF Phil!LeaveLoop, Phil!Terminate, Phil!MainAt, Phil!eventVars, PhilInWaves
<1>2. /\ \A k \in Phil!Philosophers : wpc'[k] = wpc[k] \/ wpc'[k] = "terminated"
      /\ wpc' \in [Phil!Philosophers -> {"wait", "started", "eating", "ended", "printed",
           "terminated"}]
  BY DEF PhilIInv, PhilTypes, Phil!LeaveLoop, Phil!Terminate
<1>3. PhilTypes'
  BY <1>1, <1>2 DEF PhilIInv, PhilTypes
<1>4. late = 0 => \A k \in Phil!Philosophers : wpc[k] \in {"wait", "terminated"}
        /\ k \notin start_evt
  BY <1>1 DEF PhilIInv, PhilOnlyTheWave, PhilInWaves, PhilBidden, PhilIdle
<1>5. PhilOnlyTheWave'
  BY <1>1, <1>2, <1>4 DEF PhilOnlyTheWave
<1>6. PhilRepays' /\ PhilInTurn'
  BY <1>1 DEF PhilRepays, PhilInTurn
<1>7. QED
  BY <1>3, <1>5, <1>6 DEF PhilIInv

----------------------------------------------------------------------------
LEMMA PhilInitIInv == Phil!Init => PhilIInv
<1> SUFFICES ASSUME Phil!Init PROVE PhilIInv
  OBVIOUS
<1>1. /\ start_evt = {} /\ done_evt = {} /\ mpc = "loop" /\ wave_idx = 1 /\ late = 0
      /\ wpc = [n \in Phil!Philosophers |-> "wait"]
      /\ begun = [n \in Phil!Philosophers |-> 0] /\ meals = [n \in Phil!Philosophers |-> 0]
  BY DEF Phil!Init, Phil!Zero
<1>2. PhilTypes
  BY <1>1 DEF PhilTypes
<1>3. PhilRepays
  BY <1>1 DEF PhilRepays, PhilRepaid, Phil!Eats, PhilIs
<1>4. PhilOnlyTheWave
  BY <1>1 DEF PhilOnlyTheWave, PhilBidden, PhilIdle, PhilInWaves
<1>5. PhilInTurn
  <2>1. \A n \in Phil!Philosophers : PhilTurns(n) = 0
    BY <1>1 DEF PhilTurns, PhilIs
  <2>2. QED
    BY <1>1, <2>1 DEF PhilInTurn
<1>6. QED
  BY <1>2, <1>3, <1>4, <1>5 DEF PhilIInv

LEMMA PhilNextIInv == PhilIInv /\ [Phil!Next]_(Phil!vars) => PhilIInv'
<1> SUFFICES ASSUME PhilIInv, [Phil!Next]_(Phil!vars) PROVE PhilIInv'
  OBVIOUS
<1>1. CASE Phil!Next
  BY <1>1, PhilPhilosopherIInv, PhilStartFirstIInv, PhilStartSecondIInv, PhilAwaitIInv,
     PhilClearFirstIInv,
     PhilClearSecondIInv, PhilEndIInv DEF Phil!Next, Phil!Main
<1>2. CASE UNCHANGED Phil!vars
  <2>1. UNCHANGED <<start_evt, done_evt, wpc, mpc, wave_idx, begun, meals, late>>
    BY <1>2 DEF Phil!vars, Phil!eventVars
  <2>2. PhilTypes' /\ PhilRepays'
    BY <2>1 DEF PhilIInv, PhilTypes, PhilRepays, PhilRepaid, Phil!Eats, PhilInWaves
  <2>3. PhilOnlyTheWave'
    BY <2>1 DEF PhilIInv, PhilOnlyTheWave, PhilInWaves, PhilBidden, PhilInMeal, PhilIdle,
       Phil!First, Phil!Second
  <2>4. PhilInTurn'
    BY <2>1 DEF PhilIInv, PhilInTurn, PhilInWaves, PhilTurns, Phil!First, Phil!Second
  <2>5. QED
    BY <2>2, <2>3, <2>4 DEF PhilIInv
<1>3. QED
  BY <1>1, <1>2

LEMMA PhilApart == PhilIInv => Phil!NeighboursApart
<1> SUFFICES ASSUME PhilIInv, late = 0, NEW n \in Phil!Philosophers
             PROVE  /\ ~(Phil!Eats(n) /\ Phil!Eats(Phil!Neighbour(n)))
                    /\ ~(Phil!ShownEating(n) /\ Phil!ShownEating(Phil!Neighbour(n)))
  BY DEF Phil!NeighboursApart
<1>1. /\ Phil!First \in Phil!Philosophers /\ Phil!Second \in Phil!Philosophers
      /\ Phil!Neighbour(Phil!First) # Phil!Second /\ Phil!Neighbour(Phil!Second) # Phil!First
      /\ Phil!Neighbour(n) \in Phil!Philosophers /\ Phil!Neighbour(n) # n
  BY PhilWaveShape DEF PhilIInv, PhilTypes
<1>2. PhilBidden \subseteq {Phil!First, Phil!Second}
  BY DEF PhilBidden
<1>3. ~(n \in PhilBidden /\ Phil!Neighbour(n) \in PhilBidden)
  BY <1>1, <1>2
<1>4. \A k \in Phil!Philosophers : k \notin PhilBidden => ~Phil!Eats(k) /\ ~Phil!ShownEating(k)
  BY DEF PhilIInv, PhilOnlyTheWave, PhilIdle, Phil!Eats, Phil!ShownEating, PhilInWaves,
         PhilBidden
<1>5. QED
  BY <1>1, <1>3, <1>4

LEMMA PhilInTurns == PhilIInv => Phil!MealsInTurn
<1> SUFFICES ASSUME PhilIInv PROVE Phil!MealsInTurn
  OBVIOUS
<1>1. ASSUME NEW n \in Phil!Philosophers, mpc \notin {"terminate", "over"}
      PROVE  LET owed == IF n \in start_evt THEN 1 ELSE 0
                 now == IF Phil!Eats(n) THEN 1 ELSE 0
             IN  /\ meals[n] + now + owed <= begun[n]
                 /\ late = 0 => meals[n] + now + owed = begun[n]
  BY <1>1 DEF PhilIInv, PhilRepays, PhilInWaves, PhilRepaid, PhilIs
<1>2. ASSUME late = 0, mpc = "loop", NEW n \in Phil!Philosophers, NEW k \in Phil!Philosophers
      PROVE  meals[n] <= meals[k] + 1
  <2>1. PhilInWaves /\ \A p \in Phil!Philosophers : PhilIdle(p)
    BY <1>2 DEF PhilIInv, PhilOnlyTheWave, PhilBidden, PhilInWaves
  <2>2. \A p \in Phil!Philosophers : meals[p] \in Int /\ meals[p] = begun[p]
    BY <1>2, <2>1 DEF PhilIInv, PhilTypes, PhilRepays, PhilRepaid, PhilIs, PhilIdle, Phil!Eats
  <2>3. begun[n] - begun[k] = PhilTurns(n) - PhilTurns(k)
    BY <2>1 DEF PhilIInv, PhilInTurn
  <2>4. wave_idx \in {1, 2, 3, 4, 5} /\ n \in {0, 1, 2, 3, 4} /\ k \in {0, 1, 2, 3, 4}
    BY DEF PhilIInv, PhilTypes, Phil!Philosophers
  <2>5. /\ PhilTurns(n) \in {0, 1, 2} /\ PhilTurns(k) \in {0, 1, 2}
        /\ PhilTurns(n) = 2 => PhilTurns(k) # 0
    BY <1>2, <2>4 DEF PhilTurns, PhilIs
  <2>6. QED
    BY <2>2, <2>3, <2>5
<1>3. QED
  BY <1>1, <1>2 DEF Phil!MealsInTurn

----------------------------------------------------------------------------
(* msort: the proofs of its pool are those of the module instantiated here. *)

MP == INSTANCE MSortPoolProofs

\* The instance has its own Cardinality, and it is the same.
LEMMA SameCardinality ==
  /\ MP!Cardinality(Workers) = Cardinality(Workers)
  /\ MP!IsFiniteSet(Workers) <=> IsFiniteSet(Workers)
BY DEF Cardinality, MP!Cardinality, IsFiniteSet, MP!IsFiniteSet

\* Induction and least elements, over sets, as MSortPoolProofs proves them.
LEMMA Induction ==
  ASSUME NEW S, 0 \in S, \A n \in Nat : n \in S => n + 1 \in S
  PROVE  Nat \subseteq S
BY MP!Induction, SameCardinality, WorkersAssumption, QueueAssumption, MSortAssumption, QSortAssumption,
   ChessAssumption, PhilAssumption, Zenon
   DEF WorkersAssumption, QueueAssumption, MSortAssumption, QSortAssumption, ChessAssumption,
   PhilAssumption

LEMMA LeastElement ==
  ASSUME NEW S \in SUBSET Nat, S # {}
  PROVE  \E n \in S : \A m \in S : n <= m
BY MP!LeastElement, SameCardinality, WorkersAssumption, QueueAssumption, MSortAssumption,
   QSortAssumption, ChessAssumption, PhilAssumption, Zenon
   DEF WorkersAssumption, QueueAssumption, MSortAssumption, QSortAssumption, ChessAssumption,
   PhilAssumption

----------------------------------------------------------------------------
(* Division. *)

LEMMA DivMod ==
  ASSUME NEW a \in Int, NEW b \in Int, b > 0
  PROVE  a % b \in 0 .. b - 1 /\ a \div b \in Int /\ a = b * (a \div b) + (a % b)
OBVIOUS

LEMMA Multiples ==
  ASSUME NEW b \in Int, b > 0, NEW p \in Int, NEW q \in Int, p > q
  PROVE  b * p >= b * q + b
OBVIOUS

LEMMA DivUnique ==
  ASSUME NEW b \in Int, b > 0, NEW p \in Int, NEW q \in Int,
         NEW r \in 0 .. b - 1, NEW s \in 0 .. b - 1, b * p + r = b * q + s
  PROVE  p = q /\ r = s
<1>1. ~ (p > q)
  BY Multiples
<1>2. ~ (q > p)
  BY Multiples
<1>. QED
  BY <1>1, <1>2

LEMMA ModMinus ==
  ASSUME NEW a \in Int, NEW b \in Int, b > 0
  PROVE  (a - b) % b = a % b
<1>1. PICK p \in Int : p = a \div b
  BY DivMod
<1>2. PICK r \in 0 .. b - 1 : r = a % b
  BY DivMod
<1>3. PICK q \in Int : q = (a - b) \div b
  BY DivMod
<1>4. PICK s \in 0 .. b - 1 : s = (a - b) % b
  BY DivMod
<1>5. a = b * p + r
  BY <1>1, <1>2, DivMod
<1>6. a - b = b * q + s
  BY <1>3, <1>4, DivMod
<1>7. b * (p - 1) + r = b * q + s
  BY <1>5, <1>6
<1>8. r = s
  <2>1. p - 1 \in Int
    OBVIOUS
  <2>. QED
    BY ONLY <1>7, <2>1, DivUnique, b \in Int, b > 0, q \in Int, r \in 0 .. b - 1, s \in 0 .. b - 1
<1>. QED
  BY <1>2, <1>4, <1>8

----------------------------------------------------------------------------
(* The numbers of expr.cpp: what the table holds. *)

\* The table of ways as its definition has it, up to cells with a given sum.
ExprRight(f, c) ==
  f[c] = IF c[1] = 0 THEN 1
         ELSE IF c[2] = 0 THEN 0
         ELSE f[<<c[1], c[2] - 1>>] + IF c[1] >= c[2] THEN f[<<c[1] - c[2], c[2]>>] ELSE 0

ExprCellsBelow(m) == {c \in Expr!Cells : c[1] + c[2] <= m}

LEMMA ExprCell ==
  ASSUME NEW c \in Expr!Cells
  PROVE  c[1] \in 0 .. NExpr /\ c[2] \in 0 .. NExpr
BY DEF Expr!Cells, Expr!Rows

LEMMA ExprIsCell ==
  ASSUME NEW a \in 0 .. NExpr, NEW b \in 0 .. NExpr
  PROVE  <<a, b>> \in Expr!Cells /\ <<a, b>>[1] = a /\ <<a, b>>[2] = b
BY DEF Expr!Cells, Expr!Rows

\* The cells that a cell is computed from.
LEMMA ExprCells ==
  ASSUME NEW c \in Expr!Cells, c[1] # 0, c[2] # 0, NEW m \in Nat, c[1] + c[2] <= m + 1
  PROVE  /\ <<c[1], c[2] - 1>> \in ExprCellsBelow(m)
         /\ c[1] >= c[2] => <<c[1] - c[2], c[2]>> \in ExprCellsBelow(m)
<1>1. c[1] \in 0 .. NExpr /\ c[2] \in 0 .. NExpr /\ c[2] - 1 \in 0 .. NExpr
  BY ExprCell
<1>2. c[1] >= c[2] => c[1] - c[2] \in 0 .. NExpr
  BY <1>1
<1>3. /\ <<c[1], c[2] - 1>> \in Expr!Cells
      /\ c[1] >= c[2] => <<c[1] - c[2], c[2]>> \in Expr!Cells
  BY <1>1, <1>2, ExprIsCell
<1>4. c[1] + (c[2] - 1) <= m /\ (c[1] - c[2]) + c[2] <= m
  BY <1>1
<1>. QED
  BY <1>3, <1>4 DEF ExprCellsBelow

LEMMA ExprTableExists ==
  \E f \in [Expr!Cells -> Nat] : \A c \in Expr!Cells : ExprRight(f, c)
<1>. DEFINE S == {m \in Nat : \E f \in [Expr!Cells -> Nat] :
                                 \A c \in ExprCellsBelow(m) : ExprRight(f, c)}
<1>1. 0 \in S
  <2>. DEFINE f == [c \in Expr!Cells |-> 1]
  <2>1. ASSUME NEW c \in ExprCellsBelow(0)
        PROVE  c \in Expr!Cells /\ c[1] = 0
    BY ExprCell DEF ExprCellsBelow
  <2>2. \A c \in ExprCellsBelow(0) : ExprRight(f, c)
    BY <2>1 DEF ExprRight
  <2>3. f \in [Expr!Cells -> Nat]
    OBVIOUS
  <2>. QED
    BY <2>2, <2>3
<1>2. ASSUME NEW m \in Nat, m \in S
      PROVE  m + 1 \in S
  <2>1. PICK f \in [Expr!Cells -> Nat] : \A c \in ExprCellsBelow(m) : ExprRight(f, c)
    BY <1>2
  <2>. DEFINE Next1(c) == IF c[1] = 0 THEN 1
                          ELSE IF c[2] = 0 THEN 0
                          ELSE f[<<c[1], c[2] - 1>>]
                                 + IF c[1] >= c[2] THEN f[<<c[1] - c[2], c[2]>>] ELSE 0
              g == [c \in Expr!Cells |-> IF c[1] + c[2] = m + 1 THEN Next1(c) ELSE f[c]]
  <2>2. ASSUME NEW c \in Expr!Cells
        PROVE  Next1(c) \in Nat
    <3>1. c[1] \in Nat /\ c[2] \in Nat /\ c[1] + c[2] <= (NExpr + NExpr) + 1
      BY ExprCell
    <3>2. CASE c[1] # 0 /\ c[2] # 0
      <4>1. /\ f[<<c[1], c[2] - 1>>] \in Nat
            /\ c[1] >= c[2] => f[<<c[1] - c[2], c[2]>>] \in Nat
        BY <3>1, <3>2, ExprCells DEF ExprCellsBelow
      <4>. QED
        BY <3>2, <4>1
    <3>. QED
      BY <3>2
  <2>3. g \in [Expr!Cells -> Nat]
    BY <2>2
  <2>4. ASSUME NEW c \in ExprCellsBelow(m)
        PROVE  g[c] = f[c]
    BY ExprCell DEF ExprCellsBelow
  <2>5. ASSUME NEW c \in ExprCellsBelow(m + 1)
        PROVE  ExprRight(g, c)
    <3>1. c \in Expr!Cells /\ c[1] + c[2] <= m + 1 /\ c[1] \in Nat /\ c[2] \in Nat
      BY ExprCell DEF ExprCellsBelow
    <3>2. CASE c[1] = 0 \/ c[2] = 0
      <4>1. CASE c[1] + c[2] = m + 1
        <5>1. g[c] = Next1(c)
          BY <3>1, <4>1
        <5>. HIDE DEF g
        <5>. QED
          BY <3>1, <3>2, <5>1 DEF ExprRight
      <4>2. CASE c[1] + c[2] <= m
        <5>1. g[c] = f[c] /\ ExprRight(f, c)
          BY <2>1, <2>4, <3>1, <4>2 DEF ExprCellsBelow
        <5>. HIDE DEF g
        <5>. QED
          BY <3>1, <3>2, <5>1 DEF ExprRight
      <4>. QED
        BY <3>1, <4>1, <4>2
    <3>3. CASE c[1] # 0 /\ c[2] # 0
      <4>0. /\ <<c[1], c[2] - 1>> \in ExprCellsBelow(m)
            /\ c[1] >= c[2] => <<c[1] - c[2], c[2]>> \in ExprCellsBelow(m)
        BY <3>1, <3>3, ExprCells
      <4>1. g[<<c[1], c[2] - 1>>] = f[<<c[1], c[2] - 1>>]
        BY <2>4, <4>0
      <4>2. c[1] >= c[2] => g[<<c[1] - c[2], c[2]>>] = f[<<c[1] - c[2], c[2]>>]
        BY <2>4, <4>0
      <4>3. CASE c[1] + c[2] = m + 1
        <5>1. g[c] = Next1(c)
          BY <3>1, <4>3
        <5>. HIDE DEF g
        <5>. QED
          BY <3>1, <3>3, <4>1, <4>2, <5>1 DEF ExprRight
      <4>4. CASE c[1] + c[2] <= m
        <5>1. g[c] = f[c] /\ ExprRight(f, c)
          BY <2>1, <2>4, <3>1, <4>4 DEF ExprCellsBelow
        <5>. HIDE DEF g
        <5>. QED
          BY <3>1, <3>3, <4>1, <4>2, <5>1 DEF ExprRight
      <4>. QED
        BY <3>1, <4>3, <4>4
    <3>. QED
      BY <3>2, <3>3
  <2>. HIDE DEF g
  <2>. QED
    BY <2>3, <2>5
<1>3. Nat \subseteq S
  <2>. HIDE DEF S
  <2>. QED
    BY <1>1, <1>2, Induction
<1>4. PICK f \in [Expr!Cells -> Nat] : \A c \in ExprCellsBelow(NExpr + NExpr) : ExprRight(f, c)
  BY <1>3
<1>5. Expr!Cells \subseteq ExprCellsBelow(NExpr + NExpr)
  BY ExprCell DEF ExprCellsBelow
<1>. QED
  BY <1>4, <1>5

LEMMA ExprWays ==
  /\ Expr!Ways \in [Expr!Cells -> Nat]
  /\ \A c \in Expr!Cells : ExprRight(Expr!Ways, c)
<1>. DEFINE Body(f) == [c \in Expr!Cells |->
        IF c[1] = 0 THEN 1
        ELSE IF c[2] = 0 THEN 0
        ELSE f[<<c[1], c[2] - 1>>] + IF c[1] >= c[2] THEN f[<<c[1] - c[2], c[2]>>] ELSE 0]
<1>1. PICK f \in [Expr!Cells -> Nat] : \A c \in Expr!Cells : ExprRight(f, c)
  BY ExprTableExists
<1>2. f = Body(f)
  BY <1>1 DEF ExprRight
<1>3. Expr!Ways = CHOOSE h : h = Body(h)
  BY DEF Expr!Ways
<1>4. Expr!Ways = Body(Expr!Ways)
  <2>. HIDE DEF Body
  <2>. QED
    BY <1>2, <1>3
<1>5. \A c \in Expr!Cells : ExprRight(Expr!Ways, c)
  BY <1>4 DEF ExprRight
<1>. DEFINE S == {m \in Nat : \A c \in ExprCellsBelow(m) : Expr!Ways[c] \in Nat}
<1>6. ASSUME NEW m \in Nat, NEW c \in ExprCellsBelow(m),
             m = 0 \/ m - 1 \in S
      PROVE  Expr!Ways[c] \in Nat
  <2>1. c \in Expr!Cells /\ c[1] + c[2] <= m /\ c[1] \in Nat /\ c[2] \in Nat
    BY ExprCell DEF ExprCellsBelow
  <2>2. CASE c[1] = 0 \/ c[2] = 0
    <3>1. Expr!Ways[c] = 1 \/ Expr!Ways[c] = 0
      <4>1. ExprRight(Expr!Ways, c)
        BY <1>5, <2>1
      <4>. QED
        BY <2>2, <4>1, Zenon DEF ExprRight
    <3>. QED
      BY <3>1
  <2>3. CASE c[1] # 0 /\ c[2] # 0
    <3>1. m # 0 /\ m - 1 \in Nat
      BY <2>1, <2>3
    <3>2. \A d \in ExprCellsBelow(m - 1) : Expr!Ways[d] \in Nat
      BY <1>6, <3>1
    <3>3. /\ Expr!Ways[<<c[1], c[2] - 1>>] \in Nat
          /\ c[1] >= c[2] => Expr!Ways[<<c[1] - c[2], c[2]>>] \in Nat
      <4>1. c[1] + c[2] <= (m - 1) + 1
        BY <2>1
      <4>. QED
        BY <2>1, <2>3, <3>1, <3>2, <4>1, ExprCells
    <3>4. ExprRight(Expr!Ways, c)
      BY <1>5, <2>1
    <3>. QED
      BY <2>3, <3>3, <3>4 DEF ExprRight
  <2>. QED
    BY <2>2, <2>3
<1>7. 0 \in S
  BY <1>6
<1>8. ASSUME NEW m \in Nat, m \in S
      PROVE  m + 1 \in S
  <2>1. m + 1 \in Nat /\ (m + 1) - 1 \in S
    BY <1>8
  <2>2. \A c \in ExprCellsBelow(m + 1) : Expr!Ways[c] \in Nat
    <3>. HIDE DEF S
    <3>. QED
      BY <1>6, <2>1
  <2>. QED
    BY <2>1, <2>2
<1>9. Nat \subseteq S
  <2>. HIDE DEF S
  <2>. QED
    BY <1>7, <1>8, Induction
<1>10. Expr!Cells \subseteq ExprCellsBelow(NExpr + NExpr)
  BY ExprCell DEF ExprCellsBelow
<1>11. \A c \in Expr!Cells : Expr!Ways[c] \in Nat
  BY <1>9, <1>10
<1>12. Expr!Ways = [c \in Expr!Cells |-> Expr!Ways[c]]
  BY <1>4
<1>. QED
  BY <1>5, <1>11, <1>12

\* The same, for the four kinds of cells.
LEMMA ExprWaysOf ==
  ASSUME NEW a \in Expr!Rows, NEW b \in Expr!Rows
  PROVE  /\ Expr!Ways[<<a, b>>] \in Nat
         /\ a = 0 => Expr!Ways[<<a, b>>] = 1
         /\ a # 0 /\ b = 0 => Expr!Ways[<<a, b>>] = 0
         /\ a # 0 /\ b # 0 /\ a < b => Expr!Ways[<<a, b>>] = Expr!Ways[<<a, b - 1>>]
         /\ a # 0 /\ b # 0 /\ a >= b =>
              Expr!Ways[<<a, b>>] = Expr!Ways[<<a, b - 1>>] + Expr!Ways[<<a - b, b>>]
<1>1. a \in 0 .. NExpr /\ b \in 0 .. NExpr
  BY DEF Expr!Rows
<1>2. <<a, b>> \in Expr!Cells /\ (b # 0 => <<a, b - 1>> \in Expr!Cells)
  BY <1>1, ExprIsCell
<1>3. Expr!Ways[<<a, b>>] = IF a = 0 THEN 1
         ELSE IF b = 0 THEN 0
         ELSE Expr!Ways[<<a, b - 1>>] + IF a >= b THEN Expr!Ways[<<a - b, b>>] ELSE 0
  BY <1>2, ExprWays DEF ExprRight
<1>4. Expr!Ways[<<a, b>>] \in Nat /\ (b # 0 => Expr!Ways[<<a, b - 1>>] \in Nat)
  BY <1>2, ExprWays
<1>. QED
  BY <1>1, <1>3, <1>4

\* What is added modulo b may be reduced before.
LEMMA Distribute ==
  ASSUME NEW b \in Int, NEW u \in Int, NEW v \in Int, NEW w \in Int
  PROVE  b * (u + v + w) = b * u + b * v + b * w
OBVIOUS

LEMMA ModAdd ==
  ASSUME NEW p \in Int, NEW q \in Int, NEW b \in Int, b > 0
  PROVE  (p + q) % b = ((p % b) + (q % b)) % b
<1>1. PICK m \in 0 .. b - 1 : m = p % b
  BY DivMod
<1>2. PICK n \in 0 .. b - 1 : n = q % b
  BY DivMod
<1>3. PICK u \in Int : p = b * u + m
  BY <1>1, DivMod
<1>4. PICK v \in Int : q = b * v + n
  BY <1>2, DivMod
<1>5. PICK k \in Int : k = m + n
  BY <1>1, <1>2
<1>6. PICK r \in 0 .. b - 1, w \in Int : r = k % b /\ k = b * w + r
  BY DivMod
<1>7. PICK l \in Int : l = p + q
  OBVIOUS
<1>8. PICK s \in 0 .. b - 1, z \in Int : s = l % b /\ l = b * z + s
  BY DivMod
<1>9. PICK y \in Int : y = u + v + w
  OBVIOUS
<1>10. b * y = b * u + b * v + b * w
  BY <1>9, Distribute
<1>11. b * y + r = b * z + s
  BY <1>3, <1>4, <1>5, <1>6, <1>7, <1>8, <1>10
<1>12. r = s
  BY <1>11, DivUnique
<1>. QED
  BY <1>1, <1>2, <1>5, <1>6, <1>7, <1>8, <1>12

\* The recurrence of the cells, which are counted modulo CellWord.
LEMMA ExprModOf ==
  ASSUME NEW a \in Expr!Rows, NEW b \in Expr!Rows
  PROVE  /\ Expr!Ways[<<a, b>>] % CellWord \in 0 .. CellWord - 1
         /\ a = 0 => Expr!Ways[<<a, b>>] % CellWord = 1
         /\ a # 0 /\ b = 0 => Expr!Ways[<<a, b>>] % CellWord = 0
         /\ a # 0 /\ b # 0 /\ a < b =>
              Expr!Ways[<<a, b>>] % CellWord = Expr!Ways[<<a, b - 1>>] % CellWord
         /\ a # 0 /\ b # 0 /\ a >= b =>
              Expr!Ways[<<a, b>>] % CellWord =
                ((Expr!Ways[<<a, b - 1>>] % CellWord) + (Expr!Ways[<<a - b, b>>] % CellWord)) % CellWord
<1>1. Expr!Ways[<<a, b>>] \in Nat
  BY ExprWaysOf
<1>2. 1 % CellWord = 1 /\ 0 % CellWord = 0
  OBVIOUS
<1>3. ASSUME a # 0, b # 0, a >= b
      PROVE  Expr!Ways[<<a, b>>] % CellWord =
               ((Expr!Ways[<<a, b - 1>>] % CellWord) + (Expr!Ways[<<a - b, b>>] % CellWord)) % CellWord
  <2>1. b - 1 \in Expr!Rows /\ a - b \in Expr!Rows
    BY <1>3 DEF Expr!Rows
  <2>2. PICK x \in Nat : x = Expr!Ways[<<a, b - 1>>]
    BY <2>1, ExprWaysOf
  <2>3. PICK y \in Nat : y = Expr!Ways[<<a - b, b>>]
    BY <2>1, ExprWaysOf
  <2>4. Expr!Ways[<<a, b>>] = x + y
    BY <1>3, <2>2, <2>3, ExprWaysOf
  <2>5. (x + y) % CellWord = ((x % CellWord) + (y % CellWord)) % CellWord
    <3>1. x \in Int /\ y \in Int /\ CellWord \in Int /\ CellWord > 0
      OBVIOUS
    <3>. QED
      BY <3>1, ModAdd, Zenon
  <2>6. Expr!Ways[<<a, b>>] % CellWord = (x + y) % CellWord
    BY <2>4
  <2>7. /\ Expr!Ways[<<a, b - 1>>] % CellWord = x % CellWord
        /\ Expr!Ways[<<a - b, b>>] % CellWord = y % CellWord
    BY <2>2, <2>3
  <2>. QED
    BY <2>5, <2>6, <2>7, Zenon
<1>4. Expr!Ways[<<a, b>>] % CellWord \in 0 .. CellWord - 1
  BY <1>1, DivMod
<1>. QED
  BY <1>2, <1>3, <1>4, ExprWaysOf

\* NextRow is a row that is left, and the first of them.
LEMMA ExprNextRow ==
  ASSUME NEW S \in SUBSET Nat, S # {}, NEW b \in Nat \ {0}
  PROVE  /\ Expr!NextRow(S, b) \in S
         /\ \A k \in S : \/ Expr!NextRow(S, b) % b < k % b
                         \/ Expr!NextRow(S, b) % b = k % b /\ Expr!NextRow(S, b) <= k
<1>. DEFINE First(a) == \A k \in S : a % b < k % b \/ (a % b = k % b /\ a <= k)
            R == {a % b : a \in S}
<1>0. \A a \in S : a \in Nat /\ a % b \in Nat
  OBVIOUS
<1>1. R \in SUBSET Nat /\ R # {}
  BY <1>0
<1>2. PICK r \in R : \A q \in R : r <= q
  BY <1>1, LeastElement
<1>. DEFINE T == {a \in S : a % b = r}
<1>3. T \in SUBSET Nat /\ T # {}
  OBVIOUS
<1>4. PICK a \in T : \A k \in T : a <= k
  BY <1>3, LeastElement
<1>5. First(a)
  <2>1. ASSUME NEW k \in S
        PROVE  a % b < k % b \/ (a % b = k % b /\ a <= k)
    <3>1. r <= k % b /\ a % b = r /\ k % b \in Nat /\ r \in Nat
      BY <1>0, <1>1, <1>2
    <3>2. CASE k % b = r
      BY <1>4, <3>1, <3>2
    <3>. QED
      BY <3>1, <3>2
  <2>. QED
    BY <2>1
<1>6. a \in S
  OBVIOUS
<1>7. Expr!NextRow(S, b) = CHOOSE i_1 \in S : First(i_1)
  BY DEF Expr!NextRow
<1>. HIDE DEF First
<1>8. Expr!NextRow(S, b) \in S /\ First(Expr!NextRow(S, b))
  BY <1>5, <1>6, <1>7
<1>. QED
  BY <1>8 DEF First

----------------------------------------------------------------------------
(* The types of expr.cpp, and the invariant of its table. *)

\* The rows a thread has left are its own, in an epoch.
ExprTodo ==
  \A t \in Expr!Threads : todo[t] # {} => seen[t] >= 1 /\ todo[t] \subseteq Expr!RowsOf(t, seen[t])

\* A row of the column that an epoch computes.
ExprIsRight(a, b) == dp[<<a, b>>] = Expr!Ways[<<a, b>>] % CellWord

\* The columns that are left are right, and the row of 0 is; so are the rows that main
\* has filled and those that a thread is through with.  A thread has no row left when it
\* counts itself.
ExprTable ==
  /\ \A b \in Expr!Rows : ExprIsRight(0, b)
  /\ \A a, b \in Expr!Rows : b < epoch => ExprIsRight(a, b)
  /\ mpc \in {"announce", "sleep", "recheck"} =>
       \A a \in Expr!Rows : a < epoch => ExprIsRight(a, epoch)
  /\ mpc \in {"sleep", "recheck"} =>
       \A t \in Expr!Threads : seen[t] = epoch =>
         \A a \in Expr!RowsOf(t, epoch) : a \in todo[t] \/ ExprIsRight(a, epoch)

ExprIdleDone == \A t \in Expr!Threads : wpc[t] # "compute" => todo[t] = {}

ExprTableInv ==
  /\ ExprIInv /\ Expr!TypeOK /\ ExprTodo /\ ExprIdleDone
  /\ early = {} => ExprTable

LEMMA ExprInitTable == Expr!Init => ExprTableInv
<1>. SUFFICES ASSUME Expr!Init
              PROVE  ExprTableInv
  OBVIOUS
<1>1. ExprIInv
  BY ExprInitIInv
<1>2. \A a, b \in Expr!Rows : dp[<<a, b>>] = IF a = 0 THEN 1 ELSE 0
  BY DEF Expr!Init, Expr!Cells
<1>3. Expr!TypeOK
  BY DEF Expr!Init, Expr!TypeOK
<1>4. ExprTodo /\ ExprIdleDone
  BY DEF Expr!Init, ExprTodo, ExprIdleDone
<1>5. 0 \in Expr!Rows /\ \A b \in Expr!Rows : b \in Int /\ (b < 1 => b = 0)
  BY DEF Expr!Rows
<1>6. ExprTable
  <2>1. \A b \in Expr!Rows : ExprIsRight(0, b)
    BY <1>2, <1>5, ExprModOf DEF ExprIsRight
  <2>2. ASSUME NEW a \in Expr!Rows, NEW b \in Expr!Rows, b < epoch
        PROVE  ExprIsRight(a, b)
    <3>1. b = 0
      BY <1>5, <2>2 DEF Expr!Init
    <3>2. dp[<<a, b>>] = IF a = 0 THEN 1 ELSE 0
      BY <1>2
    <3>. QED
      BY <3>1, <3>2, ExprModOf DEF ExprIsRight
  <2>3. mpc = "fill"
    BY DEF Expr!Init
  <2>. QED
    BY <2>1, <2>2, <2>3 DEF ExprTable
<1>. QED
  BY <1>1, <1>3, <1>4, <1>6 DEF ExprTableInv

\* What a thread reads to compute the next row of its epoch, in the table of types.
LEMMA ExprNextCell ==
  ASSUME Expr!TypeOK, ExprTodo, NEW t \in Expr!Threads, todo[t] # {},
         NEW b, b = seen[t], NEW a, a = Expr!NextRow(todo[t], b)
  PROVE  /\ a \in todo[t] /\ a \in Expr!RowsOf(t, b) /\ b \in 1 .. NExpr /\ a \in b .. NExpr
         /\ <<a, b>> \in Expr!Cells /\ <<a, b - 1>> \in Expr!Cells /\ <<a - b, b>> \in Expr!Cells
         /\ a - b >= b => a - b \in Expr!RowsOf(t, b) \ todo[t]
<1>1. b \in 1 .. NExpr /\ todo[t] \subseteq Expr!RowsOf(t, b)
  BY DEF Expr!TypeOK, ExprTodo
<1>2. todo[t] \in SUBSET Nat
  BY DEF Expr!TypeOK, Expr!Rows
<1>3. /\ a \in todo[t]
      /\ \A k \in todo[t] : a % b < k % b \/ (a % b = k % b /\ a <= k)
  <2>1. b \in Nat \ {0}
    BY <1>1
  <2>2. /\ Expr!NextRow(todo[t], b) \in todo[t]
        /\ \A k \in todo[t] :
             \/ Expr!NextRow(todo[t], b) % b < k % b
             \/ Expr!NextRow(todo[t], b) % b = k % b /\ Expr!NextRow(todo[t], b) <= k
    BY <1>2, <2>1, ExprNextRow
  <2>. QED
    BY <2>2
<1>4. a \in Expr!RowsOf(t, b) /\ a \in b .. NExpr /\ (a % b) % TExpr = t
  BY <1>1, <1>3 DEF Expr!RowsOf
<1>5. <<a, b>> \in Expr!Cells /\ <<a, b - 1>> \in Expr!Cells /\ <<a - b, b>> \in Expr!Cells
  BY <1>1, <1>4 DEF Expr!Cells, Expr!Rows
<1>6. ASSUME a - b >= b
      PROVE  a - b \in Expr!RowsOf(t, b) \ todo[t]
  <2>1. (a - b) % b = a % b
    BY <1>1, <1>4, ModMinus
  <2>2. a - b \in b .. NExpr
    BY <1>1, <1>4, <1>6
  <2>3. a - b \in Expr!RowsOf(t, b)
    BY <1>4, <2>1, <2>2 DEF Expr!RowsOf
  <2>4. a - b \notin todo[t]
    <3>1. a % b \in Nat /\ ~ (a <= a - b) /\ ~ (a % b < (a - b) % b)
      BY <1>1, <1>4, <2>1
    <3>. QED
      BY <1>3, <3>1
  <2>. QED
    BY <2>3, <2>4
<1>. QED
  BY <1>1, <1>3, <1>4, <1>5, <1>6

\* The steps of a thread.
LEMMA ExprCheckTable ==
  ASSUME ExprTableInv, NEW t \in Expr!Threads, Expr!Check(t)
  PROVE  ExprTableInv'
<1>1. ExprIInv'
  BY ExprCheckIInv DEF ExprTableInv
<1>2. /\ wpc[t] = "check" /\ todo[t] = {}
      /\ UNCHANGED <<start_epoch, finished, dp, mpc, epoch, result_val>>
  BY DEF Expr!Check, Expr!mainVars, ExprTableInv, ExprIdleDone
<1>3. CASE /\ wpc' = [wpc EXCEPT ![t] = "sleep"] \/ wpc' = [wpc EXCEPT ![t] = "exited"]
           /\ UNCHANGED <<seen, todo, early>>
  <2>1. Expr!TypeOK'
    BY <1>2, <1>3 DEF ExprTableInv, Expr!TypeOK
  <2>2. ExprTodo' /\ (ExprTable => ExprTable') /\ (early = {} <=> early' = {})
    BY <1>2, <1>3 DEF ExprTableInv, ExprTodo, ExprTable, ExprIsRight
  <2>3. ExprIdleDone'
    BY <1>2, <1>3 DEF ExprTableInv, ExprIdleDone, Expr!TypeOK
  <2>. QED
    BY <1>1, <2>1, <2>2, <2>3 DEF ExprTableInv
<1>4. CASE /\ seen[t] # start_epoch /\ start_epoch >= 0
           /\ seen' = [seen EXCEPT ![t] = start_epoch]
           /\ todo' = [todo EXCEPT ![t] = IF start_epoch = 0 THEN {}
                                         ELSE Expr!RowsOf(t, start_epoch)]
           /\ wpc' = [wpc EXCEPT ![t] = "compute"]
           /\ early' = IF start_epoch = 0 THEN early \cup {t} ELSE early
  <2>1. \A u \in Expr!Threads :
          /\ wpc'[u] = IF u = t THEN "compute" ELSE wpc[u]
          /\ seen'[u] = IF u = t THEN start_epoch ELSE seen[u]
          /\ todo'[u] = IF u = t THEN IF start_epoch = 0 THEN {} ELSE Expr!RowsOf(t, start_epoch)
                       ELSE todo[u]
    BY <1>4 DEF ExprTableInv, Expr!TypeOK
  <2>2. start_epoch \in 0 .. NExpr
    BY <1>4 DEF ExprTableInv, Expr!TypeOK
  <2>3. start_epoch # 0 => Expr!RowsOf(t, start_epoch) \subseteq Expr!Rows
    BY <2>2 DEF Expr!RowsOf, Expr!Rows
  <2>4. Expr!TypeOK'
    BY <1>2, <1>4, <2>2, <2>3 DEF ExprTableInv, Expr!TypeOK
  <2>5. ExprTodo'
    BY <2>1, <2>2 DEF ExprTableInv, ExprTodo
  <2>6. ExprIdleDone'
    BY <2>1 DEF ExprTableInv, ExprIdleDone
  <2>7. ASSUME early' = {}
        PROVE  ExprTable'
    <3>1. early = {} /\ start_epoch # 0 /\ ExprTable
      BY <1>4, <2>7 DEF ExprTableInv
    <3>2. ASSUME mpc' \in {"sleep", "recheck"}, NEW u \in Expr!Threads, seen'[u] = epoch',
                 NEW a \in Expr!RowsOf(u, epoch')
          PROVE  a \in todo'[u] \/ ExprIsRight(a, epoch)'
      <4>1. CASE u = t
        BY <1>2, <2>1, <3>1, <3>2, <4>1
      <4>2. CASE u # t
        BY <1>2, <2>1, <3>1, <3>2, <4>2 DEF ExprTable, ExprIsRight
      <4>. QED
        BY <4>1, <4>2
    <3>3. /\ \A b \in Expr!Rows : ExprIsRight(0, b)'
          /\ \A a, b \in Expr!Rows : b < epoch' => ExprIsRight(a, b)'
          /\ mpc' \in {"announce", "sleep", "recheck"} =>
               \A a \in Expr!Rows : a < epoch' => ExprIsRight(a, epoch)'
      BY <1>2, <3>1 DEF ExprTable, ExprIsRight
    <3>. QED
      BY <3>2, <3>3 DEF ExprTable
  <2>. QED
    BY <1>1, <2>4, <2>5, <2>6, <2>7 DEF ExprTableInv
<1>. QED
  BY <1>3, <1>4 DEF Expr!Check

LEMMA ExprComputeTable ==
  ASSUME ExprTableInv, NEW t \in Expr!Threads, Expr!Compute(t)
  PROVE  ExprTableInv'
<1>1. ExprIInv'
  BY ExprComputeIInv DEF ExprTableInv
<1>2. /\ wpc[t] = "compute"
      /\ UNCHANGED <<start_epoch, finished, seen, mpc, epoch, result_val, early>>
  BY DEF Expr!Compute, Expr!mainVars
<1>3. CASE todo[t] = {} /\ wpc' = [wpc EXCEPT ![t] = "count"] /\ UNCHANGED <<dp, todo>>
  <2>1. Expr!TypeOK'
    BY <1>2, <1>3 DEF ExprTableInv, Expr!TypeOK
  <2>2. ExprTodo' /\ (ExprTable => ExprTable')
    BY <1>2, <1>3 DEF ExprTableInv, ExprTodo, ExprTable, ExprIsRight
  <2>3. ExprIdleDone'
    BY <1>2, <1>3 DEF ExprTableInv, ExprIdleDone, Expr!TypeOK
  <2>. QED
    BY <1>1, <1>2, <2>1, <2>2, <2>3 DEF ExprTableInv
<1>4. CASE todo[t] # {}
  <2>1. PICK b : b = seen[t]
    OBVIOUS
  <2>2. PICK a : a = Expr!NextRow(todo[t], b)
    OBVIOUS
  <2>3. /\ dp' = [dp EXCEPT ![<<a, b>>] = (dp[<<a, b - 1>>] + dp[<<a - b, b>>]) % CellWord]
        /\ todo' = [todo EXCEPT ![t] = @ \ {a}]
        /\ wpc' = wpc
    BY <1>4, <2>1, <2>2 DEF Expr!Compute
  <2>4. /\ a \in todo[t] /\ a \in Expr!RowsOf(t, b) /\ b \in 1 .. NExpr /\ a \in b .. NExpr
        /\ <<a, b>> \in Expr!Cells /\ <<a, b - 1>> \in Expr!Cells /\ <<a - b, b>> \in Expr!Cells
        /\ a - b >= b => a - b \in Expr!RowsOf(t, b) \ todo[t]
    BY <1>4, <2>1, <2>2, ExprNextCell DEF ExprTableInv
  <2>5. /\ dp' \in [Expr!Cells -> 0 .. CellWord - 1]
        /\ dp'[<<a, b>>] = (dp[<<a, b - 1>>] + dp[<<a - b, b>>]) % CellWord
        /\ \A c \in Expr!Cells : c # <<a, b>> => dp'[c] = dp[c]
    <3>1. dp \in [Expr!Cells -> 0 .. CellWord - 1]
      BY DEF ExprTableInv, Expr!TypeOK
    <3>2. (dp[<<a, b - 1>>] + dp[<<a - b, b>>]) % CellWord \in 0 .. CellWord - 1
      BY <2>4, <3>1, DivMod
    <3>. HIDE DEF Expr!Cells
    <3>. QED
      BY <2>3, <2>4, <3>1, <3>2
  <2>6. \A u \in Expr!Threads : todo'[u] = IF u = t THEN todo[u] \ {a} ELSE todo[u]
    BY <2>3 DEF ExprTableInv, Expr!TypeOK
  <2>7. Expr!TypeOK'
    BY <1>2, <2>3, <2>5 DEF ExprTableInv, Expr!TypeOK
  <2>8. ExprTodo' /\ ExprIdleDone'
    BY <1>2, <2>3, <2>6 DEF ExprTableInv, ExprTodo, ExprIdleDone
  <2>9. ASSUME early = {}
        PROVE  ExprTable'
    <3>1. ExprTable /\ ExprPhases
      BY <2>9 DEF ExprTableInv, ExprIInv
    <3>2. mpc \in {"sleep", "recheck"} /\ epoch = b
      BY <1>2, <2>1, <3>1 DEF ExprTableInv, ExprIInv, ExprControlTypeOK, ExprPhases, ExprNotBegun,
         ExprWithin, ExprBetween, ExprStopping
    <3>3. a \in Expr!Rows /\ b \in Expr!Rows /\ b - 1 \in Expr!Rows /\ a - b \in Expr!Rows
      BY <2>4 DEF Expr!Rows
    <3>4. dp[<<a, b - 1>>] = Expr!Ways[<<a, b - 1>>] % CellWord
      BY <2>4, <3>1, <3>2, <3>3 DEF ExprTable, ExprIsRight
    <3>5. dp[<<a - b, b>>] = Expr!Ways[<<a - b, b>>] % CellWord
      <4>1. CASE a - b < b
        BY <3>1, <3>2, <3>3, <4>1 DEF ExprTable, ExprIsRight
      <4>2. CASE a - b >= b
        BY <2>1, <2>4, <3>1, <3>2, <4>2 DEF ExprTable, ExprIsRight
      <4>. QED
        BY <2>4, <4>1, <4>2
    <3>6. ExprIsRight(a, b)'
      <4>1. a # 0 /\ b # 0 /\ a >= b
        BY <2>4
      <4>. QED
        BY <2>5, <3>3, <3>4, <3>5, <4>1, ExprModOf DEF ExprIsRight
    <3>7. ASSUME NEW p \in Expr!Rows, NEW q \in Expr!Rows, ExprIsRight(p, q)
          PROVE  ExprIsRight(p, q)'
      <4>1. CASE p = a /\ q = b
        BY <3>6, <4>1
      <4>2. CASE ~ (p = a /\ q = b)
        <5>1. <<p, q>> \in Expr!Cells /\ <<p, q>> # <<a, b>>
          BY <4>2 DEF Expr!Cells
        <5>. QED
          BY <2>5, <3>7, <5>1 DEF ExprIsRight
      <4>. QED
        BY <4>1, <4>2
    <3>8. 0 \in Expr!Rows
      BY DEF Expr!Rows
    <3>9. ASSUME NEW u \in Expr!Threads, seen[u] = epoch, NEW p \in Expr!RowsOf(u, epoch)
          PROVE  p \in todo'[u] \/ ExprIsRight(p, epoch)'
      <4>1. p \in Expr!Rows
        BY <2>4, <3>2 DEF Expr!RowsOf, Expr!Rows
      <4>2. p \in todo[u] \/ ExprIsRight(p, epoch)
        BY <3>1, <3>2, <3>9 DEF ExprTable
      <4>3. CASE p = a
        BY <1>2, <3>2, <3>6, <4>3
      <4>4. CASE p # a
        BY <1>2, <2>6, <3>2, <3>3, <3>7, <4>1, <4>2, <4>4
      <4>. QED
        BY <4>3, <4>4
    <3>10. /\ \A q \in Expr!Rows : ExprIsRight(0, q)'
           /\ \A p, q \in Expr!Rows : q < epoch => ExprIsRight(p, q)'
           /\ \A p \in Expr!Rows : p < epoch => ExprIsRight(p, epoch)'
      BY <1>2, <3>1, <3>2, <3>3, <3>7, <3>8 DEF ExprTable
    <3>. QED
      BY <1>2, <3>9, <3>10 DEF ExprTable
  <2>. QED
    BY <1>1, <1>2, <2>7, <2>8, <2>9 DEF ExprTableInv
<1>. QED
  BY <1>3, <1>4 DEF Expr!Compute

LEMMA ExprCountTable ==
  ASSUME ExprTableInv, NEW t \in Expr!Threads, Expr!Count(t)
  PROVE  ExprTableInv'
<1>1. ExprIInv'
  BY ExprCountIInv DEF ExprTableInv
<1>2. /\ wpc[t] = "count" /\ wpc' = [wpc EXCEPT ![t] = "check"]
      /\ finished' = finished + 1
      /\ mpc' = mpc \/ (mpc = "sleep" /\ mpc' = "recheck")
      /\ UNCHANGED <<start_epoch, dp, seen, todo, epoch, result_val, early>>
  BY DEF Expr!Count
<1>3. Expr!TypeOK'
  BY <1>2 DEF ExprTableInv, Expr!TypeOK
<1>4. ExprTodo' /\ (ExprTable => ExprTable')
  BY <1>2 DEF ExprTableInv, ExprTodo, ExprTable, ExprIsRight
<1>5. ExprIdleDone'
  BY <1>2 DEF ExprTableInv, ExprIdleDone, Expr!TypeOK
<1>. QED
  BY <1>1, <1>2, <1>3, <1>4, <1>5 DEF ExprTableInv

\* The steps of main.
LEMMA ExprFillTable == ExprTableInv /\ Expr!Fill => ExprTableInv'
<1>. SUFFICES ASSUME ExprTableInv, Expr!Fill
              PROVE  ExprTableInv'
  OBVIOUS
<1>1. ExprIInv'
  BY ExprFillIInv DEF ExprTableInv
<1>2. /\ mpc = "fill" /\ mpc' = "announce" /\ epoch \in 1 .. NExpr
      /\ UNCHANGED <<start_epoch, finished, seen, wpc, todo, epoch, result_val, early>>
  BY DEF Expr!Fill, Expr!workerVars, ExprTableInv, Expr!TypeOK
<1>3. dp' = [c \in Expr!Cells |->
              IF c[2] = epoch /\ c[1] \in 1 .. epoch - 1 THEN dp[<<c[1], epoch - 1>>] ELSE dp[c]]
  BY DEF Expr!Fill
<1>4. ASSUME NEW p \in Expr!Rows, NEW q \in Expr!Rows
      PROVE  /\ <<p, q>> \in Expr!Cells /\ <<p, epoch - 1>> \in Expr!Cells
             /\ dp'[<<p, q>>] = IF q = epoch /\ p \in 1 .. epoch - 1 THEN dp[<<p, epoch - 1>>]
                               ELSE dp[<<p, q>>]
  BY <1>2, <1>3 DEF Expr!Cells, Expr!Rows
<1>5. dp' \in [Expr!Cells -> 0 .. CellWord - 1]
  <2>1. ASSUME NEW c \in Expr!Cells, c[2] = epoch, c[1] \in 1 .. epoch - 1
        PROVE  <<c[1], epoch - 1>> \in Expr!Cells
    BY <1>2, <2>1 DEF Expr!Cells, Expr!Rows
  <2>. QED
    BY <1>3, <2>1 DEF ExprTableInv, Expr!TypeOK
<1>6. Expr!TypeOK'
  BY <1>2, <1>5 DEF ExprTableInv, Expr!TypeOK
<1>7. ExprTodo' /\ ExprIdleDone'
  BY <1>2 DEF ExprTableInv, ExprTodo, ExprIdleDone
<1>8. ASSUME early = {}
      PROVE  ExprTable'
  <2>1. ExprTable
    BY <1>8 DEF ExprTableInv
  <2>2. ASSUME NEW p \in Expr!Rows, NEW q \in Expr!Rows, q < epoch \/ p = 0
        PROVE  ExprIsRight(p, q)'
    <3>1. ExprIsRight(p, q)
      BY <2>1, <2>2 DEF ExprTable
    <3>2. dp'[<<p, q>>] = dp[<<p, q>>]
      <4>1. ~ (q = epoch /\ p \in 1 .. epoch - 1)
        BY <1>2, <2>2 DEF Expr!Rows
      <4>. QED
        BY <1>4, <4>1
    <3>. QED
      BY <3>1, <3>2 DEF ExprIsRight
  <2>3. ASSUME NEW p \in Expr!Rows, p < epoch
        PROVE  ExprIsRight(p, epoch)'
    <3>1. epoch \in Expr!Rows /\ epoch - 1 \in Expr!Rows
      BY <1>2 DEF Expr!Rows
    <3>2. CASE p = 0
      BY <1>2, <2>2, <3>1, <3>2
    <3>3. CASE p # 0
      <4>1. p \in 1 .. epoch - 1
        BY <1>2, <2>3, <3>3 DEF Expr!Rows
      <4>2. dp'[<<p, epoch>>] = dp[<<p, epoch - 1>>]
        BY <1>4, <3>1, <4>1
      <4>3. dp[<<p, epoch - 1>>] = Expr!Ways[<<p, epoch - 1>>] % CellWord
        BY <1>2, <2>1, <3>1 DEF ExprTable, ExprIsRight
      <4>4. Expr!Ways[<<p, epoch>>] % CellWord = Expr!Ways[<<p, epoch - 1>>] % CellWord
        <5>1. epoch # 0 /\ p # 0 /\ p < epoch
          BY <1>2, <2>3, <3>3
        <5>. QED
          BY <3>1, <5>1, ExprModOf
      <4>. QED
        BY <1>2, <4>2, <4>3, <4>4 DEF ExprIsRight
    <3>. QED
      BY <3>2, <3>3
  <2>4. 0 \in Expr!Rows
    BY DEF Expr!Rows
  <2>. QED
    BY <1>2, <2>2, <2>3, <2>4 DEF ExprTable
<1>. QED
  BY <1>1, <1>2, <1>6, <1>7, <1>8 DEF ExprTableInv

LEMMA ExprAnnounceTable == ExprTableInv /\ Expr!Announce => ExprTableInv'
<1>. SUFFICES ASSUME ExprTableInv, Expr!Announce
              PROVE  ExprTableInv'
  OBVIOUS
<1>1. ExprIInv'
  BY ExprAnnounceIInv DEF ExprTableInv
<1>2. /\ mpc = "announce" /\ mpc' = "sleep" /\ start_epoch' = epoch /\ finished' = 0
      /\ UNCHANGED <<dp, seen, todo, epoch, result_val, early>>
  BY DEF Expr!Announce
<1>3. /\ wpc' \in [Expr!Threads -> {"check", "sleep", "compute", "count", "exited"}]
      /\ \A t \in Expr!Threads : wpc'[t] = IF wpc[t] = "sleep" THEN "check" ELSE wpc[t]
  BY ExprWoken DEF ExprTableInv, ExprIInv, Expr!Announce
<1>4. epoch \in 1 .. NExpr
  BY <1>2 DEF ExprTableInv, ExprIInv, ExprControlTypeOK
<1>5. Expr!TypeOK'
  BY <1>2, <1>3, <1>4 DEF ExprTableInv, Expr!TypeOK
<1>6. ExprTodo'
  BY <1>2 DEF ExprTableInv, ExprTodo
<1>7. ExprIdleDone'
  BY <1>2, <1>3 DEF ExprTableInv, ExprIdleDone
<1>8. ASSUME early = {}
      PROVE  ExprTable'
  <2>1. ExprTable /\ ExprPhases
    BY <1>8 DEF ExprTableInv, ExprIInv
  <2>2. \A t \in Expr!Threads : seen[t] # epoch
    BY <1>2, <1>4, <2>1 DEF ExprPhases, ExprNotBegun, ExprBetween
  <2>. QED
    BY <1>2, <2>1, <2>2 DEF ExprTable, ExprIsRight
<1>. QED
  BY <1>1, <1>2, <1>5, <1>6, <1>7, <1>8 DEF ExprTableInv

LEMMA ExprRecheckTable == ExprTableInv /\ Expr!Recheck => ExprTableInv'
<1>. SUFFICES ASSUME ExprTableInv, Expr!Recheck
              PROVE  ExprTableInv'
  OBVIOUS
<1>1. ExprIInv'
  BY ExprRecheckIInv DEF ExprTableInv
<1>2. /\ mpc = "recheck" /\ epoch \in 1 .. NExpr
      /\ UNCHANGED <<start_epoch, finished, dp, seen, wpc, todo, result_val, early>>
  BY DEF Expr!Recheck, Expr!workerVars, ExprTableInv, ExprIInv, ExprControlTypeOK
<1>3. ExprTodo' /\ ExprIdleDone'
  BY <1>2 DEF ExprTableInv, ExprTodo, ExprIdleDone
<1>4. CASE mpc' = "sleep" /\ UNCHANGED epoch
  <2>1. Expr!TypeOK' /\ (ExprTable => ExprTable')
    BY <1>2, <1>4 DEF ExprTableInv, Expr!TypeOK, ExprTable, ExprIsRight
  <2>. QED
    BY <1>1, <1>2, <1>3, <2>1 DEF ExprTableInv
<1>5. CASE ~(finished < TExpr) /\ mpc' = "fill" /\ epoch' = epoch + 1
  <2>1. Expr!TypeOK'
    BY <1>2, <1>5 DEF ExprTableInv, Expr!TypeOK
  <2>2. ASSUME early = {}
        PROVE  ExprTable'
    <3>1. ExprTable /\ ExprPhases
      BY <2>2 DEF ExprTableInv, ExprIInv
    <3>2. \A t \in Expr!Threads : seen[t] = epoch /\ todo[t] = {}
      <4>1. start_epoch = epoch /\ ExprThrough = Expr!Threads
        BY <1>2, <1>5, <3>1, ExprAllThrough DEF ExprPhases, ExprWithin
      <4>. QED
        BY <4>1 DEF ExprThrough, ExprTableInv, ExprIdleDone
    <3>3. ASSUME NEW p \in Expr!Rows
          PROVE  ExprIsRight(p, epoch)
      <4>1. CASE p < epoch
        BY <1>2, <3>1, <4>1 DEF ExprTable
      <4>2. CASE p >= epoch
        <5>1. PICK t : t = (p % epoch) % TExpr
          OBVIOUS
        <5>2. p % epoch \in Int
          BY <1>2, DivMod DEF Expr!Rows
        <5>3. t \in Expr!Threads
          BY <5>1, <5>2, DivMod DEF Expr!Threads
        <5>4. p \in Expr!RowsOf(t, epoch)
          BY <1>2, <4>2, <5>1 DEF Expr!RowsOf, Expr!Rows
        <5>. QED
          BY <1>2, <3>1, <3>2, <5>3, <5>4 DEF ExprTable
      <4>. QED
        BY <1>2, <4>1, <4>2 DEF Expr!Rows
    <3>4. ASSUME NEW p \in Expr!Rows, NEW q \in Expr!Rows, q < epoch + 1
          PROVE  ExprIsRight(p, q)
      <4>1. q < epoch \/ q = epoch
        BY <1>2, <3>4 DEF Expr!Rows
      <4>. QED
        BY <3>1, <3>3, <4>1 DEF ExprTable
    <3>5. \A b \in Expr!Rows : ExprIsRight(0, b)
      BY <3>1 DEF ExprTable
    <3>. QED
      BY <1>2, <1>5, <3>4, <3>5 DEF ExprTable, ExprIsRight
  <2>. QED
    BY <1>1, <1>2, <1>3, <2>1, <2>2 DEF ExprTableInv
<1>. QED
  BY <1>4, <1>5 DEF Expr!Recheck

LEMMA ExprStopTable == ExprTableInv /\ Expr!StopThreads => ExprTableInv'
<1>. SUFFICES ASSUME ExprTableInv, Expr!StopThreads
              PROVE  ExprTableInv'
  OBVIOUS
<1>1. ExprIInv'
  BY ExprStopIInv DEF ExprTableInv
<1>2. /\ mpc = "fill" /\ mpc' = "join" /\ start_epoch' = -1
      /\ result_val' = dp[<<NExpr, NExpr - 1>>]
      /\ UNCHANGED <<finished, dp, seen, todo, epoch, early>>
  BY DEF Expr!StopThreads
<1>3. /\ wpc' \in [Expr!Threads -> {"check", "sleep", "compute", "count", "exited"}]
      /\ \A t \in Expr!Threads : wpc'[t] = IF wpc[t] = "sleep" THEN "check" ELSE wpc[t]
  BY ExprWoken DEF ExprTableInv, ExprIInv, Expr!StopThreads
<1>4. result_val' \in 0 .. CellWord - 1
  <2>1. <<NExpr, NExpr - 1>> \in Expr!Cells
    BY DEF Expr!Cells, Expr!Rows
  <2>. QED
    BY <1>2, <2>1 DEF ExprTableInv, Expr!TypeOK
<1>5. Expr!TypeOK'
  BY <1>2, <1>3, <1>4 DEF ExprTableInv, Expr!TypeOK
<1>6. ExprTodo' /\ ExprIdleDone'
  BY <1>2, <1>3 DEF ExprTableInv, ExprTodo, ExprIdleDone
<1>7. ExprTable => ExprTable'
  BY <1>2 DEF ExprTable, ExprIsRight
<1>. QED
  BY <1>1, <1>2, <1>5, <1>6, <1>7 DEF ExprTableInv

LEMMA ExprMainTable ==
  ASSUME ExprTableInv, Expr!Join \/ Expr!SpuriousWakeup
  PROVE  ExprTableInv'
<1>1. ExprIInv'
  BY ExprJoinIInv, ExprSpuriousIInv DEF ExprTableInv
<1>2. UNCHANGED <<start_epoch, finished, dp, seen, todo, epoch, result_val, early>>
  BY DEF Expr!Join, Expr!workerVars, Expr!SpuriousWakeup
<1>3. /\ wpc' = wpc \/ \E t \in Expr!Threads : wpc[t] = "sleep" /\ wpc' = [wpc EXCEPT ![t] = "check"]
      /\ mpc' = mpc \/ (mpc = "join" /\ mpc' = "done") \/ (mpc = "sleep" /\ mpc' = "recheck")
  BY DEF Expr!Join, Expr!workerVars, Expr!SpuriousWakeup
<1>4. Expr!TypeOK'
  BY <1>2, <1>3 DEF ExprTableInv, Expr!TypeOK
<1>5. ExprTodo' /\ (ExprTable => ExprTable')
  BY <1>2, <1>3 DEF ExprTableInv, ExprTodo, ExprTable, ExprIsRight
<1>6. ExprIdleDone'
  BY <1>2, <1>3 DEF ExprTableInv, ExprIdleDone, Expr!TypeOK
<1>. QED
  BY <1>1, <1>2, <1>4, <1>5, <1>6 DEF ExprTableInv

LEMMA ExprNextTable == ExprTableInv /\ [Expr!Next]_(Expr!vars) => ExprTableInv'
<1>1. ASSUME ExprTableInv, UNCHANGED Expr!vars
      PROVE  ExprTableInv'
  <2>1. ExprIInv'
    BY <1>1, ExprNextIInv DEF ExprTableInv
  <2>2. UNCHANGED <<start_epoch, finished, dp, seen, wpc, todo, mpc, epoch, result_val, early>>
    BY <1>1 DEF Expr!vars, Expr!workerVars, Expr!mainVars
  <2>3. Expr!TypeOK' /\ ExprTodo' /\ ExprIdleDone' /\ (ExprTable => ExprTable')
    BY <1>1, <2>2 DEF ExprTableInv, Expr!TypeOK, ExprTodo, ExprIdleDone, ExprTable, ExprIsRight
  <2>. QED
    BY <1>1, <2>1, <2>2, <2>3 DEF ExprTableInv
<1>. QED
  BY <1>1, ExprCheckTable, ExprComputeTable, ExprCountTable, ExprFillTable, ExprAnnounceTable,
     ExprRecheckTable, ExprStopTable, ExprMainTable DEF Expr!Next, Expr!Main, Expr!Worker

LEMMA ExprTableResults == ExprTableInv => Expr!TypeOK /\ Expr!Barrier /\ Expr!ColumnsRight
<1>. SUFFICES ASSUME ExprTableInv
              PROVE  Expr!TypeOK /\ Expr!Barrier /\ Expr!ColumnsRight
  OBVIOUS
<1>1. ASSUME early = {}, NEW c \in Expr!Cells, c[2] < epoch
      PROVE  dp[c] = Expr!Ways[c] % CellWord
  <2>1. ExprTable
    BY <1>1 DEF ExprTableInv
  <2>2. PICK a \in Expr!Rows, b \in Expr!Rows : c = <<a, b>>
    BY DEF Expr!Cells
  <2>3. b < epoch
    BY <1>1, <2>2
  <2>. QED
    BY <2>1, <2>2, <2>3 DEF ExprTable, ExprIsRight
<1>. QED
  BY <1>1, ExprResults DEF ExprTableInv, Expr!ColumnsRight

----------------------------------------------------------------------------
(* The philosophers' bounds. *)

USE PhilAssumption DEF PhilAssumption

\* Nobody has more meals than starts, terminated or not, and main starts nobody whose
\* starts are used up.
PhilBounds ==
  /\ late <= MaxLate
  /\ \A n \in Phil!Philosophers : PhilRepaid(n) <= begun[n] /\ begun[n] <= MaxMeals
  /\ mpc = "second" => begun[Phil!Second] < MaxMeals

PhilBoundInv == PhilIInv /\ PhilBounds

LEMMA PhilInitBounds == Phil!Init => PhilBounds
BY DEF Phil!Init, Phil!Zero, PhilBounds, PhilRepaid, PhilIs, Phil!Eats

LEMMA PhilPhilosopherBounds ==
  ASSUME PhilBoundInv, NEW n \in Phil!Philosophers, Phil!Philosopher(n)
  PROVE  PhilBounds'
<1>1. UNCHANGED <<mpc, wave_idx, begun, late>>
  BY DEF Phil!Philosopher, Phil!TakeStart, Phil!PrintEating, Phil!EndMeal, Phil!PrintThinking,
         Phil!SetDone, Phil!At, Phil!eventVars
<1>2. /\ PhilRepaid(n)' = PhilRepaid(n)
      /\ \A k \in Phil!Philosophers : k # n => PhilRepaid(k)' = PhilRepaid(k)
  <2>0. PhilTypes
    BY DEF PhilBoundInv, PhilIInv
  <2>1. CASE Phil!TakeStart(n)
    BY <2>0, <2>1 DEF Phil!TakeStart, Phil!At, PhilTypes, PhilRepaid, PhilIs, Phil!Eats
  <2>2. CASE Phil!EndMeal(n)
    BY <2>0, <2>2 DEF Phil!EndMeal, Phil!At, Phil!eventVars, PhilTypes, PhilRepaid, PhilIs, Phil!Eats
  <2>3. CASE Phil!PrintEating(n) \/ Phil!PrintThinking(n) \/ Phil!SetDone(n)
    BY <2>0, <2>3 DEF Phil!PrintEating, Phil!PrintThinking, Phil!SetDone, Phil!At, Phil!eventVars,
         PhilTypes, PhilRepaid, PhilIs, Phil!Eats
  <2>. QED
    BY <2>1, <2>2, <2>3 DEF Phil!Philosopher
<1>3. Phil!Second' = Phil!Second
  BY <1>1 DEF Phil!Second
<1>. QED
  BY <1>1, <1>2, <1>3 DEF PhilBoundInv, PhilBounds

\* Main sets a start event.
LEMMA PhilStartBounds ==
  ASSUME PhilBoundInv, NEW n \in Phil!Philosophers, Phil!Start(n), begun[n] < MaxMeals
  PROVE  /\ \A k \in Phil!Philosophers : PhilRepaid(k)' <= begun'[k] /\ begun'[k] <= MaxMeals
         /\ late' <= MaxLate
         /\ \A k \in Phil!Philosophers : k # n => begun'[k] = begun[k]
<1>1. PhilTypes /\ PhilBounds
  BY DEF PhilBoundInv, PhilIInv
<1>2. \A k \in Phil!Philosophers :
        /\ begun'[k] = IF k = n THEN begun[k] + 1 ELSE begun[k]
        /\ meals'[k] = meals[k] /\ wpc'[k] = wpc[k]
        /\ k # n => (k \in start_evt' <=> k \in start_evt)
  BY <1>1 DEF Phil!Start, PhilTypes
<1>3. ASSUME NEW k \in Phil!Philosophers
      PROVE  PhilRepaid(k)' <= begun'[k] /\ begun'[k] <= MaxMeals
  <2>1. meals[k] \in Nat /\ begun[k] \in Nat
    BY <1>1 DEF PhilTypes
  <2>2. meals[k] + PhilIs(Phil!Eats(k)) + PhilIs(k \in start_evt) <= begun[k] /\ begun[k] <= MaxMeals
    BY <1>1 DEF PhilBounds, PhilRepaid
  <2>3. PhilIs(Phil!Eats(k))' = PhilIs(Phil!Eats(k))
    BY <1>2 DEF PhilIs, Phil!Eats
  <2>4. PhilIs(k \in start_evt') <= 1
    BY DEF PhilIs
  <2>5. CASE k = n
    BY <1>2, <2>1, <2>2, <2>3, <2>4, <2>5 DEF PhilRepaid, PhilIs
  <2>6. CASE k # n
    BY <1>2, <2>1, <2>2, <2>3, <2>6 DEF PhilRepaid, PhilIs
  <2>. QED
    BY <2>5, <2>6
<1>. QED
  BY <1>1, <1>2, <1>3 DEF Phil!Start, PhilBounds

LEMMA PhilMainBounds == PhilBoundInv /\ Phil!Main => PhilBounds'
<1>. SUFFICES ASSUME PhilBoundInv, Phil!Main
              PROVE  PhilBounds'
  OBVIOUS
<1>0. PhilTypes /\ PhilBounds
  BY DEF PhilBoundInv, PhilIInv
<1>1. Phil!First \in Phil!Philosophers /\ Phil!Second \in Phil!Philosophers /\ Phil!First # Phil!Second
  BY <1>0, PhilWaveShape DEF PhilTypes
<1>2. CASE Phil!StartFirst
  <2>1. /\ Phil!Start(Phil!First) /\ begun[Phil!First] < MaxMeals /\ begun[Phil!Second] < MaxMeals
        /\ wave_idx' = wave_idx
    BY <1>2 DEF Phil!StartFirst, Phil!Start
  <2>2. Phil!Second' = Phil!Second
    BY <2>1 DEF Phil!Second
  <2>. QED
    BY <1>1, <2>1, <2>2, PhilStartBounds DEF PhilBounds
<1>3. CASE Phil!StartSecond
  <2>1. Phil!Start(Phil!Second) /\ begun[Phil!Second] < MaxMeals /\ mpc' = "await"
    BY <1>0, <1>3 DEF Phil!StartSecond, Phil!MainAt, PhilBounds
  <2>. QED
    BY <1>1, <2>1, PhilStartBounds DEF PhilBounds
<1>4. CASE Phil!AwaitBoth \/ Phil!AwaitTimeout \/ Phil!ClearFirst \/ Phil!ClearSecond \/ Phil!LeaveLoop
  <2>1. /\ UNCHANGED <<start_evt, wpc, begun, meals>> /\ mpc' # "second"
        /\ late' = late \/ (late < MaxLate /\ late' = late + 1)
    BY <1>4 DEF Phil!AwaitBoth, Phil!AwaitTimeout, Phil!ClearFirst, Phil!ClearSecond, Phil!LeaveLoop,
       Phil!MainAt, Phil!eventVars
  <2>2. late' <= MaxLate
    BY <1>0, <2>1 DEF PhilBounds, PhilTypes
  <2>. QED
    BY <1>0, <2>1, <2>2 DEF PhilBounds, PhilRepaid, Phil!Eats
<1>5. CASE Phil!Terminate
  <2>1. PICK n \in Phil!Philosophers : wpc' = [wpc EXCEPT ![n] = "terminated"]
    BY <1>5 DEF Phil!Terminate
  <2>2. UNCHANGED <<start_evt, begun, meals, late>> /\ mpc' \in {"terminate", "over"}
    BY <1>5 DEF Phil!Terminate, Phil!eventVars
  <2>3. ASSUME NEW k \in Phil!Philosophers
        PROVE  PhilRepaid(k)' <= begun[k]
    <3>1. wpc'[k] = IF k = n THEN "terminated" ELSE wpc[k]
      BY <1>0, <2>1 DEF PhilTypes
    <3>2. PhilIs(Phil!Eats(k))' <= PhilIs(Phil!Eats(k)) /\ PhilIs(Phil!Eats(k))' \in Nat
          /\ PhilIs(Phil!Eats(k)) \in Nat /\ PhilIs(k \in start_evt) \in Nat
      BY <3>1 DEF PhilIs, Phil!Eats
    <3>3. meals[k] \in Nat /\ begun[k] \in Nat
      BY <1>0 DEF PhilTypes
    <3>4. meals[k] + PhilIs(Phil!Eats(k)) + PhilIs(k \in start_evt) <= begun[k]
      BY <1>0 DEF PhilBounds, PhilRepaid
    <3>5. PhilRepaid(k)' = meals[k] + PhilIs(Phil!Eats(k))' + PhilIs(k \in start_evt)
      BY <2>2 DEF PhilRepaid, PhilIs
    <3>. QED
      BY <3>2, <3>3, <3>4, <3>5
  <2>. QED
    BY <1>0, <2>2, <2>3 DEF PhilBounds
<1>. QED
  BY <1>2, <1>3, <1>4, <1>5 DEF Phil!Main

LEMMA PhilInitBound == Phil!Init => PhilBoundInv
BY PhilInitIInv, PhilInitBounds DEF PhilBoundInv

LEMMA PhilNextBound == PhilBoundInv /\ [Phil!Next]_(Phil!vars) => PhilBoundInv'
<1>. SUFFICES ASSUME PhilBoundInv, [Phil!Next]_(Phil!vars)
              PROVE  PhilBoundInv'
  OBVIOUS
<1>1. PhilIInv'
  BY PhilNextIInv DEF PhilBoundInv
<1>2. CASE Phil!Next
  BY <1>1, <1>2, PhilPhilosopherBounds, PhilMainBounds DEF Phil!Next, PhilBoundInv
<1>3. CASE UNCHANGED Phil!vars
  <2>1. UNCHANGED <<start_evt, done_evt, wpc, mpc, wave_idx, begun, meals, late>>
    BY <1>3 DEF Phil!vars, Phil!eventVars
  <2>2. PhilBounds'
    BY <2>1 DEF PhilBoundInv, PhilBounds, PhilRepaid, Phil!Eats, Phil!Second
  <2>. QED
    BY <1>1, <2>2 DEF PhilBoundInv
<1>. QED
  BY <1>2, <1>3

LEMMA PhilTypesResult == PhilBoundInv => Phil!TypeOK
<1>. SUFFICES ASSUME PhilBoundInv
              PROVE  Phil!TypeOK
  OBVIOUS
<1>1. PhilTypes /\ PhilBounds
  BY DEF PhilBoundInv, PhilIInv
<1>2. ASSUME NEW n \in Phil!Philosophers
      PROVE  begun[n] \in 0 .. MaxMeals /\ meals[n] \in 0 .. MaxMeals
  <2>1. meals[n] \in Nat /\ begun[n] \in Nat
    BY <1>1 DEF PhilTypes
  <2>2. PhilIs(Phil!Eats(n)) \in Nat /\ PhilIs(n \in start_evt) \in Nat
    BY DEF PhilIs
  <2>3. meals[n] + PhilIs(Phil!Eats(n)) + PhilIs(n \in start_evt) <= begun[n] /\ begun[n] <= MaxMeals
    BY <1>1 DEF PhilBounds, PhilRepaid
  <2>. QED
    BY <2>1, <2>2, <2>3
<1>. QED
  BY <1>1, <1>2 DEF PhilTypes, PhilBounds, Phil!TypeOK

----------------------------------------------------------------------------
(* The pool of qsort. *)

USE WorkersAssumption, QueueAssumption, QSortAssumption, MSortAssumption, ChessAssumption,
    PhilAssumption
    DEF WorkersAssumption, QueueAssumption, QSortAssumption, MSortAssumption, ChessAssumption,
        PhilAssumption

LEMMA PoolCardinality ==
  ASSUME NEW S
  PROVE  QSort!Cardinality(S) = Cardinality(S)
BY DEF Cardinality, QSort!Cardinality, IsFiniteSet, QSort!IsFiniteSet

USE PoolCardinality

PoolWorkerStates ==
  {"wait", "pop", "work", "dispatch", "post", "finish", "signal", "exited"}

PoolBusyStates == {"work", "dispatch", "post", "finish"}

PoolTypes ==
  /\ queue \in Seq(QSort!Segments \cup {QSort!Stop})
  /\ wpc \in [Workers -> PoolWorkerStates]
  /\ seg \in [Workers -> QSort!Segments] /\ part \in [Workers -> QSort!Segments]
  /\ mpc \in {"count", "push", "post", "await", "stop", "poststop", "freed"}
  /\ tasks_active \in Int /\ event_done \in BOOLEAN
  /\ settled \subseteq QSort!Positions /\ inlined \in Nat

\* Before main has pushed the first segment nobody has anything.
PoolQuiet ==
  /\ mpc \in {"count", "push"} =>
       queue = <<>> /\ \A w \in Workers : wpc[w] \in {"wait", "pop"}
  /\ mpc = "count" => inlined = 0 /\ tasks_active = 0

\* While main waits there is no stop segment in the queue.
PoolNoStops == QSort!Working => \A k \in DOMAIN queue : queue[k] # QSort!Stop

\* What is not settled is in a segment that waits or is in somebody's hands.
PoolCovered ==
  mpc \notin {"count", "push"} =>
    \A p \in QSort!Positions :
      \/ p \in settled
      \/ \E w \in Workers : w \in QSort!Busy /\ p \in QSort!Span(seg[w])
      \/ \E w \in Workers : w \in QSort!Dispatching /\ p \in QSort!Span(part[w])
      \/ \E k \in DOMAIN queue : p \in QSort!Span(queue[k])

PoolFinishSettled == \A w \in Workers : wpc[w] = "finish" => QSort!Span(seg[w]) \subseteq settled

\* Nothing is left, and nothing can come.
PoolOver ==
  /\ mpc \notin {"count", "push"}
  /\ QSort!Busy = {} /\ settled = QSort!Positions
  /\ \A k \in DOMAIN queue : queue[k] = QSort!Stop

PoolSignalled ==
  /\ event_done => PoolOver
  /\ \A w \in Workers : wpc[w] = "signal" => PoolOver
  /\ mpc \in {"stop", "poststop", "freed"} => event_done

PoolIInv ==
  PoolTypes /\ PoolQuiet /\ PoolNoStops /\ QSort!Accounted /\ PoolCovered /\ PoolFinishSettled /\ PoolSignalled

----------------------------------------------------------------------------
LEMMA PoolSegmentShape ==
  ASSUME NEW s \in QSort!Segments
  PROVE  /\ s[1] \in Int /\ s[2] \in Int
         /\ QSort!Span(s) \subseteq QSort!Positions
         /\ (~(QSort!Size(s) > 0) => QSort!Span(s) = {})
BY DEF QSort!Segments, QSort!Span, QSort!Size, QSort!Positions

LEMMA PoolStopNoSegment == QSort!Stop \notin QSort!Segments /\ QSort!Span(QSort!Stop) = -1 .. -2
BY DEF QSort!Stop, QSort!Segments, QSort!Span

LEMMA PoolWholeSegment ==
  /\ <<0, NSort>> \in QSort!Segments /\ <<0, NSort>> # QSort!Stop
  /\ QSort!Nothing \in QSort!Segments
  /\ QSort!Span(<<0, NSort>>) = QSort!Positions
BY DEF QSort!Segments, QSort!Stop, QSort!Nothing, QSort!Span, QSort!Positions

LEMMA PoolWorkersFinite ==
  ASSUME NEW S \in SUBSET Workers
  PROVE  IsFiniteSet(S) /\ Cardinality(S) \in Nat
BY FS_Subset, FS_CardinalityType

\* How a step of one thread changes the two counts.
PoolIn(x, S) == IF x \in S THEN 1 ELSE 0

LEMMA PoolCountMove ==
  ASSUME NEW w \in Workers, NEW from, NEW to, PoolTypes, QSort!At(w, from, to)
  PROVE  /\ \A v \in Workers : wpc'[v] = IF v = w THEN to ELSE wpc[v]
         /\ QSort!Busy' = IF to \in PoolBusyStates THEN QSort!Busy \cup {w} ELSE QSort!Busy \ {w}
         /\ QSort!Dispatching' =
              IF to = "dispatch" THEN QSort!Dispatching \cup {w} ELSE QSort!Dispatching \ {w}
         /\ Cardinality(QSort!Busy) \in Nat /\ Cardinality(QSort!Dispatching) \in Nat
         /\ Cardinality(QSort!Busy') =
              Cardinality(QSort!Busy) - PoolIn(from, PoolBusyStates) + PoolIn(to, PoolBusyStates)
         /\ Cardinality(QSort!Dispatching') =
              Cardinality(QSort!Dispatching) - PoolIn(from, {"dispatch"}) + PoolIn(to, {"dispatch"})
<1>1. wpc[w] = from /\ \A v \in Workers : wpc'[v] = IF v = w THEN to ELSE wpc[v]
  BY DEF PoolTypes, QSort!At
<1>2. QSort!Busy' = IF to \in PoolBusyStates THEN QSort!Busy \cup {w} ELSE QSort!Busy \ {w}
  BY <1>1 DEF QSort!Busy, PoolBusyStates
<1>3. QSort!Dispatching' = IF to = "dispatch" THEN QSort!Dispatching \cup {w} ELSE QSort!Dispatching \ {w}
  BY <1>1 DEF QSort!Dispatching
<1>4. /\ IsFiniteSet(QSort!Busy) /\ Cardinality(QSort!Busy) \in Nat
      /\ IsFiniteSet(QSort!Dispatching) /\ Cardinality(QSort!Dispatching) \in Nat
  BY PoolWorkersFinite DEF QSort!Busy, QSort!Dispatching
<1>5. w \in QSort!Busy <=> from \in PoolBusyStates
  BY <1>1 DEF QSort!Busy, PoolBusyStates
<1>6. w \in QSort!Dispatching <=> from = "dispatch"
  BY <1>1 DEF QSort!Dispatching
<1>7. /\ Cardinality(QSort!Busy \cup {w}) =
           IF w \in QSort!Busy THEN Cardinality(QSort!Busy) ELSE Cardinality(QSort!Busy) + 1
      /\ Cardinality(QSort!Busy \ {w}) =
           IF w \in QSort!Busy THEN Cardinality(QSort!Busy) - 1 ELSE Cardinality(QSort!Busy)
  BY <1>4, FS_AddElement, FS_RemoveElement
<1>8. /\ Cardinality(QSort!Dispatching \cup {w}) =
           IF w \in QSort!Dispatching THEN Cardinality(QSort!Dispatching) ELSE Cardinality(QSort!Dispatching) + 1
      /\ Cardinality(QSort!Dispatching \ {w}) =
           IF w \in QSort!Dispatching THEN Cardinality(QSort!Dispatching) - 1 ELSE Cardinality(QSort!Dispatching)
  BY <1>4, FS_AddElement, FS_RemoveElement
<1>9. Cardinality(QSort!Busy') = Cardinality(QSort!Busy) - PoolIn(from, PoolBusyStates) + PoolIn(to, PoolBusyStates)
  BY <1>2, <1>4, <1>5, <1>7 DEF PoolIn
<1>10. Cardinality(QSort!Dispatching') =
         Cardinality(QSort!Dispatching) - PoolIn(from, {"dispatch"}) + PoolIn(to, {"dispatch"})
  BY <1>3, <1>4, <1>6, <1>8 DEF PoolIn
<1>11. QED
  BY <1>1, <1>2, <1>3, <1>4, <1>9, <1>10

\* A thread that is busy is so while main waits.
LEMMA PoolBusyInAwait ==
  ASSUME PoolIInv, NEW w \in Workers, wpc[w] \in PoolBusyStates
  PROVE  mpc \in {"post", "await"} /\ ~event_done /\ \A v \in Workers : wpc[v] # "signal"
<1>1. w \in QSort!Busy
  BY DEF QSort!Busy, PoolBusyStates
<1>2. ~PoolOver
  BY <1>1 DEF PoolOver
<1>3. mpc \notin {"count", "push"}
  BY DEF PoolIInv, PoolQuiet, PoolBusyStates
<1>4. QED
  BY <1>2, <1>3 DEF PoolIInv, PoolSignalled, PoolTypes

LEMMA PoolInitIInv == QSort!Init => PoolIInv
<1> SUFFICES ASSUME QSort!Init PROVE PoolIInv
  OBVIOUS
<1>1. queue = <<>> /\ queue \in Seq(QSort!Segments \cup {QSort!Stop})
  BY DEF QSort!Init, QSort!QueueInit
<1>2. PoolTypes
  <2>1. wpc \in [Workers -> PoolWorkerStates]
    BY DEF QSort!Init, PoolWorkerStates
  <2>2. seg \in [Workers -> QSort!Segments] /\ part \in [Workers -> QSort!Segments]
    BY PoolWholeSegment DEF QSort!Init
  <2>3. event_done \in BOOLEAN
    BY DEF QSort!Init
  <2>4. /\ tasks_active \in Int /\ inlined \in Nat
        /\ mpc = "count" /\ settled \subseteq QSort!Positions
    BY DEF QSort!Init
  <2>5. QED
    BY <1>1, <2>1, <2>2, <2>3, <2>4 DEF PoolTypes
<1>3. PoolQuiet /\ PoolNoStops /\ QSort!Accounted /\ PoolCovered /\ PoolFinishSettled /\ PoolSignalled
  BY <1>1 DEF QSort!Init, PoolQuiet, PoolNoStops, QSort!Accounted, PoolCovered,
     PoolFinishSettled, PoolSignalled, QSort!Working
<1>4. QED
  BY <1>2, <1>3 DEF PoolIInv

----------------------------------------------------------------------------
(* The steps of a thread. *)

\* A step between two states that are not busy, or after the last look at the
\* thread's segment.
LEMMA PoolPlainMove ==
  ASSUME PoolIInv, NEW w \in Workers,
         NEW from \in {"wait", "post"}, NEW to \in {"pop", "work"}, QSort!At(w, from, to),
         from = "wait" <=> to = "pop",
         UNCHANGED <<queue, seg, part, mpc, tasks_active, event_done, settled, inlined>>
  PROVE  PoolIInv'
<1>0. wpc[w] = from /\ wpc' = [wpc EXCEPT ![w] = to] /\ PoolTypes
  BY DEF QSort!At, PoolIInv
<1>1. /\ \A v \in Workers : wpc'[v] = IF v = w THEN to ELSE wpc[v]
      /\ QSort!Busy' = QSort!Busy /\ QSort!Dispatching' = QSort!Dispatching
  <2>1. /\ \A v \in Workers : wpc'[v] = IF v = w THEN to ELSE wpc[v]
        /\ QSort!Busy' = IF to \in PoolBusyStates THEN QSort!Busy \cup {w} ELSE QSort!Busy \ {w}
        /\ QSort!Dispatching' =
             IF to = "dispatch" THEN QSort!Dispatching \cup {w} ELSE QSort!Dispatching \ {w}
    BY <1>0, PoolCountMove
  <2>2. QED
    BY <1>0, <2>1 DEF PoolBusyStates, QSort!Busy, QSort!Dispatching
<1>2. PoolTypes'
  BY <1>0 DEF PoolTypes, PoolWorkerStates
<1>3. PoolQuiet' /\ PoolNoStops'
  BY <1>0, <1>1 DEF PoolIInv, PoolQuiet, PoolNoStops, QSort!Working
<1>4. QSort!Accounted'
  BY <1>0, <1>1 DEF PoolIInv, QSort!Accounted, QSort!Working
<1>5. PoolCovered'
  BY <1>0, <1>1 DEF PoolIInv, PoolCovered
<1>6. PoolFinishSettled'
  BY <1>0, <1>1 DEF PoolIInv, PoolFinishSettled
<1>7. PoolSignalled'
  BY <1>0, <1>1 DEF PoolIInv, PoolSignalled, PoolOver
<1>8. QED
  BY <1>2, <1>3, <1>4, <1>5, <1>6, <1>7 DEF PoolIInv

LEMMA PoolWaitTaskIInv ==
  ASSUME PoolIInv, NEW w \in Workers, QSort!WaitTask(w)
  PROVE  PoolIInv'
<1>1. /\ QSort!At(w, "wait", "pop")
      /\ UNCHANGED <<queue, seg, part, mpc, tasks_active, event_done, settled, inlined>>
  BY DEF QSort!WaitTask, QSort!Acquire, QSort!mainVars
<1>2. QED
  BY <1>1, PoolPlainMove

LEMMA PoolPostTaskIInv ==
  ASSUME PoolIInv, NEW w \in Workers, QSort!PostTask(w)
  PROVE  PoolIInv'
<1>1. /\ QSort!At(w, "post", "work")
      /\ UNCHANGED <<queue, seg, part, mpc, tasks_active, event_done, settled, inlined>>
  BY DEF QSort!PostTask, QSort!Post, QSort!mainVars
<1>2. QED
  BY <1>1, PoolPlainMove

LEMMA PoolTakeTaskIInv ==
  ASSUME PoolIInv, NEW w \in Workers, QSort!TakeTask(w)
  PROVE  PoolIInv'
<1>1. /\ queue # <<>> /\ queue' = Tail(queue)
      /\ wpc[w] = "pop"
      /\ UNCHANGED <<part, mpc, tasks_active, event_done, settled, inlined>>
  BY DEF QSort!TakeTask, QSort!At, QSort!Dequeue, QSort!mainVars
<1>2. /\ Len(queue) \in Nat \ {0} /\ Len(queue') = Len(queue) - 1
      /\ queue' \in Seq(QSort!Segments \cup {QSort!Stop})
      /\ Head(queue) \in QSort!Segments \cup {QSort!Stop} /\ Head(queue) = queue[1]
      /\ DOMAIN queue = 1 .. Len(queue) /\ DOMAIN queue' = 1 .. Len(queue) - 1
      /\ \A k \in DOMAIN queue' : queue'[k] = queue[k + 1]
  BY <1>1 DEF PoolIInv, PoolTypes
<1>3. mpc \notin {"count", "push"}
  BY <1>1 DEF PoolIInv, PoolQuiet
<1>4. PoolNoStops'
  BY <1>1, <1>2 DEF PoolIInv, PoolNoStops, QSort!Working
<1>5. CASE Head(queue) = QSort!Stop /\ QSort!At(w, "pop", "exited") /\ UNCHANGED seg
  <2>0. wpc' = [wpc EXCEPT ![w] = "exited"]
    BY <1>5 DEF QSort!At
  <2>1. /\ \A v \in Workers : wpc'[v] = IF v = w THEN "exited" ELSE wpc[v]
        /\ QSort!Busy' = QSort!Busy /\ QSort!Dispatching' = QSort!Dispatching
    <3>1. /\ \A v \in Workers : wpc'[v] = IF v = w THEN "exited" ELSE wpc[v]
          /\ QSort!Busy' = IF "exited" \in PoolBusyStates THEN QSort!Busy \cup {w} ELSE QSort!Busy \ {w}
          /\ QSort!Dispatching' =
               IF "exited" = "dispatch" THEN QSort!Dispatching \cup {w} ELSE QSort!Dispatching \ {w}
      BY <1>5, PoolCountMove DEF PoolIInv
    <3>2. QED
      BY <1>1, <3>1 DEF PoolBusyStates, QSort!Busy, QSort!Dispatching
  <2>2. ~QSort!Working
    BY <1>2, <1>5 DEF PoolIInv, PoolNoStops
  <2>3. PoolTypes'
    BY <1>1, <1>2, <1>5, <2>0 DEF PoolIInv, PoolTypes, PoolWorkerStates
  <2>4. PoolQuiet' /\ QSort!Accounted'
    BY <1>1, <1>3, <2>2 DEF PoolQuiet, QSort!Accounted, QSort!Working
  <2>5. PoolCovered' /\ PoolSignalled'
    <3>1. event_done
      BY <1>3, <2>2 DEF PoolIInv, PoolTypes, QSort!Working, PoolSignalled
    <3>2. PoolOver
      BY <3>1 DEF PoolIInv, PoolSignalled
    <3>3. PoolOver'
      BY <1>1, <1>2, <2>1, <3>2 DEF PoolOver
    <3>4. QED
      BY <1>1, <3>1, <3>3 DEF PoolCovered, PoolOver, PoolSignalled
  <2>6. PoolFinishSettled'
    BY <1>1, <1>5, <2>1 DEF PoolIInv, PoolFinishSettled
  <2>7. QED
    BY <1>4, <2>3, <2>4, <2>5, <2>6 DEF PoolIInv
<1>6. CASE Head(queue) # QSort!Stop /\ QSort!At(w, "pop", "work")
           /\ seg' = [seg EXCEPT ![w] = Head(queue)]
  <2>0. wpc' = [wpc EXCEPT ![w] = "work"]
    BY <1>6 DEF QSort!At
  <2>1. /\ \A v \in Workers : wpc'[v] = IF v = w THEN "work" ELSE wpc[v]
        /\ QSort!Busy' = QSort!Busy \cup {w} /\ QSort!Dispatching' = QSort!Dispatching
        /\ Cardinality(QSort!Busy') = Cardinality(QSort!Busy) + 1
        /\ Cardinality(QSort!Busy) \in Nat /\ Cardinality(QSort!Dispatching) \in Nat
    <3>1. /\ \A v \in Workers : wpc'[v] = IF v = w THEN "work" ELSE wpc[v]
          /\ QSort!Busy' = IF "work" \in PoolBusyStates THEN QSort!Busy \cup {w} ELSE QSort!Busy \ {w}
          /\ QSort!Dispatching' =
               IF "work" = "dispatch" THEN QSort!Dispatching \cup {w} ELSE QSort!Dispatching \ {w}
          /\ Cardinality(QSort!Busy) \in Nat /\ Cardinality(QSort!Dispatching) \in Nat
          /\ Cardinality(QSort!Busy') =
               Cardinality(QSort!Busy) - PoolIn("pop", PoolBusyStates) + PoolIn("work", PoolBusyStates)
      BY <1>6, PoolCountMove DEF PoolIInv
    <3>2. QED
      BY <1>1, <3>1 DEF PoolBusyStates, QSort!Dispatching, PoolIn
  <2>2. /\ \A v \in Workers : seg'[v] = IF v = w THEN Head(queue) ELSE seg[v]
        /\ seg' \in [Workers -> QSort!Segments]
    BY <1>2, <1>6 DEF PoolIInv, PoolTypes
  <2>3. ~PoolOver
    BY <1>2, <1>6 DEF PoolOver
  <2>4. PoolTypes'
    BY <1>1, <1>2, <2>0, <2>2 DEF PoolIInv, PoolTypes, PoolWorkerStates
  <2>5. PoolQuiet'
    BY <1>1, <1>3 DEF PoolQuiet
  <2>6. QSort!Accounted'
    BY <1>1, <1>2, <1>3, <2>1 DEF PoolIInv, PoolTypes, QSort!Accounted, QSort!Working
  <2>7. PoolCovered'
    <3> SUFFICES ASSUME NEW p \in QSort!Positions, p \notin settled'
                 PROVE  \/ \E v \in Workers : v \in QSort!Busy' /\ p \in QSort!Span(seg'[v])
                        \/ \E v \in Workers : v \in QSort!Dispatching' /\ p \in QSort!Span(part'[v])
                        \/ \E k \in DOMAIN queue' : p \in QSort!Span(queue'[k])
      BY DEF PoolCovered
    <3>1. CASE \E v \in Workers : v \in QSort!Busy /\ p \in QSort!Span(seg[v])
      <4>1. PICK v \in Workers : v \in QSort!Busy /\ p \in QSort!Span(seg[v])
        BY <3>1
      <4>2. v # w
        BY <1>1, <4>1 DEF QSort!Busy
      <4>3. QED
        BY <2>1, <2>2, <4>1, <4>2
    <3>2. CASE \E v \in Workers : v \in QSort!Dispatching /\ p \in QSort!Span(part[v])
      BY <1>1, <2>1, <3>2
    <3>3. CASE \E k \in DOMAIN queue : p \in QSort!Span(queue[k])
      <4>1. PICK k \in DOMAIN queue : p \in QSort!Span(queue[k])
        BY <3>3
      <4>2. CASE k = 1
        BY <1>2, <2>1, <2>2, <4>1, <4>2
      <4>3. CASE k # 1
        <5>1. k - 1 \in DOMAIN queue' /\ queue'[k - 1] = queue[k]
          BY <1>2, <4>3
        <5>2. QED
          BY <4>1, <5>1
      <4>4. QED
        BY <4>2, <4>3
    <3>4. QED
      BY <1>1, <1>3, <3>1, <3>2, <3>3 DEF PoolIInv, PoolCovered
  <2>8. PoolFinishSettled'
    BY <1>1, <2>1, <2>2 DEF PoolIInv, PoolFinishSettled
  <2>9. PoolSignalled'
    BY <1>1, <2>1, <2>3 DEF PoolIInv, PoolSignalled
  <2>10. QED
    BY <1>4, <2>4, <2>5, <2>6, <2>7, <2>8, <2>9 DEF PoolIInv
<1>7. QED
  BY <1>5, <1>6 DEF QSort!TakeTask

LEMMA PoolSortSmallIInv ==
  ASSUME PoolIInv, NEW w \in Workers, QSort!SortSmall(w)
  PROVE  PoolIInv'
<1>1. /\ QSort!At(w, "work", "finish")
      /\ wpc[w] = "work" /\ wpc' = [wpc EXCEPT ![w] = "finish"]
      /\ settled' = settled \cup QSort!Span(seg[w])
      /\ UNCHANGED <<queue, seg, part, mpc, tasks_active, event_done, inlined>>
  BY DEF QSort!SortSmall, QSort!At, QSort!queueVars, QSort!mainVars
<1>2. /\ \A v \in Workers : wpc'[v] = IF v = w THEN "finish" ELSE wpc[v]
      /\ QSort!Busy' = QSort!Busy /\ QSort!Dispatching' = QSort!Dispatching
  <2>1. /\ \A v \in Workers : wpc'[v] = IF v = w THEN "finish" ELSE wpc[v]
        /\ QSort!Busy' = IF "finish" \in PoolBusyStates THEN QSort!Busy \cup {w} ELSE QSort!Busy \ {w}
        /\ QSort!Dispatching' =
             IF "finish" = "dispatch" THEN QSort!Dispatching \cup {w} ELSE QSort!Dispatching \ {w}
    BY <1>1, PoolCountMove DEF PoolIInv
  <2>2. QED
    BY <1>1, <2>1 DEF PoolBusyStates, QSort!Busy, QSort!Dispatching
<1>3. mpc \in {"post", "await"} /\ ~event_done /\ \A v \in Workers : wpc[v] # "signal"
  BY <1>1, PoolBusyInAwait DEF PoolBusyStates
<1>4. QSort!Span(seg[w]) \subseteq QSort!Positions
  BY PoolSegmentShape DEF PoolIInv, PoolTypes
<1>5. PoolTypes'
  BY <1>1, <1>4 DEF PoolIInv, PoolTypes, PoolWorkerStates
<1>6. PoolQuiet' /\ PoolNoStops' /\ QSort!Accounted'
  BY <1>1, <1>2, <1>3 DEF PoolIInv, PoolQuiet, PoolNoStops, QSort!Accounted, QSort!Working
<1>7. PoolCovered'
  BY <1>1, <1>2 DEF PoolIInv, PoolCovered
<1>8. PoolFinishSettled'
  BY <1>1, <1>2 DEF PoolIInv, PoolFinishSettled
<1>9. PoolSignalled'
  BY <1>1, <1>2, <1>3 DEF PoolSignalled
<1>10. QED
  BY <1>5, <1>6, <1>7, <1>8, <1>9 DEF PoolIInv

\* What a partition of a segment leaves: two parts, and settled elements.
LEMMA PoolSplitShape ==
  ASSUME NEW s \in QSort!Segments, NEW c \in QSort!Splits(s)
  PROVE  c[1] \in QSort!Segments /\ c[2] \in QSort!Segments
BY DEF QSort!Splits

LEMMA PoolPartitionIInv ==
  ASSUME PoolIInv, NEW w \in Workers, QSort!Partition(w)
  PROVE  PoolIInv'
<1>1. PICK c \in QSort!Splits(seg[w]) :
        LET out == IF QSort!Size(c[1]) >= QSort!Size(c[2]) THEN c[1] ELSE c[2]
            rest == IF QSort!Size(c[1]) >= QSort!Size(c[2]) THEN c[2] ELSE c[1]
        IN
          /\ settled' = settled \cup (QSort!Span(seg[w]) \ (QSort!Span(c[1]) \cup QSort!Span(c[2])))
          /\ seg' = [seg EXCEPT ![w] = rest]
          /\ IF QSort!Size(out) > 0
             THEN
               /\ tasks_active' = tasks_active + 1
               /\ part' = [part EXCEPT ![w] = out]
               /\ wpc' = [wpc EXCEPT ![w] = "dispatch"]
             ELSE UNCHANGED <<tasks_active, part, wpc>>
  BY DEF QSort!Partition
<1> DEFINE out == IF QSort!Size(c[1]) >= QSort!Size(c[2]) THEN c[1] ELSE c[2]
<1> DEFINE rest == IF QSort!Size(c[1]) >= QSort!Size(c[2]) THEN c[2] ELSE c[1]
<1>2. /\ wpc[w] = "work"
      /\ UNCHANGED <<queue, mpc, event_done, inlined>>
  BY DEF QSort!Partition, QSort!queueVars, QSort!mainVars
<1>3. seg[w] \in QSort!Segments
  BY DEF PoolIInv, PoolTypes
<1>4. /\ out \in QSort!Segments /\ rest \in QSort!Segments
      /\ QSort!Span(c[1]) \cup QSort!Span(c[2]) = QSort!Span(out) \cup QSort!Span(rest)
      /\ (~(QSort!Size(out) > 0) => QSort!Span(out) = {})
      /\ QSort!Span(seg[w]) \subseteq QSort!Positions
  <2>1. c[1] \in QSort!Segments /\ c[2] \in QSort!Segments
    BY <1>3, PoolSplitShape
  <2>2. QED
    BY <1>3, <2>1, PoolSegmentShape
<1>5. /\ settled' = settled \cup (QSort!Span(seg[w]) \ (QSort!Span(out) \cup QSort!Span(rest)))
      /\ seg' = [seg EXCEPT ![w] = rest]
      /\ \/ /\ QSort!Size(out) > 0
            /\ tasks_active' = tasks_active + 1
            /\ part' = [part EXCEPT ![w] = out]
            /\ wpc' = [wpc EXCEPT ![w] = "dispatch"]
         \/ /\ QSort!Span(out) = {}
            /\ UNCHANGED <<tasks_active, part, wpc>>
  BY <1>1, <1>4
<1>6. mpc \in {"post", "await"} /\ ~event_done /\ \A v \in Workers : wpc[v] # "signal"
  BY <1>2, PoolBusyInAwait DEF PoolBusyStates
<1> HIDE DEF out, rest
<1>7. /\ \A v \in Workers : seg'[v] = IF v = w THEN rest ELSE seg[v]
      /\ seg' \in [Workers -> QSort!Segments]
      /\ settled' \subseteq QSort!Positions
      /\ \A p \in QSort!Span(seg[w]) : p \in settled' \/ p \in QSort!Span(out) \/ p \in QSort!Span(rest)
  BY <1>4, <1>5 DEF PoolIInv, PoolTypes
<1>8. PoolNoStops' /\ PoolQuiet'
  BY <1>2, <1>6 DEF PoolIInv, PoolNoStops, PoolQuiet, QSort!Working
<1>9. CASE /\ tasks_active' = tasks_active + 1
           /\ part' = [part EXCEPT ![w] = out]
           /\ wpc' = [wpc EXCEPT ![w] = "dispatch"]
  <2>1. QSort!At(w, "work", "dispatch")
    BY <1>2, <1>9 DEF QSort!At
  <2>2. /\ \A v \in Workers : wpc'[v] = IF v = w THEN "dispatch" ELSE wpc[v]
        /\ QSort!Busy' = IF "dispatch" \in PoolBusyStates THEN QSort!Busy \cup {w} ELSE QSort!Busy \ {w}
        /\ QSort!Dispatching' =
             IF "dispatch" = "dispatch" THEN QSort!Dispatching \cup {w} ELSE QSort!Dispatching \ {w}
        /\ Cardinality(QSort!Busy) \in Nat /\ Cardinality(QSort!Dispatching) \in Nat
        /\ Cardinality(QSort!Dispatching') = Cardinality(QSort!Dispatching)
             - PoolIn("work", {"dispatch"}) + PoolIn("dispatch", {"dispatch"})
    BY <2>1, PoolCountMove DEF PoolIInv
  <2>3. /\ QSort!Busy' = QSort!Busy /\ w \in QSort!Busy
        /\ QSort!Dispatching' = QSort!Dispatching \cup {w} /\ w \notin QSort!Dispatching
        /\ Cardinality(QSort!Dispatching') = Cardinality(QSort!Dispatching) + 1
        /\ Cardinality(QSort!Busy) \in Nat /\ Cardinality(QSort!Dispatching) \in Nat
    BY <1>2, <2>2 DEF PoolBusyStates, QSort!Busy, QSort!Dispatching, PoolIn
  <2>4. /\ \A v \in Workers : part'[v] = IF v = w THEN out ELSE part[v]
        /\ part' \in [Workers -> QSort!Segments]
    BY <1>4, <1>9 DEF PoolIInv, PoolTypes
  <2>5. PoolTypes'
    BY <1>2, <1>7, <1>9, <2>4 DEF PoolIInv, PoolTypes, PoolWorkerStates
  <2>6. QSort!Accounted'
    <3>1. /\ tasks_active = Len(queue) + Cardinality(QSort!Busy) + Cardinality(QSort!Dispatching) + inlined
          /\ Len(queue) \in Nat /\ inlined \in Nat
      BY <1>6 DEF PoolIInv, PoolTypes, QSort!Accounted, QSort!Working
    <3>2. tasks_active' = Len(queue') + Cardinality(QSort!Busy') + Cardinality(QSort!Dispatching') + inlined'
      <4>1. tasks_active' = tasks_active + 1 /\ Len(queue') = Len(queue) /\ inlined' = inlined
        BY <1>2, <1>9
      <4>2. Cardinality(QSort!Busy') = Cardinality(QSort!Busy)
        BY <2>3
      <4>3. QED
        BY <2>3, <3>1, <4>1, <4>2
    <3>3. QED
      BY <1>2, <1>6, <3>2 DEF QSort!Accounted
  <2>7. PoolCovered'
    <3> SUFFICES ASSUME NEW p \in QSort!Positions, p \notin settled'
                 PROVE  \/ \E v \in Workers : v \in QSort!Busy' /\ p \in QSort!Span(seg'[v])
                        \/ \E v \in Workers : v \in QSort!Dispatching' /\ p \in QSort!Span(part'[v])
                        \/ \E k \in DOMAIN queue' : p \in QSort!Span(queue'[k])
      BY DEF PoolCovered
    <3>1. CASE \E v \in Workers : v \in QSort!Busy /\ p \in QSort!Span(seg[v])
      BY <1>7, <2>3, <2>4, <3>1
    <3>2. CASE \E v \in Workers : v \in QSort!Dispatching /\ p \in QSort!Span(part[v])
      BY <2>3, <2>4, <3>2
    <3>3. CASE \E k \in DOMAIN queue : p \in QSort!Span(queue[k])
      BY <1>2, <3>3
    <3>4. QED
      BY <1>5, <1>6, <3>1, <3>2, <3>3 DEF PoolIInv, PoolCovered
  <2>8. PoolFinishSettled'
    BY <1>5, <1>7, <2>2 DEF PoolIInv, PoolFinishSettled
  <2>9. PoolSignalled'
    BY <1>2, <1>6, <2>2 DEF PoolSignalled
  <2>10. QED
    BY <1>8, <2>5, <2>6, <2>7, <2>8, <2>9 DEF PoolIInv
<1>10. CASE QSort!Span(out) = {} /\ UNCHANGED <<tasks_active, part, wpc>>
  <2>1. QSort!Busy' = QSort!Busy /\ QSort!Dispatching' = QSort!Dispatching
    BY <1>10 DEF QSort!Busy, QSort!Dispatching
  <2>2. PoolTypes'
    BY <1>2, <1>7, <1>10 DEF PoolIInv, PoolTypes
  <2>3. QSort!Accounted'
    BY <1>2, <1>10, <2>1 DEF PoolIInv, QSort!Accounted, QSort!Working
  <2>4. PoolCovered'
    BY <1>2, <1>5, <1>6, <1>7, <1>10, <2>1 DEF PoolIInv, PoolCovered
  <2>5. PoolFinishSettled'
    BY <1>2, <1>5, <1>7, <1>10 DEF PoolIInv, PoolFinishSettled
  <2>6. PoolSignalled'
    BY <1>2, <1>6, <1>10 DEF PoolSignalled
  <2>7. QED
    BY <1>8, <2>2, <2>3, <2>4, <2>5, <2>6 DEF PoolIInv
<1>11. QED
  BY <1>5, <1>9, <1>10

\* A dispatch, up to where the part goes.
LEMMA PoolDispatchMove ==
  ASSUME PoolIInv, NEW w \in Workers, NEW to \in {"post", "work"}, QSort!At(w, "dispatch", to),
         part' = [part EXCEPT ![w] = QSort!Nothing],
         UNCHANGED <<seg, mpc, tasks_active, event_done>>
  PROVE  /\ mpc \in {"post", "await"} /\ ~event_done /\ \A v \in Workers : wpc[v] # "signal"
         /\ \A v \in Workers : wpc'[v] = IF v = w THEN to ELSE wpc[v]
         /\ QSort!Busy' = QSort!Busy /\ QSort!Dispatching' = QSort!Dispatching \ {w}
         /\ Cardinality(QSort!Busy) \in Nat /\ Cardinality(QSort!Dispatching) \in Nat
         /\ Cardinality(QSort!Dispatching') = Cardinality(QSort!Dispatching) - 1
         /\ \A v \in Workers : v # w => part'[v] = part[v]
         /\ wpc' \in [Workers -> PoolWorkerStates] /\ part' \in [Workers -> QSort!Segments]
         /\ part[w] \in QSort!Segments /\ QSort!Span(part[w]) \subseteq QSort!Positions
         /\ PoolQuiet' /\ PoolSignalled'
<1>1. wpc[w] = "dispatch" /\ wpc' = [wpc EXCEPT ![w] = to]
  BY DEF QSort!At
<1>2. mpc \in {"post", "await"} /\ ~event_done /\ \A v \in Workers : wpc[v] # "signal"
  BY <1>1, PoolBusyInAwait DEF PoolBusyStates
<1>3. /\ \A v \in Workers : wpc'[v] = IF v = w THEN to ELSE wpc[v]
      /\ QSort!Busy' = IF to \in PoolBusyStates THEN QSort!Busy \cup {w} ELSE QSort!Busy \ {w}
      /\ QSort!Dispatching' =
           IF to = "dispatch" THEN QSort!Dispatching \cup {w} ELSE QSort!Dispatching \ {w}
      /\ Cardinality(QSort!Busy) \in Nat /\ Cardinality(QSort!Dispatching) \in Nat
      /\ Cardinality(QSort!Dispatching') = Cardinality(QSort!Dispatching)
           - PoolIn("dispatch", {"dispatch"}) + PoolIn(to, {"dispatch"})
  BY PoolCountMove DEF PoolIInv
<1>4. QSort!Busy' = QSort!Busy /\ QSort!Dispatching' = QSort!Dispatching \ {w}
  BY <1>1, <1>3 DEF PoolBusyStates, QSort!Busy
<1>5. Cardinality(QSort!Dispatching') = Cardinality(QSort!Dispatching) - 1
  BY <1>3 DEF PoolIn
<1>6. wpc' \in [Workers -> PoolWorkerStates]
  BY <1>1 DEF PoolIInv, PoolTypes, PoolWorkerStates
<1>7. /\ part' \in [Workers -> QSort!Segments] /\ \A v \in Workers : v # w => part'[v] = part[v]
      /\ part[w] \in QSort!Segments /\ QSort!Span(part[w]) \subseteq QSort!Positions
  BY PoolWholeSegment, PoolSegmentShape DEF PoolIInv, PoolTypes
<1>8. PoolQuiet' /\ PoolSignalled'
  BY <1>2, <1>3 DEF PoolQuiet, PoolSignalled
<1>9. QED
  BY <1>2, <1>3, <1>4, <1>5, <1>6, <1>7, <1>8

LEMMA PoolDispatchQueuedIInv ==
  ASSUME PoolIInv, NEW w \in Workers, QSort!DispatchQueued(w)
  PROVE  PoolIInv'
<1>1. /\ QSort!At(w, "dispatch", "post")
      /\ part' = [part EXCEPT ![w] = QSort!Nothing]
      /\ queue' = Append(queue, part[w])
      /\ UNCHANGED <<seg, mpc, tasks_active, event_done, settled, inlined>>
  BY DEF QSort!DispatchQueued, QSort!Enqueue, QSort!mainVars
<1>2. /\ mpc \in {"post", "await"}
      /\ \A v \in Workers : wpc'[v] = IF v = w THEN "post" ELSE wpc[v]
      /\ QSort!Busy' = QSort!Busy /\ QSort!Dispatching' = QSort!Dispatching \ {w}
      /\ Cardinality(QSort!Busy) \in Nat /\ Cardinality(QSort!Dispatching) \in Nat
      /\ Cardinality(QSort!Dispatching') = Cardinality(QSort!Dispatching) - 1
      /\ \A v \in Workers : v # w => part'[v] = part[v]
      /\ wpc' \in [Workers -> PoolWorkerStates] /\ part' \in [Workers -> QSort!Segments]
      /\ part[w] \in QSort!Segments
      /\ PoolQuiet' /\ PoolSignalled'
  BY <1>1, PoolDispatchMove
<1>3. /\ queue' \in Seq(QSort!Segments \cup {QSort!Stop})
      /\ Len(queue) \in Nat /\ Len(queue') = Len(queue) + 1
      /\ DOMAIN queue = 1 .. Len(queue) /\ DOMAIN queue' = 1 .. Len(queue) + 1
      /\ \A k \in DOMAIN queue : queue'[k] = queue[k]
      /\ queue'[Len(queue) + 1] = part[w]
  BY <1>1, <1>2 DEF PoolIInv, PoolTypes
<1>4. PoolTypes'
  BY <1>1, <1>2, <1>3 DEF PoolIInv, PoolTypes
<1>5. PoolNoStops'
  BY <1>1, <1>2, <1>3, PoolStopNoSegment DEF PoolIInv, PoolNoStops, QSort!Working
<1>6. QSort!Accounted'
  <2>1. /\ tasks_active = Len(queue) + Cardinality(QSort!Busy) + Cardinality(QSort!Dispatching) + inlined
        /\ inlined \in Nat
    BY <1>2 DEF PoolIInv, PoolTypes, QSort!Accounted, QSort!Working
  <2>2. tasks_active' = tasks_active /\ inlined' = inlined
    BY <1>1
  <2>3. Cardinality(QSort!Busy') = Cardinality(QSort!Busy)
    BY <1>2
  <2>4. tasks_active' = Len(queue') + Cardinality(QSort!Busy') + Cardinality(QSort!Dispatching') + inlined'
    BY <1>2, <1>3, <2>1, <2>2, <2>3
  <2>5. QED
    BY <1>1, <1>2, <2>4 DEF QSort!Accounted
<1>7. PoolCovered'
  <2> SUFFICES ASSUME NEW p \in QSort!Positions, p \notin settled'
               PROVE  \/ \E v \in Workers : v \in QSort!Busy' /\ p \in QSort!Span(seg'[v])
                      \/ \E v \in Workers : v \in QSort!Dispatching' /\ p \in QSort!Span(part'[v])
                      \/ \E k \in DOMAIN queue' : p \in QSort!Span(queue'[k])
    BY DEF PoolCovered
  <2>1. CASE \E v \in Workers : v \in QSort!Busy /\ p \in QSort!Span(seg[v])
    BY <1>1, <1>2, <2>1
  <2>2. CASE \E v \in Workers : v \in QSort!Dispatching /\ p \in QSort!Span(part[v])
    <3>1. PICK v \in Workers : v \in QSort!Dispatching /\ p \in QSort!Span(part[v])
      BY <2>2
    <3>2. CASE v = w
      <4>1. p \in QSort!Span(queue'[Len(queue) + 1]) /\ Len(queue) + 1 \in DOMAIN queue'
        BY <1>3, <3>1, <3>2
      <4>2. QED
        BY <4>1
    <3>3. CASE v # w
      BY <1>2, <3>1, <3>3
    <3>4. QED
      BY <3>2, <3>3
  <2>3. CASE \E k \in DOMAIN queue : p \in QSort!Span(queue[k])
    <3>1. PICK k \in DOMAIN queue : p \in QSort!Span(queue[k])
      BY <2>3
    <3>2. k \in DOMAIN queue' /\ queue'[k] = queue[k]
      BY <1>3
    <3>3. QED
      BY <3>1, <3>2
  <2>4. QED
    BY <1>1, <1>2, <2>1, <2>2, <2>3 DEF PoolIInv, PoolCovered
<1>8. PoolFinishSettled'
  BY <1>1, <1>2 DEF PoolIInv, PoolFinishSettled
<1>9. QED
  BY <1>2, <1>4, <1>5, <1>6, <1>7, <1>8 DEF PoolIInv

LEMMA PoolDispatchInlineIInv ==
  ASSUME PoolIInv, NEW w \in Workers, QSort!DispatchInline(w)
  PROVE  PoolIInv'
<1>1. /\ QSort!At(w, "dispatch", "work")
      /\ part' = [part EXCEPT ![w] = QSort!Nothing]
      /\ settled' = settled \cup QSort!Span(part[w])
      /\ inlined' = inlined + 1
      /\ UNCHANGED <<queue, seg, mpc, tasks_active, event_done>>
  BY DEF QSort!DispatchInline, QSort!queueVars, QSort!mainVars
<1>2. /\ mpc \in {"post", "await"}
      /\ \A v \in Workers : wpc'[v] = IF v = w THEN "work" ELSE wpc[v]
      /\ QSort!Busy' = QSort!Busy /\ QSort!Dispatching' = QSort!Dispatching \ {w}
      /\ Cardinality(QSort!Busy) \in Nat /\ Cardinality(QSort!Dispatching) \in Nat
      /\ Cardinality(QSort!Dispatching') = Cardinality(QSort!Dispatching) - 1
      /\ \A v \in Workers : v # w => part'[v] = part[v]
      /\ wpc' \in [Workers -> PoolWorkerStates] /\ part' \in [Workers -> QSort!Segments]
      /\ QSort!Span(part[w]) \subseteq QSort!Positions
      /\ PoolQuiet' /\ PoolSignalled'
  BY <1>1, PoolDispatchMove
<1>3. PoolTypes' /\ PoolNoStops'
  BY <1>1, <1>2 DEF PoolIInv, PoolTypes, PoolNoStops, QSort!Working
<1>4. QSort!Accounted'
  <2>1. /\ tasks_active = Len(queue) + Cardinality(QSort!Busy) + Cardinality(QSort!Dispatching) + inlined
        /\ inlined \in Nat /\ Len(queue) \in Nat
    BY <1>2 DEF PoolIInv, PoolTypes, QSort!Accounted, QSort!Working
  <2>2. tasks_active' = tasks_active /\ Len(queue') = Len(queue) /\ inlined' = inlined + 1
    BY <1>1
  <2>3. Cardinality(QSort!Busy') = Cardinality(QSort!Busy)
    BY <1>2
  <2>4. tasks_active' = Len(queue') + Cardinality(QSort!Busy') + Cardinality(QSort!Dispatching') + inlined'
    BY <1>2, <2>1, <2>2, <2>3
  <2>5. QED
    BY <1>1, <1>2, <2>4 DEF QSort!Accounted
<1>5. PoolCovered'
  BY <1>1, <1>2 DEF PoolIInv, PoolCovered
<1>6. PoolFinishSettled'
  BY <1>1, <1>2 DEF PoolIInv, PoolFinishSettled
<1>7. QED
  BY <1>2, <1>3, <1>4, <1>5, <1>6 DEF PoolIInv

LEMMA PoolFinishTaskIInv ==
  ASSUME PoolIInv, NEW w \in Workers, QSort!FinishTask(w)
  PROVE  PoolIInv'
<1> DEFINE to == IF tasks_active = 1 THEN "signal" ELSE "wait"
<1>1. /\ QSort!At(w, "finish", to)
      /\ tasks_active' = tasks_active - 1
      /\ seg' = [seg EXCEPT ![w] = QSort!Nothing]
      /\ UNCHANGED <<queue, part, mpc, event_done, settled, inlined>>
  BY DEF QSort!FinishTask, QSort!queueVars, QSort!mainVars
<1>2. to \in {"signal", "wait"}
  OBVIOUS
<1>3. wpc[w] = "finish" /\ wpc' = [wpc EXCEPT ![w] = to]
  BY <1>1 DEF QSort!At
<1>4. mpc \in {"post", "await"} /\ ~event_done /\ \A v \in Workers : wpc[v] # "signal"
  BY <1>3, PoolBusyInAwait DEF PoolBusyStates
<1>5. to = "signal" => tasks_active = 1
  OBVIOUS
<1> HIDE DEF to
<1>6. /\ \A v \in Workers : wpc'[v] = IF v = w THEN to ELSE wpc[v]
      /\ QSort!Busy' = IF to \in PoolBusyStates THEN QSort!Busy \cup {w} ELSE QSort!Busy \ {w}
      /\ QSort!Dispatching' =
           IF to = "dispatch" THEN QSort!Dispatching \cup {w} ELSE QSort!Dispatching \ {w}
      /\ Cardinality(QSort!Busy) \in Nat /\ Cardinality(QSort!Dispatching) \in Nat
      /\ Cardinality(QSort!Busy') =
           Cardinality(QSort!Busy) - PoolIn("finish", PoolBusyStates) + PoolIn(to, PoolBusyStates)
  BY <1>1, PoolCountMove DEF PoolIInv
<1>7. /\ QSort!Busy' = QSort!Busy \ {w} /\ w \in QSort!Busy /\ QSort!Dispatching' = QSort!Dispatching
      /\ Cardinality(QSort!Busy') = Cardinality(QSort!Busy) - 1
      /\ Cardinality(QSort!Busy) \in Nat /\ Cardinality(QSort!Dispatching) \in Nat
  BY <1>2, <1>3, <1>6 DEF PoolBusyStates, QSort!Busy, QSort!Dispatching, PoolIn
<1>8. PoolTypes'
  <2>1. wpc' \in [Workers -> PoolWorkerStates]
    BY <1>2, <1>3 DEF PoolIInv, PoolTypes, PoolWorkerStates
  <2>2. seg' \in [Workers -> QSort!Segments]
    BY <1>1, PoolWholeSegment DEF PoolIInv, PoolTypes
  <2>3. QED
    BY <1>1, <2>1, <2>2 DEF PoolIInv, PoolTypes
<1>9. PoolQuiet' /\ PoolNoStops'
  BY <1>1, <1>4 DEF PoolIInv, PoolQuiet, PoolNoStops, QSort!Working
<1>10. /\ tasks_active = Len(queue) + Cardinality(QSort!Busy) + Cardinality(QSort!Dispatching) + inlined
       /\ inlined \in Nat /\ Len(queue) \in Nat
  BY <1>4 DEF PoolIInv, PoolTypes, QSort!Accounted, QSort!Working
<1>11. QSort!Accounted'
  <2>1. tasks_active' = tasks_active - 1 /\ Len(queue') = Len(queue) /\ inlined' = inlined
    BY <1>1
  <2>2. Cardinality(QSort!Dispatching') = Cardinality(QSort!Dispatching)
    BY <1>7
  <2>3. tasks_active' = Len(queue') + Cardinality(QSort!Busy') + Cardinality(QSort!Dispatching') + inlined'
    BY <1>7, <1>10, <2>1, <2>2
  <2>4. QED
    BY <1>1, <1>4, <2>3 DEF QSort!Accounted
<1>12. /\ QSort!Span(seg[w]) \subseteq settled
       /\ \A v \in Workers : v # w => seg'[v] = seg[v]
  BY <1>1, <1>3 DEF PoolIInv, PoolTypes, PoolFinishSettled
<1>13. PoolCovered'
  BY <1>1, <1>4, <1>7, <1>12 DEF PoolIInv, PoolCovered
<1>14. PoolFinishSettled'
  BY <1>1, <1>2, <1>6, <1>12 DEF PoolIInv, PoolFinishSettled
<1>15. PoolSignalled'
  <2>1. ASSUME to = "signal" PROVE PoolOver'
    <3>1. Cardinality(QSort!Busy) >= 1
      BY <1>7, PoolWorkersFinite DEF QSort!Busy
    <3>2. Len(queue) = 0 /\ Cardinality(QSort!Busy') = 0 /\ Cardinality(QSort!Dispatching') = 0
      BY <1>5, <1>7, <1>10, <2>1, <3>1
    <3>3. IsFiniteSet(QSort!Busy') /\ IsFiniteSet(QSort!Dispatching')
      BY PoolWorkersFinite DEF QSort!Busy, QSort!Dispatching
    <3>4. QSort!Busy' = {} /\ QSort!Dispatching' = {}
      BY <3>2, <3>3, FS_EmptySet
    <3>5. queue' = <<>>
      BY <1>1, <3>2 DEF PoolIInv, PoolTypes
    <3>6. mpc' \notin {"count", "push"}
      BY <1>1, <1>4
    <3>7. settled' = QSort!Positions
      <4>1. DOMAIN queue' = {}
        BY <3>5
      <4>2. \A p \in QSort!Positions : p \in settled'
        BY <1>13, <3>4, <3>6, <4>1 DEF PoolCovered
      <4>3. settled' \subseteq QSort!Positions
        BY <1>8 DEF PoolTypes
      <4>4. QED
        BY <4>2, <4>3
    <3>8. QED
      BY <3>4, <3>5, <3>6, <3>7 DEF PoolOver
  <2>2. QED
    BY <1>1, <1>2, <1>4, <1>6, <2>1 DEF PoolSignalled
<1>16. QED
  BY <1>8, <1>9, <1>11, <1>13, <1>14, <1>15 DEF PoolIInv

LEMMA PoolSignalDoneIInv ==
  ASSUME PoolIInv, NEW w \in Workers, QSort!SignalDone(w)
  PROVE  PoolIInv'
<1>1. /\ QSort!At(w, "signal", "wait") /\ event_done' = TRUE
      /\ UNCHANGED <<queue, seg, part, mpc, tasks_active, settled, inlined>>
  BY DEF QSort!SignalDone, QSort!queueVars, QSort!mainVars
<1>2. wpc[w] = "signal" /\ wpc' = [wpc EXCEPT ![w] = "wait"]
  BY <1>1 DEF QSort!At
<1>3. /\ \A v \in Workers : wpc'[v] = IF v = w THEN "wait" ELSE wpc[v]
  BY <1>2 DEF PoolIInv, PoolTypes
<1>4. QSort!Busy' = QSort!Busy /\ QSort!Dispatching' = QSort!Dispatching
  BY <1>2, <1>3 DEF QSort!Busy, QSort!Dispatching
<1>5. PoolOver
  BY <1>2 DEF PoolIInv, PoolSignalled
<1>6. PoolOver'
  BY <1>1, <1>4, <1>5 DEF PoolOver
<1>7. PoolTypes'
  BY <1>1, <1>2 DEF PoolIInv, PoolTypes, PoolWorkerStates
<1>8. PoolQuiet' /\ PoolNoStops' /\ QSort!Accounted' /\ PoolCovered'
  BY <1>1, <1>4, <1>5 DEF PoolIInv, PoolQuiet, PoolNoStops, QSort!Accounted, PoolCovered,
     QSort!Working, PoolOver
<1>9. PoolFinishSettled' /\ PoolSignalled'
  BY <1>1, <1>3, <1>6 DEF PoolIInv, PoolFinishSettled, PoolSignalled
<1>10. QED
  BY <1>7, <1>8, <1>9 DEF PoolIInv

LEMMA PoolWorkerIInv ==
  ASSUME PoolIInv, NEW w \in Workers, QSort!Worker(w)
  PROVE  PoolIInv'
BY PoolWaitTaskIInv, PoolTakeTaskIInv, PoolSortSmallIInv, PoolPartitionIInv,
   PoolDispatchQueuedIInv,
   PoolDispatchInlineIInv, PoolPostTaskIInv, PoolFinishTaskIInv, PoolSignalDoneIInv DEF QSort!Worker

----------------------------------------------------------------------------
(* The steps of main. *)

LEMMA PoolCountFirstIInv == PoolIInv /\ QSort!CountFirst => PoolIInv'
<1> SUFFICES ASSUME PoolIInv, QSort!CountFirst PROVE PoolIInv'
  OBVIOUS
<1>1. /\ mpc = "count" /\ mpc' = "push" /\ tasks_active' = 1
      /\ UNCHANGED <<queue, wpc, seg, part, event_done, settled, inlined>>
  BY DEF QSort!CountFirst, QSort!MainAt, QSort!queueVars, QSort!workerVars
<1>2. QSort!Busy' = {} /\ QSort!Dispatching' = {} /\ inlined = 0
  BY <1>1 DEF PoolIInv, PoolQuiet, QSort!Busy, QSort!Dispatching
<1>3. QSort!Accounted'
  <2>1. Cardinality(QSort!Busy') = 0 /\ Cardinality(QSort!Dispatching') = 0
    BY <1>2, FS_EmptySet
  <2>2. QED
    BY <1>1, <1>2, <2>1 DEF QSort!Accounted
<1>4. ~event_done /\ \A w \in Workers : wpc[w] # "signal"
  BY <1>1 DEF PoolIInv, PoolQuiet, PoolSignalled, PoolOver
<1>5. PoolTypes' /\ PoolQuiet' /\ PoolNoStops' /\ PoolCovered' /\ PoolFinishSettled' /\ PoolSignalled'
  BY <1>1, <1>4 DEF PoolIInv, PoolTypes, PoolQuiet, PoolNoStops, PoolCovered, PoolFinishSettled,
     PoolSignalled, QSort!Working
<1>6. QED
  BY <1>3, <1>5 DEF PoolIInv

LEMMA PoolPushFirstIInv == PoolIInv /\ QSort!PushFirst => PoolIInv'
<1> SUFFICES ASSUME PoolIInv, QSort!PushFirst PROVE PoolIInv'
  OBVIOUS
<1>1. /\ mpc = "push" /\ mpc' = "post"
      /\ queue' = Append(queue, <<0, NSort>>)
      /\ UNCHANGED <<wpc, seg, part, tasks_active, event_done, settled, inlined>>
  BY DEF QSort!PushFirst, QSort!MainAt, QSort!Enqueue, QSort!workerVars
<1>2. queue = <<>>
  BY <1>1 DEF PoolIInv, PoolQuiet
<1>3. /\ queue' \in Seq(QSort!Segments \cup {QSort!Stop})
      /\ Len(queue') = 1 /\ DOMAIN queue' = {1} /\ queue'[1] = <<0, NSort>>
  BY <1>1, <1>2, PoolWholeSegment
<1>4. QSort!Busy' = QSort!Busy /\ QSort!Dispatching' = QSort!Dispatching
  BY <1>1 DEF QSort!Busy, QSort!Dispatching
<1>5. ~event_done /\ \A w \in Workers : wpc[w] # "signal"
  BY <1>1 DEF PoolIInv, PoolQuiet, PoolSignalled, PoolOver
<1>6. PoolTypes' /\ PoolQuiet' /\ PoolFinishSettled' /\ PoolSignalled'
  BY <1>1, <1>3, <1>5 DEF PoolIInv, PoolTypes, PoolQuiet, PoolFinishSettled, PoolSignalled
<1>7. PoolNoStops' /\ PoolCovered'
  BY <1>3, PoolWholeSegment DEF PoolNoStops, PoolCovered
<1>8. QSort!Accounted'
  BY <1>1, <1>3, <1>4 DEF PoolIInv, QSort!Accounted, QSort!Working
<1>9. QED
  BY <1>6, <1>7, <1>8 DEF PoolIInv

\* Main goes on to wait, and stops waiting when the event is set.
LEMMA PoolMainMoves ==
  ASSUME PoolIInv,
           \/ mpc = "post" /\ mpc' = "await"
           \/ mpc = "await" /\ event_done /\ mpc' = "stop"
           \/ mpc \in {"stop", "poststop"} /\ mpc' \in {"stop", "poststop", "freed"},
         UNCHANGED <<queue, wpc, seg, part, tasks_active, event_done, settled, inlined>>
  PROVE  PoolIInv'
<1>1. QSort!Busy' = QSort!Busy /\ QSort!Dispatching' = QSort!Dispatching
  BY DEF QSort!Busy, QSort!Dispatching
<1>2. PoolTypes' /\ PoolQuiet' /\ PoolNoStops' /\ PoolFinishSettled'
  BY DEF PoolIInv, PoolTypes, PoolQuiet, PoolNoStops, PoolFinishSettled, QSort!Working
<1>3. QSort!Accounted'
  BY <1>1 DEF PoolIInv, QSort!Accounted, QSort!Working
<1>4. PoolCovered' /\ PoolSignalled'
  BY <1>1 DEF PoolIInv, PoolCovered, PoolSignalled, PoolOver
<1>5. QED
  BY <1>2, <1>3, <1>4 DEF PoolIInv

\* The stop segments come after the end of the work.
LEMMA PoolPushStopIInv == PoolIInv /\ QSort!PushStop => PoolIInv'
<1> SUFFICES ASSUME PoolIInv, QSort!PushStop PROVE PoolIInv'
  OBVIOUS
<1>1. mpc = "stop" /\ UNCHANGED <<wpc, seg, part, tasks_active, event_done, settled, inlined>>
  BY DEF QSort!PushStop, QSort!workerVars
<1>2. CASE queue' = queue /\ mpc' = "stop"
  BY <1>1, <1>2, PoolMainMoves
<1>3. CASE queue' = Append(queue, QSort!Stop) /\ mpc' = "poststop"
  <2>1. event_done /\ PoolOver
    BY <1>1 DEF PoolIInv, PoolSignalled
  <2>2. /\ queue' \in Seq(QSort!Segments \cup {QSort!Stop})
        /\ \A k \in DOMAIN queue' : queue'[k] = QSort!Stop
    BY <1>3, <2>1 DEF PoolIInv, PoolTypes, PoolOver
  <2>3. QSort!Busy' = QSort!Busy
    BY <1>1 DEF QSort!Busy
  <2>4. PoolOver'
    BY <1>1, <1>3, <2>1, <2>2, <2>3 DEF PoolOver
  <2>5. PoolTypes' /\ PoolQuiet' /\ PoolNoStops' /\ QSort!Accounted' /\ PoolFinishSettled'
    BY <1>1, <1>3, <2>2 DEF PoolIInv, PoolTypes, PoolQuiet, PoolNoStops, QSort!Accounted,
       PoolFinishSettled, QSort!Working
  <2>6. PoolCovered' /\ PoolSignalled'
    BY <1>1, <2>1, <2>4 DEF PoolCovered, PoolSignalled, PoolOver
  <2>7. QED
    BY <2>5, <2>6 DEF PoolIInv
<1>4. QED
  BY <1>1, <1>2, <1>3 DEF QSort!PushStop, QSort!Enqueue, QSort!queueVars

LEMMA PoolMainIInv == PoolIInv /\ QSort!Main => PoolIInv'
<1> SUFFICES ASSUME PoolIInv, QSort!Main PROVE PoolIInv'
  OBVIOUS
<1>1. CASE QSort!PostFirst
  BY <1>1, PoolMainMoves DEF QSort!PostFirst, QSort!MainAt, QSort!Post, QSort!workerVars
<1>2. CASE QSort!AwaitDone
  BY <1>2, PoolMainMoves DEF QSort!AwaitDone, QSort!MainAt, QSort!queueVars, QSort!workerVars
<1>3. CASE QSort!PostStop
  BY <1>3, PoolMainMoves DEF QSort!PostStop, QSort!MainAt, QSort!Post, QSort!workerVars
<1>4. CASE QSort!Join
  BY <1>4, PoolMainMoves DEF QSort!Join, QSort!MainAt, QSort!queueVars, QSort!workerVars
<1>5. QED
  BY <1>1, <1>2, <1>3, <1>4, PoolCountFirstIInv, PoolPushFirstIInv, PoolPushStopIInv DEF
     QSort!Main

LEMMA PoolNextIInv == PoolIInv /\ [QSort!Next]_(QSort!vars) => PoolIInv'
<1>1. ASSUME PoolIInv, UNCHANGED QSort!vars PROVE PoolIInv'
  <2>1. UNCHANGED <<queue, wpc, seg, part, mpc, tasks_active, event_done, settled, inlined>>
    BY <1>1 DEF QSort!vars, QSort!queueVars, QSort!workerVars, QSort!mainVars
  <2>2. QSort!Busy' = QSort!Busy /\ QSort!Dispatching' = QSort!Dispatching
    BY <2>1 DEF QSort!Busy, QSort!Dispatching
  <2>3. QED
    BY <1>1, <2>1, <2>2 DEF PoolIInv, PoolTypes, PoolQuiet, PoolNoStops, QSort!Accounted,
       PoolCovered, PoolFinishSettled,
                            PoolSignalled, PoolOver, QSort!Working
<1>2. QED
  BY <1>1, PoolMainIInv, PoolWorkerIInv DEF QSort!Next

----------------------------------------------------------------------------
(* The ring and its semaphore. *)

PoolPopping == {w \in Workers : wpc[w] = "pop"}
PoolPosting == {w \in Workers : wpc[w] = "post"}

PoolMainPosts == IF mpc \in {"post", "poststop"} THEN 1 ELSE 0

\* The semaphore, with the threads that have acquired it and not taken yet and
\* those that have pushed and not posted yet, is what the ring holds.
PoolSemaphoreExact ==
  sem_ready + Cardinality(PoolPopping) + Cardinality(PoolPosting) + PoolMainPosts = Len(queue)

PoolBounds ==
  /\ sem_ready \in Nat /\ Len(queue) <= Capacity
  /\ stops \in 0 .. Cardinality(Workers)
  /\ mpc = "poststop" => stops < Cardinality(Workers)

PoolRingInv == PoolBounds /\ PoolSemaphoreExact

LEMMA PoolRingCounts ==
  ASSUME NEW w \in Workers, NEW from, NEW to, QSort!At(w, from, to), PoolTypes
  PROVE  /\ Cardinality(PoolPopping) \in Nat /\ Cardinality(PoolPosting) \in Nat
         /\ Cardinality(PoolPopping') \in Nat /\ Cardinality(PoolPosting') \in Nat
         /\ Cardinality(PoolPopping') = Cardinality(PoolPopping) - PoolIn(from, {"pop"}) + PoolIn(to, {"pop"})
         /\ Cardinality(PoolPosting') = Cardinality(PoolPosting) - PoolIn(from, {"post"}) + PoolIn(to, {"post"})
<1>1. wpc[w] = from /\ \A v \in Workers : wpc'[v] = IF v = w THEN to ELSE wpc[v]
  BY DEF PoolTypes, QSort!At
<1>2. /\ PoolPopping' = IF to = "pop" THEN PoolPopping \cup {w} ELSE PoolPopping \ {w}
      /\ PoolPosting' = IF to = "post" THEN PoolPosting \cup {w} ELSE PoolPosting \ {w}
  BY <1>1 DEF PoolPopping, PoolPosting
<1>3. /\ IsFiniteSet(PoolPopping) /\ Cardinality(PoolPopping) \in Nat
      /\ IsFiniteSet(PoolPosting) /\ Cardinality(PoolPosting) \in Nat
  BY PoolWorkersFinite DEF PoolPopping, PoolPosting
<1>4. (w \in PoolPopping <=> from = "pop") /\ (w \in PoolPosting <=> from = "post")
  BY <1>1 DEF PoolPopping, PoolPosting
<1>5. /\ Cardinality(PoolPopping \cup {w}) =
           IF w \in PoolPopping THEN Cardinality(PoolPopping) ELSE Cardinality(PoolPopping) + 1
      /\ Cardinality(PoolPopping \ {w}) =
           IF w \in PoolPopping THEN Cardinality(PoolPopping) - 1 ELSE Cardinality(PoolPopping)
  BY <1>3, FS_AddElement, FS_RemoveElement
<1>6. /\ Cardinality(PoolPosting \cup {w}) =
           IF w \in PoolPosting THEN Cardinality(PoolPosting) ELSE Cardinality(PoolPosting) + 1
      /\ Cardinality(PoolPosting \ {w}) =
           IF w \in PoolPosting THEN Cardinality(PoolPosting) - 1 ELSE Cardinality(PoolPosting)
  BY <1>3, FS_AddElement, FS_RemoveElement
<1>7. Cardinality(PoolPopping') = Cardinality(PoolPopping) - PoolIn(from, {"pop"}) + PoolIn(to, {"pop"})
  BY <1>2, <1>3, <1>4, <1>5 DEF PoolIn
<1>8. Cardinality(PoolPosting') = Cardinality(PoolPosting) - PoolIn(from, {"post"}) + PoolIn(to, {"post"})
  BY <1>2, <1>3, <1>4, <1>6 DEF PoolIn
<1>9. Cardinality(PoolPopping') \in Nat /\ Cardinality(PoolPosting') \in Nat
  BY PoolWorkersFinite DEF PoolPopping, PoolPosting
<1>10. QED
  BY <1>3, <1>7, <1>8, <1>9

\* A step of a thread keeps the balance when what it does to the semaphore and
\* the ring is what its own state stands for.
LEMMA PoolRingMove ==
  ASSUME PoolTypes, PoolRingInv, NEW w \in Workers, NEW from, NEW to, QSort!At(w, from, to),
         sem_ready' \in Nat, Len(queue') \in Nat, Len(queue') <= Capacity,
         sem_ready' + PoolIn(to, {"pop"}) + PoolIn(to, {"post"}) - Len(queue')
           = sem_ready + PoolIn(from, {"pop"}) + PoolIn(from, {"post"}) - Len(queue),
         UNCHANGED QSort!mainVars
  PROVE  PoolRingInv'
<1>1. /\ Cardinality(PoolPopping) \in Nat /\ Cardinality(PoolPosting) \in Nat
      /\ Cardinality(PoolPopping') \in Nat /\ Cardinality(PoolPosting') \in Nat
      /\ Cardinality(PoolPopping') = Cardinality(PoolPopping) - PoolIn(from, {"pop"}) + PoolIn(to, {"pop"})
      /\ Cardinality(PoolPosting') = Cardinality(PoolPosting) - PoolIn(from, {"post"}) + PoolIn(to, {"post"})
  BY PoolRingCounts
<1>2. /\ Len(queue) \in Nat /\ sem_ready \in Nat
      /\ Cardinality(PoolPopping) \in Nat /\ Cardinality(PoolPosting) \in Nat
  BY <1>1 DEF PoolTypes, PoolRingInv, PoolBounds
<1>3. mpc' = mpc /\ stops' = stops
  BY DEF QSort!mainVars
<1>4. PoolMainPosts' = PoolMainPosts /\ PoolMainPosts \in Nat
  BY <1>3 DEF PoolMainPosts
<1>5. /\ PoolIn(from, {"pop"}) \in Int /\ PoolIn(to, {"pop"}) \in Int
      /\ PoolIn(from, {"post"}) \in Int /\ PoolIn(to, {"post"}) \in Int
  BY DEF PoolIn
<1>6. sem_ready + Cardinality(PoolPopping) + Cardinality(PoolPosting) + PoolMainPosts = Len(queue)
  BY DEF PoolRingInv, PoolSemaphoreExact
<1>7. sem_ready' + Cardinality(PoolPopping') + Cardinality(PoolPosting') + PoolMainPosts' = Len(queue')
  <2> DEFINE p == Cardinality(PoolPopping)       q == Cardinality(PoolPosting)
             pNew == Cardinality(PoolPopping')   qNew == Cardinality(PoolPosting')
             popTo == PoolIn(to, {"pop"})        popFrom == PoolIn(from, {"pop"})
             postTo == PoolIn(to, {"post"})      postFrom == PoolIn(from, {"post"})
             n == Len(queue)                 nNew == Len(queue')
             posts == PoolMainPosts
             sem == sem_ready                semNew == sem_ready'
  <2>1. /\ popTo \in Int /\ popFrom \in Int /\ postTo \in Int /\ postFrom \in Int
        /\ p \in Int /\ q \in Int /\ pNew \in Int /\ qNew \in Int
        /\ n \in Int /\ nNew \in Int /\ posts \in Int /\ sem \in Int /\ semNew \in Int
    BY <1>1, <1>2, <1>4, <1>5
  <2>2. /\ pNew = p - popFrom + popTo /\ qNew = q - postFrom + postTo
        /\ semNew + popTo + postTo - nNew = sem + popFrom + postFrom - n
        /\ sem + p + q + posts = n
    BY <1>1, <1>6
  <2> HIDE DEF p, q, pNew, qNew, popTo, popFrom, postTo, postFrom, n, nNew, posts,
               sem, semNew
  <2>3. semNew + pNew + qNew + posts = nNew
    BY <2>1, <2>2
  <2>4. QED
    BY <1>4, <2>3 DEF pNew, qNew, nNew, posts, semNew
<1>8. PoolBounds'
  BY <1>3 DEF PoolRingInv, PoolBounds
<1>9. QED
  BY <1>7, <1>8 DEF PoolRingInv, PoolSemaphoreExact

LEMMA PoolInitRing == QSort!Init => PoolRingInv
<1> SUFFICES ASSUME QSort!Init PROVE PoolRingInv
  OBVIOUS
<1>1. PoolPopping = {} /\ PoolPosting = {}
  BY DEF QSort!Init, PoolPopping, PoolPosting
<1>2. Cardinality(PoolPopping) = 0 /\ Cardinality(PoolPosting) = 0
  BY <1>1, FS_EmptySet
<1>3. Cardinality(Workers) \in Nat
  BY PoolWorkersFinite
<1>4. QED
  BY <1>2, <1>3 DEF QSort!Init, QSort!QueueInit, PoolRingInv, PoolBounds, PoolSemaphoreExact,
     PoolMainPosts

LEMMA PoolWorkerRing ==
  ASSUME PoolIInv, PoolRingInv, NEW w \in Workers, QSort!Worker(w)
  PROVE  PoolRingInv'
<1>0. /\ PoolTypes /\ Len(queue) \in Nat /\ Len(queue) <= Capacity /\ sem_ready \in Nat
      /\ DOMAIN queue = 1 .. Len(queue)
  BY DEF PoolIInv, PoolTypes, PoolRingInv, PoolBounds
<1>1. CASE QSort!WaitTask(w)
  BY <1>0, <1>1, PoolRingMove DEF QSort!WaitTask, QSort!Acquire, PoolIn
<1>2. CASE QSort!TakeTask(w)
  <2>1. Len(queue') = Len(queue) - 1 /\ UNCHANGED <<sem_ready, QSort!mainVars>>
    BY <1>0, <1>2 DEF QSort!TakeTask, QSort!Dequeue, PoolTypes
  <2>2. CASE QSort!At(w, "pop", "exited")
    BY <1>0, <2>1, <2>2, PoolRingMove DEF PoolIn
  <2>3. CASE QSort!At(w, "pop", "work")
    BY <1>0, <2>1, <2>3, PoolRingMove DEF PoolIn
  <2>4. QED
    BY <1>2, <2>2, <2>3 DEF QSort!TakeTask
<1>3. CASE QSort!SortSmall(w)
  BY <1>0, <1>3, PoolRingMove DEF QSort!SortSmall, QSort!queueVars, PoolIn
<1>4. CASE QSort!Partition(w)
  <2>1. UNCHANGED <<queue, sem_ready, QSort!mainVars>>
    BY <1>4 DEF QSort!Partition, QSort!queueVars
  <2>2. CASE QSort!At(w, "work", "dispatch")
    BY <1>0, <2>1, <2>2, PoolRingMove DEF PoolIn
  <2>3. CASE UNCHANGED wpc
    BY <2>1, <2>3 DEF PoolRingInv, PoolBounds, PoolSemaphoreExact, PoolMainPosts, PoolPopping,
                        PoolPosting, QSort!mainVars
  <2>4. QED
    BY <1>4, <2>2, <2>3 DEF QSort!Partition, QSort!At
<1>5. CASE QSort!DispatchQueued(w)
  <2>1. Len(queue') = Len(queue) + 1 /\ Len(queue') <= Capacity
    BY <1>0, <1>5 DEF QSort!DispatchQueued, QSort!Enqueue, QSort!HasRoom, PoolTypes
  <2>2. QED
    BY <1>0, <1>5, <2>1, PoolRingMove DEF QSort!DispatchQueued, QSort!Enqueue, PoolIn
<1>6. CASE QSort!DispatchInline(w)
  BY <1>0, <1>6, PoolRingMove DEF QSort!DispatchInline, QSort!queueVars, PoolIn
<1>7. CASE QSort!PostTask(w)
  BY <1>0, <1>7, PoolRingMove DEF QSort!PostTask, QSort!Post, PoolIn
<1>8. CASE QSort!FinishTask(w)
  <2>1. UNCHANGED <<queue, sem_ready, QSort!mainVars>>
    BY <1>8 DEF QSort!FinishTask, QSort!queueVars
  <2>2. QSort!At(w, "finish", "signal") \/ QSort!At(w, "finish", "wait")
    BY <1>8 DEF QSort!FinishTask
  <2>3. QED
    BY <1>0, <2>1, <2>2, PoolRingMove DEF PoolIn
<1>9. CASE QSort!SignalDone(w)
  BY <1>0, <1>9, PoolRingMove DEF QSort!SignalDone, QSort!queueVars, PoolIn
<1>10. QED
  BY <1>1, <1>2, <1>3, <1>4, <1>5, <1>6, <1>7, <1>8, <1>9 DEF QSort!Worker

LEMMA PoolMainRing == PoolIInv /\ PoolRingInv /\ QSort!Main => PoolRingInv'
<1> SUFFICES ASSUME PoolIInv, PoolRingInv, QSort!Main PROVE PoolRingInv'
  OBVIOUS
<1>1. /\ PoolTypes /\ Len(queue) \in Nat /\ sem_ready \in Nat /\ Cardinality(Workers) \in Nat
      /\ Cardinality(PoolPopping) \in Nat /\ Cardinality(PoolPosting) \in Nat
  BY PoolWorkersFinite DEF PoolIInv, PoolTypes, PoolRingInv, PoolBounds, PoolPopping,
     PoolPosting
<1>2. PoolPopping' = PoolPopping /\ PoolPosting' = PoolPosting
  BY DEF QSort!Main, QSort!CountFirst, QSort!PushFirst, QSort!PostFirst, QSort!AwaitDone,
     QSort!PushStop, QSort!PostStop, QSort!Join,
         QSort!workerVars, PoolPopping, PoolPosting
<1> USE DEF PoolRingInv, PoolBounds, PoolSemaphoreExact, PoolMainPosts
<1>3. CASE QSort!CountFirst \/ QSort!AwaitDone \/ QSort!Join
  BY <1>1, <1>2, <1>3 DEF QSort!CountFirst, QSort!AwaitDone, QSort!Join, QSort!MainAt,
     QSort!queueVars
<1>4. CASE QSort!PostFirst \/ QSort!PostStop
  <2>1. /\ sem_ready' = sem_ready + 1 /\ queue' = queue
        /\ \/ mpc = "post" /\ mpc' = "await" /\ stops' = stops
           \/ mpc = "poststop" /\ mpc' = "stop" /\ stops' = stops + 1
    BY <1>4 DEF QSort!PostFirst, QSort!PostStop, QSort!Post, QSort!MainAt
  <2>2. PoolBounds'
    BY <1>1, <2>1
  <2>3. PoolSemaphoreExact'
    <3>1. PoolMainPosts = 1 /\ PoolMainPosts' = 0
      BY <2>1
    <3>2. Cardinality(PoolPopping') = Cardinality(PoolPopping)
          /\ Cardinality(PoolPosting') = Cardinality(PoolPosting)
      BY <1>2
    <3>3. PoolSemaphoreExact
      OBVIOUS
    <3>. HIDE DEF PoolMainPosts, PoolBounds
    <3>. QED
      BY <1>1, <2>1, <3>1, <3>2, <3>3
  <2>. QED
    BY <2>2, <2>3
<1>5. CASE QSort!PushFirst
  <2>1. Len(queue') = Len(queue) + 1
    BY <1>1, <1>5 DEF QSort!PushFirst, QSort!Enqueue, PoolTypes
  <2>2. QED
    BY <1>1, <1>2, <1>5, <2>1 DEF QSort!PushFirst, QSort!MainAt, QSort!Enqueue, QSort!HasRoom
<1>6. CASE QSort!PushStop
  <2>1. CASE QSort!Enqueue(QSort!Stop) /\ mpc' = "poststop" /\ UNCHANGED stops
    <3>1. Len(queue') = Len(queue) + 1
      BY <1>1, <2>1 DEF QSort!Enqueue, PoolTypes
    <3>2. QED
      BY <1>1, <1>2, <1>6, <2>1, <3>1 DEF QSort!PushStop, QSort!Enqueue, QSort!HasRoom
  <2>2. CASE stops' = stops + 1 /\ UNCHANGED <<mpc, QSort!queueVars>>
    BY <1>1, <1>2, <1>6, <2>2 DEF QSort!PushStop, QSort!queueVars
  <2>3. QED
    BY <1>6, <2>1, <2>2 DEF QSort!PushStop
<1>7. QED
  BY <1>3, <1>4, <1>5, <1>6 DEF QSort!Main

LEMMA PoolNextRing == PoolIInv /\ PoolRingInv /\ [QSort!Next]_(QSort!vars) => PoolRingInv'
<1>1. ASSUME PoolRingInv, UNCHANGED QSort!vars PROVE PoolRingInv'
  BY <1>1 DEF QSort!vars, QSort!queueVars, QSort!workerVars, QSort!mainVars, PoolRingInv,
     PoolBounds, PoolSemaphoreExact, PoolMainPosts,
              PoolPopping, PoolPosting
<1>2. QED
  BY <1>1, PoolWorkerRing, PoolMainRing DEF QSort!Next

----------------------------------------------------------------------------
(* No two threads work on the same element. *)

PoolApart(s, t) == QSort!Span(s) \cap QSort!Span(t) = {}

\* Disjoint, by who holds the two segments.
PoolHeldApart ==
  /\ \A v, w \in QSort!Busy : v # w => PoolApart(seg[v], seg[w])
  /\ \A v \in QSort!Busy, w \in QSort!Dispatching : PoolApart(seg[v], part[w])
  /\ \A v, w \in QSort!Dispatching : v # w => PoolApart(part[v], part[w])
  /\ \A v \in QSort!Busy, k \in DOMAIN queue : PoolApart(seg[v], queue[k])
  /\ \A v \in QSort!Dispatching, k \in DOMAIN queue : PoolApart(part[v], queue[k])
  /\ \A k, m \in DOMAIN queue : k # m => PoolApart(queue[k], queue[m])

LEMMA PoolInitApart == QSort!Init => PoolHeldApart
BY DEF QSort!Init, QSort!QueueInit, PoolHeldApart, QSort!Busy, QSort!Dispatching

\* The parts of a segment: in it, and apart.
LEMMA PoolPartsApart ==
  ASSUME NEW s \in QSort!Segments, NEW c \in QSort!Splits(s)
  PROVE  /\ QSort!Span(c[1]) \subseteq QSort!Span(s) /\ QSort!Span(c[2]) \subseteq QSort!Span(s)
         /\ PoolApart(c[1], c[2]) /\ PoolApart(c[2], c[1])
<1>1. /\ c[1] \in QSort!Segments /\ c[2] \in QSort!Segments
      /\ c[1][1] = s[1] /\ c[2][2] = s[2] /\ c[1][2] <= c[2][1]
  BY DEF QSort!Splits, QSort!Segments
<1>2. /\ s[1] \in Int /\ s[2] \in Int
      /\ c[1][1] \in Int /\ c[1][2] \in Int /\ c[2][1] \in Int /\ c[2][2] \in Int
      /\ c[1][1] <= c[1][2] /\ c[2][1] <= c[2][2]
  BY <1>1 DEF QSort!Segments
<1>3. QED
  BY <1>1, <1>2 DEF PoolApart, QSort!Span

\* What a step does that keeps every segment where it is.
LEMMA PoolStillApart ==
  ASSUME PoolHeldApart, QSort!Busy' \subseteq QSort!Busy, QSort!Dispatching' \subseteq QSort!Dispatching,
         \A v \in QSort!Busy' : seg'[v] = seg[v], \A v \in QSort!Dispatching' : part'[v] = part[v],
         queue' = queue
  PROVE  PoolHeldApart'
BY DEF PoolHeldApart, PoolApart, QSort!Span

LEMMA PoolTakeTaskApart ==
  ASSUME PoolIInv, PoolHeldApart, NEW w \in Workers, QSort!TakeTask(w)
  PROVE  PoolHeldApart'
<1>1. /\ wpc[w] = "pop" /\ part' = part
      /\ queue # <<>> /\ queue' = Tail(queue)
  BY DEF QSort!TakeTask, QSort!At, QSort!Dequeue
<1>2. /\ Len(queue) \in Nat \ {0} /\ Head(queue) = queue[1]
      /\ DOMAIN queue = 1 .. Len(queue) /\ DOMAIN queue' = 1 .. Len(queue) - 1
      /\ \A k \in DOMAIN queue' :
           queue'[k] = queue[k + 1] /\ k + 1 \in DOMAIN queue /\ k + 1 # 1
      /\ 1 \in DOMAIN queue
  BY <1>1 DEF PoolIInv, PoolTypes
<1>3. w \notin QSort!Busy /\ w \notin QSort!Dispatching
  BY <1>1 DEF QSort!Busy, QSort!Dispatching
<1>4. CASE Head(queue) = QSort!Stop /\ QSort!At(w, "pop", "exited") /\ UNCHANGED seg
  <2>1. QSort!Busy' = QSort!Busy /\ QSort!Dispatching' = QSort!Dispatching
    BY <1>1, <1>4 DEF PoolIInv, PoolTypes, QSort!At, QSort!Busy, QSort!Dispatching
  <2>2. \A v \in QSort!Busy', k \in DOMAIN queue' : PoolApart(seg'[v], queue'[k])
    BY <1>2, <1>4, <2>1 DEF PoolHeldApart
  <2>3. \A v \in QSort!Dispatching', k \in DOMAIN queue' : PoolApart(part'[v], queue'[k])
    BY <1>1, <1>2, <2>1 DEF PoolHeldApart
  <2>4. \A k, m \in DOMAIN queue' : k # m => PoolApart(queue'[k], queue'[m])
    BY <1>2 DEF PoolHeldApart
  <2>5. QED
    BY <1>1, <1>4, <2>1, <2>2, <2>3, <2>4 DEF PoolHeldApart, PoolApart, QSort!Span
<1>5. CASE QSort!At(w, "pop", "work") /\ seg' = [seg EXCEPT ![w] = Head(queue)]
  <2>1. QSort!Busy' = QSort!Busy \cup {w} /\ QSort!Dispatching' = QSort!Dispatching
    BY <1>1, <1>5 DEF PoolIInv, PoolTypes, QSort!At, QSort!Busy, QSort!Dispatching
  <2>2. \A v \in Workers : seg'[v] = IF v = w THEN queue[1] ELSE seg[v]
    BY <1>2, <1>5 DEF PoolIInv, PoolTypes
  <2>3. QSort!Busy \subseteq Workers /\ QSort!Dispatching \subseteq Workers
    BY DEF QSort!Busy, QSort!Dispatching
  <2>0. /\ \A v \in QSort!Busy : PoolApart(seg[v], queue[1]) /\ PoolApart(queue[1], seg[v])
        /\ \A v \in QSort!Dispatching : PoolApart(part[v], queue[1]) /\ PoolApart(queue[1], part[v])
    BY <1>2 DEF PoolHeldApart, PoolApart
  <2>4. \A u, v \in QSort!Busy' : u # v => PoolApart(seg'[u], seg'[v])
    BY <1>3, <2>0, <2>1, <2>2, <2>3 DEF PoolHeldApart
  <2>5. \A u \in QSort!Busy', v \in QSort!Dispatching' : PoolApart(seg'[u], part'[v])
    BY <1>1, <1>3, <2>0, <2>1, <2>2, <2>3 DEF PoolHeldApart
  <2>6. \A u, v \in QSort!Dispatching' : u # v => PoolApart(part'[u], part'[v])
    BY <1>1, <2>1 DEF PoolHeldApart
  <2>7. \A u \in QSort!Busy', k \in DOMAIN queue' : PoolApart(seg'[u], queue'[k])
    BY <1>2, <1>3, <2>1, <2>2, <2>3 DEF PoolHeldApart, PoolApart
  <2>8. \A u \in QSort!Dispatching', k \in DOMAIN queue' : PoolApart(part'[u], queue'[k])
    BY <1>1, <1>2, <2>1 DEF PoolHeldApart
  <2>9. \A k, m \in DOMAIN queue' : k # m => PoolApart(queue'[k], queue'[m])
    BY <1>2 DEF PoolHeldApart
  <2>10. QED
    BY <2>4, <2>5, <2>6, <2>7, <2>8, <2>9 DEF PoolHeldApart, PoolApart, QSort!Span
<1>6. QED
  BY <1>4, <1>5 DEF QSort!TakeTask

LEMMA PoolPartitionApart ==
  ASSUME PoolIInv, PoolHeldApart, NEW w \in Workers, QSort!Partition(w)
  PROVE  PoolHeldApart'
<1>1. PICK c \in QSort!Splits(seg[w]) :
        LET out == IF QSort!Size(c[1]) >= QSort!Size(c[2]) THEN c[1] ELSE c[2]
            rest == IF QSort!Size(c[1]) >= QSort!Size(c[2]) THEN c[2] ELSE c[1]
        IN
          /\ seg' = [seg EXCEPT ![w] = rest]
          /\ IF QSort!Size(out) > 0
             THEN
               /\ part' = [part EXCEPT ![w] = out]
               /\ wpc' = [wpc EXCEPT ![w] = "dispatch"]
             ELSE UNCHANGED <<part, wpc>>
  BY DEF QSort!Partition
<1> DEFINE out == IF QSort!Size(c[1]) >= QSort!Size(c[2]) THEN c[1] ELSE c[2]
           rest == IF QSort!Size(c[1]) >= QSort!Size(c[2]) THEN c[2] ELSE c[1]
<1>2. wpc[w] = "work" /\ queue' = queue
  BY DEF QSort!Partition, QSort!queueVars
<1>3. /\ QSort!Span(out) \subseteq QSort!Span(seg[w]) /\ QSort!Span(rest) \subseteq QSort!Span(seg[w])
      /\ PoolApart(out, rest)
  BY PoolPartsApart DEF PoolIInv, PoolTypes
<1>4. /\ seg' = [seg EXCEPT ![w] = rest]
      /\ \/ part' = [part EXCEPT ![w] = out] /\ wpc' = [wpc EXCEPT ![w] = "dispatch"]
         \/ UNCHANGED <<part, wpc>>
  BY <1>1
<1> HIDE DEF out, rest
<1>5. /\ w \in QSort!Busy /\ w \notin QSort!Dispatching
      /\ QSort!Busy \subseteq Workers /\ QSort!Dispatching \subseteq Workers
  BY <1>2 DEF QSort!Busy, QSort!Dispatching
<1>6. \A v \in Workers : seg'[v] = IF v = w THEN rest ELSE seg[v]
  BY <1>4 DEF PoolIInv, PoolTypes
<1>7. /\ QSort!Busy' = QSort!Busy
      /\ \/ /\ QSort!Dispatching' = QSort!Dispatching \cup {w}
            /\ \A v \in Workers : part'[v] = IF v = w THEN out ELSE part[v]
         \/ QSort!Dispatching' = QSort!Dispatching /\ part' = part
  BY <1>2, <1>4 DEF PoolIInv, PoolTypes, QSort!Busy, QSort!Dispatching
<1>8. \A u, v \in QSort!Busy' : u # v => PoolApart(seg'[u], seg'[v])
  BY <1>3, <1>5, <1>6, <1>7 DEF PoolHeldApart, PoolApart
<1>9. \A u \in QSort!Busy', v \in QSort!Dispatching' : PoolApart(seg'[u], part'[v])
  BY <1>3, <1>5, <1>6, <1>7 DEF PoolHeldApart, PoolApart
<1>10. \A u, v \in QSort!Dispatching' : u # v => PoolApart(part'[u], part'[v])
  BY <1>3, <1>5, <1>7 DEF PoolHeldApart, PoolApart
<1>11. \A u \in QSort!Busy', k \in DOMAIN queue' : PoolApart(seg'[u], queue'[k])
  BY <1>2, <1>3, <1>5, <1>6, <1>7 DEF PoolHeldApart, PoolApart
<1>12. \A u \in QSort!Dispatching', k \in DOMAIN queue' : PoolApart(part'[u], queue'[k])
  BY <1>2, <1>3, <1>5, <1>7 DEF PoolHeldApart, PoolApart
<1>13. QED
  BY <1>2, <1>8, <1>9, <1>10, <1>11, <1>12 DEF PoolHeldApart, PoolApart, QSort!Span

LEMMA PoolDispatchQueuedApart ==
  ASSUME PoolIInv, PoolHeldApart, NEW w \in Workers, QSort!DispatchQueued(w)
  PROVE  PoolHeldApart'
<1>1. /\ wpc[w] = "dispatch" /\ wpc' = [wpc EXCEPT ![w] = "post"] /\ seg' = seg
      /\ part' = [part EXCEPT ![w] = QSort!Nothing]
      /\ queue' = Append(queue, part[w])
  BY DEF QSort!DispatchQueued, QSort!At, QSort!Enqueue
<1>2. /\ QSort!Busy' = QSort!Busy /\ QSort!Dispatching' = QSort!Dispatching \ {w} /\ w \in QSort!Dispatching
      /\ QSort!Dispatching \subseteq Workers
      /\ \A v \in Workers : v # w => part'[v] = part[v]
  BY <1>1 DEF PoolIInv, PoolTypes, QSort!Busy, QSort!Dispatching
<1>3. /\ Len(queue) \in Nat
      /\ DOMAIN queue = 1 .. Len(queue)
      /\ DOMAIN queue' = 1 .. Len(queue) + 1
      /\ \A k \in DOMAIN queue' :
           \/ k \in DOMAIN queue /\ queue'[k] = queue[k]
           \/ k = Len(queue) + 1 /\ queue'[k] = part[w]
  BY <1>1 DEF PoolIInv, PoolTypes
<1>4. \A v \in QSort!Busy', u \in QSort!Dispatching' : PoolApart(seg'[v], part'[u])
  BY <1>1, <1>2 DEF PoolHeldApart
<1>5. \A u, v \in QSort!Dispatching' : u # v => PoolApart(part'[u], part'[v])
  BY <1>2 DEF PoolHeldApart
<1>6. \A v \in QSort!Busy', k \in DOMAIN queue' : PoolApart(seg'[v], queue'[k])
  BY <1>1, <1>2, <1>3 DEF PoolHeldApart
<1>7. \A v \in QSort!Dispatching', k \in DOMAIN queue' : PoolApart(part'[v], queue'[k])
  BY <1>2, <1>3 DEF PoolHeldApart
<1>8. \A k, m \in DOMAIN queue' : k # m => PoolApart(queue'[k], queue'[m])
  BY <1>2, <1>3 DEF PoolHeldApart, PoolApart
<1>9. QED
  BY <1>1, <1>2, <1>4, <1>5, <1>6, <1>7, <1>8 DEF PoolHeldApart, PoolApart, QSort!Span

LEMMA PoolWorkerApart ==
  ASSUME PoolIInv, PoolHeldApart, NEW w \in Workers, QSort!Worker(w)
  PROVE  PoolHeldApart'
<1>0. PoolTypes
  BY DEF PoolIInv
<1>1. CASE QSort!WaitTask(w) \/ QSort!SortSmall(w) \/ QSort!PostTask(w) \/ QSort!SignalDone(w)
  <2>1. /\ UNCHANGED <<seg, part, queue>>
        /\ \/ QSort!At(w, "wait", "pop") \/ QSort!At(w, "work", "finish")
           \/ QSort!At(w, "post", "work") \/ QSort!At(w, "signal", "wait")
    BY <1>1 DEF QSort!WaitTask, QSort!Acquire, QSort!SortSmall, QSort!PostTask, QSort!Post,
       QSort!SignalDone, QSort!queueVars
  <2>2. QSort!Busy' = QSort!Busy /\ QSort!Dispatching' = QSort!Dispatching
    BY <1>0, <2>1 DEF PoolTypes, QSort!At, QSort!Busy, QSort!Dispatching
  <2>3. QED
    BY <2>1, <2>2, PoolStillApart
<1>2. CASE QSort!DispatchInline(w)
  <2>1. /\ UNCHANGED <<seg, queue>> /\ part' = [part EXCEPT ![w] = QSort!Nothing]
        /\ QSort!At(w, "dispatch", "work")
    BY <1>2 DEF QSort!DispatchInline, QSort!queueVars
  <2>2. QSort!Busy' = QSort!Busy /\ QSort!Dispatching' = QSort!Dispatching \ {w}
    BY <1>0, <2>1 DEF PoolTypes, QSort!At, QSort!Busy, QSort!Dispatching
  <2>3. \A v \in QSort!Dispatching' : part'[v] = part[v]
    BY <1>0, <2>1, <2>2 DEF PoolTypes, QSort!Dispatching
  <2>4. QED
    BY <2>1, <2>2, <2>3, PoolStillApart
<1>3. CASE QSort!FinishTask(w)
  <2>1. /\ UNCHANGED <<part, queue>> /\ seg' = [seg EXCEPT ![w] = QSort!Nothing]
        /\ QSort!At(w, "finish", "signal") \/ QSort!At(w, "finish", "wait")
    BY <1>3 DEF QSort!FinishTask, QSort!queueVars
  <2>2. QSort!Busy' = QSort!Busy \ {w} /\ QSort!Dispatching' = QSort!Dispatching
    BY <1>0, <2>1 DEF PoolTypes, QSort!At, QSort!Busy, QSort!Dispatching
  <2>3. \A v \in QSort!Busy' : seg'[v] = seg[v]
    BY <1>0, <2>1, <2>2 DEF PoolTypes, QSort!Busy
  <2>4. QED
    BY <2>1, <2>2, <2>3, PoolStillApart
<1>4. QED
  BY <1>1, <1>2, <1>3, PoolTakeTaskApart, PoolPartitionApart, PoolDispatchQueuedApart DEF
     QSort!Worker

LEMMA PoolMainApart == PoolIInv /\ PoolHeldApart /\ QSort!Main => PoolHeldApart'
<1> SUFFICES ASSUME PoolIInv, PoolHeldApart, QSort!Main PROVE PoolHeldApart'
  OBVIOUS
<1>1. UNCHANGED <<wpc, seg, part>>
  BY DEF QSort!Main, QSort!CountFirst, QSort!PushFirst, QSort!PostFirst, QSort!AwaitDone,
     QSort!PushStop, QSort!PostStop, QSort!Join, QSort!workerVars
<1>2. QSort!Busy' = QSort!Busy /\ QSort!Dispatching' = QSort!Dispatching
  BY <1>1 DEF QSort!Busy, QSort!Dispatching
<1>3. CASE UNCHANGED queue
  BY <1>1, <1>2, <1>3, PoolStillApart
<1>4. CASE QSort!PushFirst
  <2>1. mpc = "push" /\ queue' = Append(queue, <<0, NSort>>)
    BY <1>4 DEF QSort!PushFirst, QSort!MainAt, QSort!Enqueue
  <2>2. queue = <<>> /\ QSort!Busy = {} /\ QSort!Dispatching = {}
    BY <2>1 DEF PoolIInv, PoolQuiet, QSort!Busy, QSort!Dispatching
  <2>3. DOMAIN queue' = {1}
    BY <2>1, <2>2
  <2>4. QED
    BY <1>2, <2>2, <2>3 DEF PoolHeldApart
<1>5. CASE QSort!PushStop /\ queue' = Append(queue, QSort!Stop)
  <2>1. /\ Len(queue) \in Nat
        /\ DOMAIN queue = 1 .. Len(queue)
        /\ DOMAIN queue' = 1 .. Len(queue) + 1
        /\ \A k \in DOMAIN queue' :
             \/ k \in DOMAIN queue /\ queue'[k] = queue[k]
             \/ k = Len(queue) + 1 /\ queue'[k] = QSort!Stop
    BY <1>5 DEF PoolIInv, PoolTypes
  <2>2. QSort!Span(QSort!Stop) = {}
    BY PoolStopNoSegment
  <2>3. \A v \in QSort!Busy', k \in DOMAIN queue' : PoolApart(seg'[v], queue'[k])
    BY <1>1, <1>2, <2>1, <2>2 DEF PoolHeldApart, PoolApart
  <2>4. \A v \in QSort!Dispatching', k \in DOMAIN queue' : PoolApart(part'[v], queue'[k])
    BY <1>1, <1>2, <2>1, <2>2 DEF PoolHeldApart, PoolApart
  <2>5. \A k, m \in DOMAIN queue' : k # m => PoolApart(queue'[k], queue'[m])
    BY <2>1, <2>2 DEF PoolHeldApart, PoolApart
  <2>6. QED
    BY <1>1, <1>2, <2>3, <2>4, <2>5 DEF PoolHeldApart, PoolApart, QSort!Span
<1>6. QED
  BY <1>3, <1>4, <1>5
  DEF QSort!Main, QSort!CountFirst, QSort!PostFirst, QSort!AwaitDone, QSort!PushStop, QSort!PostStop, QSort!Join, QSort!Post, QSort!Enqueue, QSort!queueVars

LEMMA PoolNextApart == PoolIInv /\ PoolHeldApart /\ [QSort!Next]_(QSort!vars) => PoolHeldApart'
<1>1. ASSUME PoolHeldApart, UNCHANGED QSort!vars PROVE PoolHeldApart'
  <2>1. UNCHANGED <<queue, wpc, seg, part>>
    BY <1>1 DEF QSort!vars, QSort!queueVars, QSort!workerVars
  <2>2. QSort!Busy' = QSort!Busy /\ QSort!Dispatching' = QSort!Dispatching
    BY <2>1 DEF QSort!Busy, QSort!Dispatching
  <2>3. QED
    BY <1>1, <2>1, <2>2, PoolStillApart
<1>2. QED
  BY <1>1, PoolWorkerApart, PoolMainApart DEF QSort!Next

LEMMA PoolApartIsDisjoint == PoolHeldApart => QSort!Disjoint
<1> SUFFICES ASSUME PoolHeldApart PROVE QSort!Disjoint
  OBVIOUS
<1> DEFINE held == {<<"seg", w>> : w \in QSort!Busy} \cup {<<"part", w>> : w \in QSort!Dispatching}
                   \cup {<<"queue", q>> : q \in {q \in DOMAIN queue : queue[q] # QSort!Stop}}
           Of(h) == IF h[1] = "seg" THEN seg[h[2]]
                    ELSE IF h[1] = "part" THEN part[h[2]] ELSE queue[h[2]]
<1> SUFFICES ASSUME NEW g \in held, NEW h \in held, g # h
             PROVE  QSort!Span(Of(g)) \cap QSort!Span(Of(h)) = {}
  BY DEF QSort!Disjoint
<1>1. \A e \in held :
        \/ e[1] = "seg" /\ e[2] \in QSort!Busy /\ e = <<"seg", e[2]>>
        \/ e[1] = "part" /\ e[2] \in QSort!Dispatching /\ e = <<"part", e[2]>>
        \/ e[1] = "queue" /\ e[2] \in DOMAIN queue /\ e = <<"queue", e[2]>>
  OBVIOUS
<1>2. g[1] # h[1] \/ g[2] # h[2]
  BY <1>1
<1>3. QED
  BY <1>1, <1>2 DEF PoolHeldApart, PoolApart

----------------------------------------------------------------------------
(* The results. *)

PoolInv == PoolIInv /\ PoolRingInv /\ PoolHeldApart

LEMMA PoolInitPool == QSort!Init => PoolInv
BY PoolInitIInv, PoolInitRing, PoolInitApart DEF PoolInv

LEMMA PoolNextPool == PoolInv /\ [QSort!Next]_(QSort!vars) => PoolInv'
BY PoolNextIInv, PoolNextRing, PoolNextApart DEF PoolInv

\* What the invariant says of a state.
LEMMA PoolResults ==
  ASSUME PoolInv
  PROVE  QSort!TypeOK /\ QSort!Accounted /\ QSort!DoneMeansSorted /\ QSort!Disjoint /\ QSort!SemaphoreCounts
<1>1. QSort!TypeOK
  BY DEF PoolInv, PoolIInv, PoolTypes, PoolWorkerStates, PoolRingInv, PoolBounds, QSort!TypeOK
<1>2. QSort!Accounted
  BY DEF PoolInv, PoolIInv
<1>3. QSort!DoneMeansSorted
  BY DEF PoolInv, PoolIInv, PoolSignalled, PoolOver, QSort!DoneMeansSorted, QSort!Busy,
     QSort!Dispatching
<1>4. QSort!Disjoint
  BY PoolApartIsDisjoint DEF PoolInv
<1>5. QSort!SemaphoreCounts
  <2>1. Cardinality(PoolPopping) \in Nat /\ Cardinality(PoolPosting) \in Nat /\ Len(queue) \in Nat
    BY PoolWorkersFinite DEF PoolPopping, PoolPosting, PoolInv, PoolIInv, PoolTypes
  <2>2. sem_ready + Cardinality(PoolPopping) <= Len(queue)
    BY <2>1 DEF PoolInv, PoolRingInv, PoolBounds, PoolSemaphoreExact, PoolMainPosts
  <2>3. QED
    BY <2>2 DEF QSort!SemaphoreCounts, PoolPopping
<1>6. QED
  BY <1>1, <1>2, <1>3, <1>4, <1>5

LEMMA QSortInv ==
  /\ QSort!Init => PoolInv
  /\ PoolInv /\ [QSort!Next]_(QSort!vars) => PoolInv'
  /\ PoolInv => /\ QSort!Accounted /\ QSort!DoneMeansSorted
                /\ QSort!Disjoint /\ QSort!SemaphoreCounts /\ QSort!TypeOK
BY PoolInitPool, PoolNextPool, PoolResults

HIDE PoolCardinality

----------------------------------------------------------------------------
(* The pool of msort: the model and the one the proofs instantiate are one. *)

LEMMA SameMSort ==
  /\ MSort!Init <=> MP!Init
  /\ [MSort!Next]_(MSort!vars) <=> [MP!Next]_(MP!vars)
  /\ MSort!HalvesCounted <=> MP!HalvesCounted
  /\ MSort!QuietAtEnd <=> MP!QuietAtEnd
  /\ MSort!TypeOK <=> MP!TypeOK
<1>1. MSort!Init <=> MP!Init
  BY DEF MSort!Init, MP!Init, MSort!QueueInit, MP!QueueInit, MSort!Positions, MP!Positions,
         MSort!Nothing, MP!Nothing
<1>2. [MSort!Next]_(MSort!vars) <=> [MP!Next]_(MP!vars)
  BY DEF MSort!Next, MP!Next, MSort!vars, MP!vars, MSort!Main, MP!Main, MSort!SpuriousWakeup,
         MP!SpuriousWakeup, MSort!Worker, MP!Worker, MSort!queueVars, MP!queueVars,
         MSort!workerVars, MP!workerVars, MSort!mainVars, MP!mainVars, MSort!CountFirst,
         MP!CountFirst, MSort!PushFirst, MP!PushFirst, MSort!PostFirst, MP!PostFirst,
         MSort!AwaitDone, MP!AwaitDone, MSort!PushStop, MP!PushStop, MSort!PostStop,
         MP!PostStop, MSort!Join, MP!Join, MSort!MainAt, MP!MainAt, MSort!WaitTask,
         MP!WaitTask, MSort!TakeTask, MP!TakeTask, MSort!SortSmall, MP!SortSmall,
         MSort!CountHalves, MP!CountHalves, MSort!DispatchQueued, MP!DispatchQueued,
         MSort!PostTask, MP!PostTask, MSort!DispatchInline, MP!DispatchInline,
         MSort!MergeRead, MP!MergeRead, MSort!MergeWrite, MP!MergeWrite,
         MSort!FinishTask, MP!FinishTask, MSort!Enqueue, MP!Enqueue, MSort!Post,
         MP!Post, MSort!Stop, MP!Stop, MSort!HasRoom, MP!HasRoom, MSort!At, MP!At,
         MSort!Acquire, MP!Acquire, MSort!Dequeue, MP!Dequeue, MSort!Size, MP!Size,
         MSort!Written, MP!Written, MSort!Sorted, MP!Sorted, MSort!Inserted, MP!Inserted,
         MSort!TakesLeft, MP!TakesLeft, MSort!Elements,
         MP!Elements, MSort!Half, MP!Half, MSort!Dispatched, MP!Dispatched, MSort!Merge,
         MP!Merge, MSort!Nothing, MP!Nothing, MSort!Positions, MP!Positions, MSort!Mid,
         MP!Mid, MSort!Cardinality, MP!Cardinality, MSort!IsFiniteSet, MP!IsFiniteSet
<1>3. MSort!HalvesCounted <=> MP!HalvesCounted
  BY DEF MSort!HalvesCounted, MP!HalvesCounted, MSort!Busy, MP!Busy, MSort!Undispatched,
         MP!Undispatched, MSort!TwoLeft, MP!TwoLeft, MSort!OneLeft, MP!OneLeft,
         MSort!Cardinality, MP!Cardinality, MSort!IsFiniteSet, MP!IsFiniteSet
<1>4. MSort!QuietAtEnd <=> MP!QuietAtEnd
  BY DEF MSort!QuietAtEnd, MP!QuietAtEnd, MSort!Busy, MP!Busy, MSort!Stop, MP!Stop
<1>5. MSort!TypeOK <=> MP!TypeOK
  BY DEF MSort!TypeOK, MP!TypeOK, MSort!Segments, MP!Segments, MSort!Stop, MP!Stop,
         MSort!Positions, MP!Positions, MSort!Cardinality, MP!Cardinality, MSort!IsFiniteSet,
         MP!IsFiniteSet
<1>6. QED
  BY <1>1, <1>2, <1>3, <1>4, <1>5

LEMMA MSortInv ==
  /\ MSort!Init => MP!TypesInv
  /\ MP!TypesInv /\ [MSort!Next]_(MSort!vars) => MP!TypesInv'
  /\ MP!TypesInv => MSort!HalvesCounted /\ MSort!QuietAtEnd /\ MSort!TypeOK
<1>1. MP!Init => MP!TypesInv
  BY MP!TypesInit, SameCardinality
<1>2. MP!TypesInv /\ [MP!Next]_(MP!vars) => MP!TypesInv'
  BY MP!TypesNext, SameCardinality
<1>3. MP!TypesInv => MP!TypeOK
  BY MP!TypesResult, SameCardinality
<1>4. MP!TypesInv => MP!HalvesCounted /\ MP!QuietAtEnd
  BY DEF MP!TypesInv, MP!IInv
<1>5. QED
  BY <1>1, <1>2, <1>3, <1>4, SameMSort

----------------------------------------------------------------------------
(* The jobs of chess.cpp: the inductive invariant. *)

\* The threads active_workers stands for.
ChessBusy == {w \in Workers : wpc[w] \in {"search", "retire"}}

ChessCounted == active_workers = Cardinality(ChessBusy)

\* Nothing happens before main sets start_flag.
ChessBeforeStart ==
  /\ mpc \in {"seed", "start"} => ~start_flag
  /\ ~start_flag => ~all_work_done /\ \A w \in Workers : wpc[w] = "start"
  /\ mpc = "seed" => seeded = 0 /\ queue = <<>> /\ \A t \in Chess!Jobs : added[t] = 0

\* The jobs are taken in order: 1 .. Taken have left the queue.
ChessTaken == seeded - Len(queue)

ChessInOrder == ChessTaken >= 0 /\ \A k \in 1 .. Len(queue) : queue[k] = ChessTaken + k

\* A job that has left the queue is in the hands of one thread or counted.
ChessPlaces ==
  /\ \A w \in Workers : wpc[w] = "search" => job[w] \in 1 .. ChessTaken /\ added[job[w]] = 0
  /\ \A v, w \in Workers :
       wpc[v] = "search" /\ wpc[w] = "search" /\ job[v] = job[w] => v = w
  /\ \A t \in 1 .. ChessTaken :
       added[t] = 1 \/ \E w \in Workers : wpc[w] = "search" /\ job[w] = t
  /\ \A t \in Chess!Jobs : t > ChessTaken => added[t] = 0

\* all_work_done is set when nothing is left to do, and nothing comes after it.
ChessOver == all_work_done => queue = <<>> /\ ChessBusy = {}

ChessIInv ==
  /\ Chess!TypeOK /\ ChessCounted /\ ChessBeforeStart /\ ChessInOrder
  /\ ChessPlaces /\ ChessOver /\ Chess!SleepersWoken

\* active_workers is bounded by the Cardinality of the instance, which is the same.
LEMMA ChessCardinality == Chess!Cardinality(Workers) = Cardinality(Workers)
BY DEF Cardinality, Chess!Cardinality, IsFiniteSet, Chess!IsFiniteSet

USE ChessCardinality

LEMMA ChessBusyFinite ==
  /\ IsFiniteSet(ChessBusy)
  /\ Cardinality(ChessBusy) \in 0 .. Cardinality(Workers)
  /\ Cardinality(ChessBusy) = 0 <=> ChessBusy = {}
<1>1. ChessBusy \in SUBSET Workers
  BY DEF ChessBusy
<1>2. IsFiniteSet(ChessBusy) /\ Cardinality(ChessBusy) <= Cardinality(Workers)
  BY <1>1, FS_Subset
<1>3. Cardinality(ChessBusy) \in Nat /\ Cardinality(Workers) \in Nat
  BY <1>2, FS_CardinalityType
<1>4. Cardinality(ChessBusy) = 0 <=> ChessBusy = {}
  BY <1>2, FS_EmptySet
<1>5. QED
  BY <1>2, <1>3, <1>4

\* The same one step later: nothing in it depends on the state.
LEMMA ChessBusyFiniteNext ==
  /\ IsFiniteSet(ChessBusy')
  /\ Cardinality(ChessBusy') \in 0 .. Cardinality(Workers)
<1>1. ChessBusy' \in SUBSET Workers
  BY DEF ChessBusy
<1>2. IsFiniteSet(ChessBusy') /\ Cardinality(ChessBusy') <= Cardinality(Workers)
  BY <1>1, FS_Subset
<1>3. Cardinality(ChessBusy') \in Nat /\ Cardinality(Workers) \in Nat
  BY <1>2, FS_CardinalityType
<1>4. QED
  BY <1>2, <1>3

LEMMA ChessInitIInv == Chess!Init => ChessIInv
<1> SUFFICES ASSUME Chess!Init PROVE ChessIInv
  OBVIOUS
<1>1. ChessBusy = {}
  BY DEF Chess!Init, ChessBusy
<1>2. ChessCounted
  BY <1>1, FS_EmptySet DEF Chess!Init, ChessCounted
<1>3. Chess!TypeOK
  <2>1. active_workers \in 0 .. Cardinality(Workers)
    BY <1>2, ChessBusyFinite DEF ChessCounted
  <2>2. queue \in Seq(Chess!Jobs) /\ added \in [Chess!Jobs -> 0 .. 1] /\ seeded \in 0 .. MaxJobs
    BY DEF Chess!Init
  <2>3. QED
    BY <2>1, <2>2 DEF Chess!Init, Chess!TypeOK
<1>4. ChessBeforeStart /\ ChessInOrder /\ ChessPlaces /\ ChessOver /\ Chess!SleepersWoken
  BY <1>1 DEF Chess!Init, ChessBeforeStart, ChessInOrder, ChessTaken, ChessPlaces, ChessOver,
     Chess!SleepersWoken, Chess!Jobs
<1>5. QED
  BY <1>2, <1>3, <1>4 DEF ChessIInv

----------------------------------------------------------------------------
(* The jobs of chess.cpp: the steps of main. *)

LEMMA ChessSeedIInv == ChessIInv /\ Chess!SeedTasks => ChessIInv'
<1> SUFFICES ASSUME ChessIInv, Chess!SeedTasks PROVE ChessIInv'
  OBVIOUS
<1>1. PICK n \in 0 .. MaxJobs : seeded' = n /\ queue' = [k \in 1 .. n |-> k]
  BY DEF Chess!SeedTasks
<1>2. /\ mpc = "seed" /\ mpc' = "start" /\ ~start_flag /\ ~all_work_done
      /\ \A w \in Workers : wpc[w] = "start"
      /\ \A t \in Chess!Jobs : added[t] = 0
      /\ UNCHANGED <<start_flag, all_work_done, active_workers, added, wpc, job>>
  BY DEF ChessIInv, ChessBeforeStart, Chess!SeedTasks, Chess!MainAt
<1>3. /\ queue' \in Seq(Chess!Jobs) /\ Len(queue') = n /\ \A k \in 1 .. n : queue'[k] = k
  BY <1>1 DEF Chess!Jobs
<1>4. ChessBusy' = ChessBusy
  BY <1>2 DEF ChessBusy
<1>5. ChessCounted'
  BY <1>2, <1>4 DEF ChessIInv, ChessCounted
<1>6. Chess!TypeOK'
  BY <1>1, <1>2, <1>3 DEF ChessIInv, Chess!TypeOK
<1>7. ChessBeforeStart' /\ ChessInOrder' /\ ChessPlaces' /\ ChessOver' /\ Chess!SleepersWoken'
  BY <1>1, <1>2, <1>3 DEF ChessBeforeStart, ChessInOrder, ChessTaken, ChessPlaces, ChessOver,
     Chess!SleepersWoken
<1>8. QED
  BY <1>5, <1>6, <1>7 DEF ChessIInv

LEMMA ChessSetStartIInv == ChessIInv /\ Chess!SetStart => ChessIInv'
<1> SUFFICES ASSUME ChessIInv, Chess!SetStart PROVE ChessIInv'
  OBVIOUS
<1>1. /\ mpc = "start" /\ mpc' = "test" /\ start_flag' = TRUE
      /\ UNCHANGED <<all_work_done, active_workers, queue, added, seeded, wpc, job>>
  BY DEF Chess!SetStart, Chess!MainAt
<1>2. QED
  BY <1>1 DEF ChessIInv, Chess!TypeOK, ChessCounted, ChessBusy, ChessBeforeStart,
     ChessInOrder, ChessTaken, ChessPlaces, ChessOver, Chess!SleepersWoken

\* A step that only moves main after the start.
LEMMA ChessMainMovesIInv ==
  ASSUME ChessIInv, mpc \notin {"seed", "start"},
         mpc' \in {"test", "commit", "sleep", "join", "written"},
         UNCHANGED <<start_flag, all_work_done, active_workers, queue, added, seeded, wpc, job>>
  PROVE  ChessIInv'
BY DEF ChessIInv, Chess!TypeOK, ChessCounted, ChessBusy, ChessBeforeStart, ChessInOrder,
   ChessTaken, ChessPlaces, ChessOver, Chess!SleepersWoken

LEMMA ChessMainIInv == ChessIInv /\ Chess!Main => ChessIInv'
<1> SUFFICES ASSUME ChessIInv, Chess!Main PROVE ChessIInv'
  OBVIOUS
<1>1. CASE Chess!TestDone \/ Chess!SleepForDone \/ Chess!Join
  BY <1>1, ChessMainMovesIInv DEF Chess!TestDone, Chess!SleepForDone, Chess!Join, Chess!MainAt
<1>2. QED
  BY <1>1, ChessSeedIInv, ChessSetStartIInv DEF Chess!Main

----------------------------------------------------------------------------
(* The jobs of chess.cpp: the steps of a thread. *)

\* What a step of a thread shares: the start is over.
LEMMA ChessStarted ==
  ASSUME ChessIInv, NEW w \in Workers, wpc[w] # "start"
  PROVE  start_flag /\ mpc \notin {"seed", "start"}
BY DEF ChessIInv, ChessBeforeStart

\* A thread that moves between steps at which it has no job.
LEMMA ChessIdleMovesIInv ==
  ASSUME ChessIInv, NEW w \in Workers, NEW to \in {"pop", "woken", "exited", "sleep"},
         wpc[w] \notin {"search", "retire", "broadcast"},
         wpc' = [wpc EXCEPT ![w] = to],
         to = "sleep" => \E v \in Workers : wpc[v] \in {"search", "retire", "broadcast"},
         start_flag, mpc \notin {"seed", "start"},
         mpc' \in {mpc, "test"},
         all_work_done' \in BOOLEAN,
         all_work_done' => all_work_done \/ (queue = <<>> /\ ChessBusy = {}),
         UNCHANGED <<start_flag, active_workers, queue, added, seeded, job>>
  PROVE  ChessIInv'
<1>1. wpc \in [Workers -> {"start", "pop", "woken", "sleep", "search", "retire",
                          "broadcast", "exited"}]
  BY DEF ChessIInv, Chess!TypeOK
<1>2. \A v \in Workers : wpc'[v] = IF v = w THEN to ELSE wpc[v]
  BY <1>1
<1>3. \A v \in Workers : wpc[v] \in {"search", "retire", "broadcast"} => wpc'[v] = wpc[v]
  BY <1>2
<1>4. ChessBusy' = ChessBusy /\ \A v \in Workers : wpc'[v] = "search" <=> wpc[v] = "search"
  BY <1>2 DEF ChessBusy
<1>5. Chess!TypeOK'
  BY <1>1 DEF ChessIInv, Chess!TypeOK
<1>6. ChessCounted' /\ ChessBeforeStart' /\ ChessInOrder' /\ ChessOver'
  BY <1>4 DEF ChessIInv, ChessCounted, ChessBeforeStart, ChessInOrder, ChessTaken, ChessOver
<1>7. ChessPlaces'
  BY <1>4 DEF ChessIInv, ChessPlaces, ChessTaken
<1>8. Chess!SleepersWoken'
  <2> SUFFICES ASSUME NEW u \in Workers, wpc'[u] = "sleep"
               PROVE  \E v \in Workers : wpc'[v] \in {"search", "retire", "broadcast"}
    BY DEF Chess!SleepersWoken
  <2>1. \E v \in Workers : wpc[v] \in {"search", "retire", "broadcast"}
    BY <1>2 DEF ChessIInv, Chess!SleepersWoken
  <2>2. QED
    BY <1>3, <2>1
<1>9. QED
  BY <1>5, <1>6, <1>7, <1>8 DEF ChessIInv

LEMMA ChessWaitStartIInv ==
  ASSUME ChessIInv, NEW w \in Workers, Chess!WaitStart(w)
  PROVE  ChessIInv'
<1>1. mpc \notin {"seed", "start"}
  BY DEF ChessIInv, ChessBeforeStart, Chess!WaitStart
<1>2. all_work_done \in BOOLEAN
  BY DEF ChessIInv, Chess!TypeOK
<1>3. QED
  BY <1>1, <1>2, ChessIdleMovesIInv DEF Chess!WaitStart, Chess!At

LEMMA ChessFindDoneIInv ==
  ASSUME ChessIInv, NEW w \in Workers, Chess!FindDone(w)
  PROVE  ChessIInv'
<1>1. wpc[w] \in {"pop", "woken"} /\ wpc' = [wpc EXCEPT ![w] = "exited"]
  BY DEF Chess!FindDone, Chess!At
<1>2. start_flag /\ mpc \notin {"seed", "start"}
  BY <1>1, ChessStarted
<1>3. all_work_done \/ (queue = <<>> /\ ChessBusy = {})
  BY ChessBusyFinite DEF Chess!FindDone, ChessIInv, ChessCounted
<1>4. mpc' \in {mpc, "test"}
  BY DEF Chess!FindDone, Chess!SignalMain
<1>5. QED
  BY <1>1, <1>2, <1>3, <1>4, ChessIdleMovesIInv DEF Chess!FindDone

LEMMA ChessSleepIInv ==
  ASSUME ChessIInv, NEW w \in Workers, Chess!SleepOnQueue(w)
  PROVE  ChessIInv'
<1>1. wpc[w] \in {"pop", "woken"} /\ wpc' = [wpc EXCEPT ![w] = "sleep"]
  BY DEF Chess!SleepOnQueue, Chess!At
<1>2. start_flag /\ mpc \notin {"seed", "start"}
  BY <1>1, ChessStarted
<1>3. ChessBusy # {}
  BY ChessBusyFinite DEF Chess!SleepOnQueue, ChessIInv, ChessCounted
<1>4. \E v \in Workers : wpc[v] \in {"search", "retire", "broadcast"}
  BY <1>3 DEF ChessBusy
<1>5. all_work_done \in BOOLEAN
  BY DEF ChessIInv, Chess!TypeOK
<1>6. QED
  BY <1>1, <1>2, <1>4, <1>5, ChessIdleMovesIInv DEF Chess!SleepOnQueue

LEMMA ChessLeaveIInv ==
  ASSUME ChessIInv, NEW w \in Workers, Chess!LeaveWoken(w)
  PROVE  ChessIInv'
<1>1. wpc[w] \in {"woken"} /\ wpc' = [wpc EXCEPT ![w] = "exited"]
  BY DEF Chess!LeaveWoken, Chess!At
<1>2. start_flag /\ mpc \notin {"seed", "start"}
  BY <1>1, ChessStarted
<1>3. all_work_done \in BOOLEAN
  BY DEF ChessIInv, Chess!TypeOK
<1>4. QED
  BY <1>1, <1>2, <1>3, ChessIdleMovesIInv DEF Chess!LeaveWoken

LEMMA ChessSpuriousIInv == ChessIInv /\ Chess!SpuriousWakeup => ChessIInv'
<1> SUFFICES ASSUME ChessIInv, Chess!SpuriousWakeup PROVE ChessIInv'
  OBVIOUS
<1>1. CASE Chess!MainAt("sleep", "test") /\ UNCHANGED wpc
  BY <1>1, ChessMainMovesIInv DEF Chess!SpuriousWakeup, Chess!MainAt
<1>2. ASSUME NEW w \in Workers, Chess!At(w, {"sleep"}, "woken"), UNCHANGED mpc
      PROVE  ChessIInv'
  <2>1. wpc[w] = "sleep" /\ wpc' = [wpc EXCEPT ![w] = "woken"]
    BY <1>2 DEF Chess!At
  <2>2. start_flag /\ mpc \notin {"seed", "start"}
    BY <2>1, ChessStarted
  <2>3. all_work_done \in BOOLEAN
    BY DEF ChessIInv, Chess!TypeOK
  <2>4. QED
    BY <1>2, <2>1, <2>2, <2>3, ChessIdleMovesIInv DEF Chess!SpuriousWakeup
<1>3. QED
  BY <1>1, <1>2 DEF Chess!SpuriousWakeup

LEMMA ChessTakeIInv ==
  ASSUME ChessIInv, NEW w \in Workers, Chess!TakeJob(w)
  PROVE  ChessIInv'
<1>1. /\ queue # <<>> /\ wpc[w] \in {"pop", "woken"}
      /\ wpc' = [wpc EXCEPT ![w] = "search"]
      /\ job' = [job EXCEPT ![w] = Head(queue)]
      /\ queue' = Tail(queue)
      /\ active_workers' = active_workers + 1
      /\ UNCHANGED <<start_flag, all_work_done, added, seeded, mpc>>
  BY DEF Chess!TakeJob, Chess!At
<1>2. /\ start_flag /\ mpc \notin {"seed", "start"}
  BY <1>1, ChessStarted
<1>3. ~all_work_done
  BY <1>1 DEF ChessIInv, ChessOver
<1>4. \A v \in Workers : wpc'[v] = IF v = w THEN "search" ELSE wpc[v]
  BY <1>1 DEF ChessIInv, Chess!TypeOK
<1>5. /\ Len(queue) \in Nat \ {0} /\ Len(queue') = Len(queue) - 1
      /\ queue' \in Seq(Chess!Jobs) /\ Head(queue) \in Chess!Jobs /\ Head(queue) = queue[1]
      /\ \A k \in 1 .. Len(queue') : queue'[k] = queue[k + 1]
  BY <1>1 DEF ChessIInv, Chess!TypeOK
<1>6. /\ seeded \in Nat /\ ChessTaken \in Nat /\ ChessTaken' = ChessTaken + 1
  BY <1>1, <1>5 DEF ChessIInv, Chess!TypeOK, ChessInOrder, ChessTaken
<1>7. /\ Head(queue) = ChessTaken' /\ ChessTaken' \in Chess!Jobs
      /\ \A v \in Workers : job'[v] = IF v = w THEN ChessTaken' ELSE job[v]
  BY <1>1, <1>5, <1>6 DEF ChessIInv, Chess!TypeOK, ChessInOrder
<1>8. ChessCounted'
  <2>1. ChessBusy' = ChessBusy \cup {w} /\ w \notin ChessBusy
    BY <1>1, <1>4 DEF ChessBusy
  <2>2. QED
    BY <1>1, <2>1, ChessBusyFinite, FS_AddElement DEF ChessIInv, ChessCounted
<1>9. Chess!TypeOK'
  <2>1. active_workers' \in 0 .. Cardinality(Workers)
    BY <1>8, ChessBusyFiniteNext DEF ChessCounted
  <2>2. wpc' \in [Workers -> {"start", "pop", "woken", "sleep", "search", "retire",
                              "broadcast", "exited"}]
    BY <1>1 DEF ChessIInv, Chess!TypeOK
  <2>3. job' \in [Workers -> Chess!Jobs \cup {0}]
    BY <1>1, <1>5 DEF ChessIInv, Chess!TypeOK
  <2>4. QED
    BY <1>1, <1>5, <2>1, <2>2, <2>3 DEF ChessIInv, Chess!TypeOK
<1>10. ChessInOrder'
  BY <1>5, <1>6 DEF ChessIInv, ChessInOrder
<1>11. ChessPlaces'
  <2>1. ASSUME NEW v \in Workers, wpc'[v] = "search"
        PROVE  job'[v] \in 1 .. ChessTaken' /\ added'[job'[v]] = 0
    BY <1>1, <1>4, <1>6, <1>7, <2>1 DEF ChessIInv, ChessPlaces
  <2>2. ASSUME NEW u \in Workers, NEW v \in Workers,
               wpc'[u] = "search", wpc'[v] = "search", job'[u] = job'[v]
        PROVE  u = v
    BY <1>4, <1>6, <1>7, <2>2 DEF ChessIInv, ChessPlaces
  <2>3. ASSUME NEW t \in 1 .. ChessTaken'
        PROVE  added'[t] = 1 \/ \E v \in Workers : wpc'[v] = "search" /\ job'[v] = t
    <3>1. CASE t = ChessTaken'
      BY <1>4, <1>7, <3>1
    <3>2. CASE t # ChessTaken'
      <4>1. t \in 1 .. ChessTaken
        BY <1>6, <3>2
      <4>2. added[t] = 1 \/ \E v \in Workers : wpc[v] = "search" /\ job[v] = t
        BY <4>1 DEF ChessIInv, ChessPlaces
      <4>3. QED
        BY <1>1, <1>4, <1>7, <4>2
    <3>3. QED
      BY <3>1, <3>2
  <2>4. \A t \in Chess!Jobs : t > ChessTaken' => added'[t] = 0
    BY <1>1, <1>6 DEF ChessIInv, ChessPlaces, Chess!Jobs
  <2>5. QED
    BY <2>1, <2>2, <2>3, <2>4 DEF ChessPlaces
<1>12. ChessBeforeStart' /\ ChessOver' /\ Chess!SleepersWoken'
  BY <1>1, <1>2, <1>3, <1>4 DEF ChessBeforeStart, ChessOver, Chess!SleepersWoken
<1>13. QED
  BY <1>8, <1>9, <1>10, <1>11, <1>12 DEF ChessIInv

LEMMA ChessSearchIInv ==
  ASSUME ChessIInv, NEW w \in Workers, Chess!Search(w)
  PROVE  ChessIInv'
<1>1. /\ wpc[w] = "search" /\ wpc' = [wpc EXCEPT ![w] = "retire"]
      /\ added' = [added EXCEPT ![job[w]] = @ + 1]
      /\ job' = [job EXCEPT ![w] = 0]
      /\ UNCHANGED <<start_flag, all_work_done, active_workers, queue, seeded, mpc>>
  BY DEF Chess!Search, Chess!At
<1>2. /\ start_flag /\ mpc \notin {"seed", "start"}
  BY <1>1, ChessStarted
<1>3. \A v \in Workers : /\ wpc'[v] = IF v = w THEN "retire" ELSE wpc[v]
                         /\ job'[v] = IF v = w THEN 0 ELSE job[v]
  BY <1>1 DEF ChessIInv, Chess!TypeOK
<1>4. /\ job[w] \in 1 .. ChessTaken /\ job[w] \in Chess!Jobs /\ added[job[w]] = 0
      /\ ChessTaken' = ChessTaken /\ ChessTaken \in Nat /\ ChessTaken <= MaxJobs
  BY <1>1 DEF ChessIInv, Chess!TypeOK, ChessPlaces, ChessInOrder, ChessTaken, Chess!Jobs
<1>5. \A t \in Chess!Jobs : added'[t] = IF t = job[w] THEN 1 ELSE added[t]
  BY <1>1, <1>4 DEF ChessIInv, Chess!TypeOK
<1>6. ChessBusy' = ChessBusy
  BY <1>1, <1>3 DEF ChessBusy
<1>7. Chess!TypeOK'
  <2>1. added' \in [Chess!Jobs -> 0 .. 1]
    BY <1>1, <1>4, <1>5 DEF ChessIInv, Chess!TypeOK
  <2>2. job' \in [Workers -> Chess!Jobs \cup {0}]
    BY <1>1 DEF ChessIInv, Chess!TypeOK
  <2>3. QED
    BY <1>1, <2>1, <2>2 DEF ChessIInv, Chess!TypeOK
<1>8. ChessCounted' /\ ChessBeforeStart' /\ ChessInOrder' /\ ChessOver'
  BY <1>1, <1>2, <1>4, <1>6 DEF ChessIInv, ChessCounted, ChessBeforeStart, ChessInOrder,
     ChessOver
<1>9. ChessPlaces'
  <2>1. ASSUME NEW v \in Workers, wpc'[v] = "search"
        PROVE  job'[v] \in 1 .. ChessTaken' /\ added'[job'[v]] = 0
    <3>1. v # w /\ wpc[v] = "search" /\ job'[v] = job[v] /\ job[v] \in 1 .. ChessTaken
          /\ added[job[v]] = 0
      BY <1>3, <2>1 DEF ChessIInv, ChessPlaces
    <3>2. job[v] # job[w] /\ job[v] \in Chess!Jobs
      BY <1>1, <1>4, <3>1 DEF ChessIInv, ChessPlaces, Chess!Jobs
    <3>3. QED
      BY <1>4, <1>5, <3>1, <3>2
  <2>2. ASSUME NEW u \in Workers, NEW v \in Workers,
               wpc'[u] = "search", wpc'[v] = "search", job'[u] = job'[v]
        PROVE  u = v
    BY <1>3, <2>2 DEF ChessIInv, ChessPlaces
  <2>3. ASSUME NEW t \in 1 .. ChessTaken'
        PROVE  added'[t] = 1 \/ \E v \in Workers : wpc'[v] = "search" /\ job'[v] = t
    <3>1. t \in Chess!Jobs /\ t \in 1 .. ChessTaken
      BY <1>4 DEF Chess!Jobs
    <3>2. CASE t = job[w]
      BY <1>5, <3>1, <3>2
    <3>3. CASE t # job[w]
      <4>1. added[t] = 1 \/ \E v \in Workers : wpc[v] = "search" /\ job[v] = t
        BY <3>1 DEF ChessIInv, ChessPlaces
      <4>2. QED
        BY <1>3, <1>5, <3>1, <3>3, <4>1
    <3>4. QED
      BY <3>2, <3>3
  <2>4. \A t \in Chess!Jobs : t > ChessTaken' => added'[t] = 0
    BY <1>4, <1>5 DEF ChessIInv, ChessPlaces, Chess!Jobs
  <2>5. QED
    BY <2>1, <2>2, <2>3, <2>4 DEF ChessPlaces
<1>10. Chess!SleepersWoken'
  BY <1>3 DEF Chess!SleepersWoken
<1>11. QED
  BY <1>7, <1>8, <1>9, <1>10 DEF ChessIInv

LEMMA ChessRetireIInv ==
  ASSUME ChessIInv, NEW w \in Workers, Chess!Retire(w)
  PROVE  ChessIInv'
<1>1. /\ wpc[w] = "retire" /\ wpc' = [wpc EXCEPT ![w] = "broadcast"]
      /\ active_workers' = active_workers - 1
      /\ UNCHANGED <<start_flag, queue, added, seeded, job>>
  BY DEF Chess!Retire, Chess!At
<1>2. /\ start_flag /\ mpc \notin {"seed", "start"} /\ mpc' \in {mpc, "test"}
  BY <1>1, ChessStarted DEF Chess!Retire, Chess!SignalMain
<1>3. \A v \in Workers : wpc'[v] = IF v = w THEN "broadcast" ELSE wpc[v]
  BY <1>1 DEF ChessIInv, Chess!TypeOK
<1>4. w \in ChessBusy /\ ChessBusy' = ChessBusy \ {w}
  BY <1>1, <1>3 DEF ChessBusy
<1>5. ~all_work_done
  BY <1>4 DEF ChessIInv, ChessOver
<1>6. ChessCounted'
  BY <1>1, <1>4, ChessBusyFinite, FS_RemoveElement DEF ChessIInv, ChessCounted
<1>7. all_work_done' \in BOOLEAN /\ (all_work_done' => queue = <<>> /\ active_workers' = 0)
  <2>1. CASE queue = <<>> /\ active_workers = 1
    <3>1. all_work_done' = TRUE
      BY <2>1 DEF Chess!Retire
    <3>2. active_workers' = 0
      BY <1>1, <2>1
    <3>3. QED
      BY <2>1, <3>1, <3>2
  <2>2. CASE ~(queue = <<>> /\ active_workers = 1)
    <3>1. all_work_done' = all_work_done
      BY <2>2 DEF Chess!Retire
    <3>2. all_work_done \in BOOLEAN
      BY DEF ChessIInv, Chess!TypeOK
    <3>3. QED
      BY <1>5, <3>1, <3>2
  <2>3. QED
    BY <2>1, <2>2
<1>8. ChessOver'
  <2>1. Cardinality(ChessBusy') = 0 => ChessBusy' = {}
    BY ChessBusyFiniteNext, FS_EmptySet
  <2>2. QED
    BY <1>1, <1>6, <1>7, <2>1 DEF ChessOver, ChessCounted
<1>9. Chess!TypeOK'
  <2>1. active_workers' \in 0 .. Cardinality(Workers)
    BY <1>6, ChessBusyFiniteNext DEF ChessCounted
  <2>2. wpc' \in [Workers -> {"start", "pop", "woken", "sleep", "search", "retire",
                              "broadcast", "exited"}]
    BY <1>1 DEF ChessIInv, Chess!TypeOK
  <2>3. QED
    BY <1>1, <1>2, <1>7, <2>1, <2>2 DEF ChessIInv, Chess!TypeOK
<1>10. ChessBeforeStart' /\ ChessInOrder'
  BY <1>1, <1>2 DEF ChessIInv, ChessBeforeStart, ChessInOrder, ChessTaken
<1>11. ChessPlaces'
  <2>1. \A v \in Workers : wpc'[v] = "search" <=> wpc[v] = "search"
    BY <1>1, <1>3
  <2>2. QED
    BY <1>1, <2>1 DEF ChessIInv, ChessPlaces, ChessTaken
<1>12. Chess!SleepersWoken'
  BY <1>3 DEF Chess!SleepersWoken
<1>13. QED
  BY <1>6, <1>8, <1>9, <1>10, <1>11, <1>12 DEF ChessIInv

LEMMA ChessBroadcastIInv ==
  ASSUME ChessIInv, NEW w \in Workers, Chess!Broadcast(w)
  PROVE  ChessIInv'
<1>1. /\ wpc[w] = "broadcast"
      /\ UNCHANGED <<start_flag, all_work_done, active_workers, queue, added, seeded, job, mpc>>
  BY DEF Chess!Broadcast
<1>2. /\ start_flag /\ mpc \notin {"seed", "start"}
  BY <1>1, ChessStarted
<1>3. \A v \in Workers :
        wpc'[v] = IF v = w THEN "pop" ELSE IF wpc[v] = "sleep" THEN "woken" ELSE wpc[v]
  BY DEF Chess!Broadcast
<1>4. ChessBusy' = ChessBusy /\ \A v \in Workers : wpc'[v] = "search" <=> wpc[v] = "search"
  BY <1>1, <1>3 DEF ChessBusy
<1>5. Chess!TypeOK'
  <2>1. wpc' \in [Workers -> {"start", "pop", "woken", "sleep", "search", "retire",
                              "broadcast", "exited"}]
    BY DEF Chess!Broadcast, ChessIInv, Chess!TypeOK
  <2>2. QED
    BY <1>1, <2>1 DEF ChessIInv, Chess!TypeOK
<1>6. ChessCounted' /\ ChessBeforeStart' /\ ChessInOrder' /\ ChessOver'
  BY <1>1, <1>2, <1>4 DEF ChessIInv, ChessCounted, ChessBeforeStart, ChessInOrder, ChessTaken,
     ChessOver
<1>7. ChessPlaces'
  BY <1>1, <1>4 DEF ChessIInv, ChessPlaces, ChessTaken
<1>8. Chess!SleepersWoken'
  BY <1>3 DEF Chess!SleepersWoken
<1>9. QED
  BY <1>5, <1>6, <1>7, <1>8 DEF ChessIInv

LEMMA ChessWorkerIInv ==
  ASSUME ChessIInv, NEW w \in Workers, Chess!Worker(w)
  PROVE  ChessIInv'
BY ChessWaitStartIInv, ChessTakeIInv, ChessFindDoneIInv, ChessSleepIInv, ChessLeaveIInv,
   ChessSearchIInv, ChessRetireIInv, ChessBroadcastIInv DEF Chess!Worker

LEMMA ChessNextIInv == ChessIInv /\ [Chess!Next]_(Chess!vars) => ChessIInv'
<1>1. ASSUME ChessIInv, UNCHANGED Chess!vars PROVE ChessIInv'
  BY <1>1 DEF Chess!vars, ChessIInv, Chess!TypeOK, ChessCounted, ChessBusy, ChessBeforeStart,
     ChessInOrder, ChessTaken, ChessPlaces, ChessOver, Chess!SleepersWoken
<1>2. QED
  BY <1>1, ChessMainIInv, ChessSpuriousIInv, ChessWorkerIInv DEF Chess!Next

LEMMA ChessNothingLeft == ChessIInv => Chess!DoneMeansAll
<1> SUFFICES ASSUME ChessIInv, all_work_done PROVE Chess!DoneMeansAll
  BY DEF Chess!DoneMeansAll
<1>1. queue = <<>> /\ ChessBusy = {}
  BY DEF ChessIInv, ChessOver
<1>2. active_workers = 0
  BY <1>1, ChessBusyFinite DEF ChessIInv, ChessCounted
<1>3. \A w \in Workers : wpc[w] \notin {"search", "retire"}
  BY <1>1 DEF ChessBusy
<1>4. ChessTaken = seeded
  BY <1>1 DEF ChessTaken, ChessIInv, Chess!TypeOK
<1>5. \A t \in 1 .. seeded : added[t] = 1
  BY <1>3, <1>4 DEF ChessIInv, ChessPlaces
<1>6. QED
  BY <1>1, <1>2, <1>3, <1>5 DEF Chess!DoneMeansAll

LEMMA ChessInv ==
  /\ Chess!Init => ChessIInv
  /\ ChessIInv /\ [Chess!Next]_(Chess!vars) => ChessIInv'
  /\ ChessIInv => Chess!DoneMeansAll /\ Chess!SleepersWoken /\ Chess!TypeOK
BY ChessInitIInv, ChessNextIInv, ChessNothingLeft DEF ChessIInv

----------------------------------------------------------------------------
(* The composition: the program that runs takes its own steps. *)

IInv ==
  /\ program = "qsort" => PoolInv
  /\ program = "partition" => PartIInv /\ Partition!Permuted
  /\ program = "msort" => MP!TypesInv
  /\ program = "expr" => ExprTableInv
  /\ program = "chess" => ChessIInv
  /\ program = "phil" => PhilBoundInv

LEMMA InitIInv == Init => IInv
<1> SUFFICES ASSUME Init PROVE IInv
  OBVIOUS
<1>1. /\ program = "qsort" => QSort!Init
      /\ program = "partition" => Partition!Init
      /\ program = "msort" => MSort!Init
      /\ program = "expr" => Expr!Init
      /\ program = "chess" => Chess!Init
      /\ program = "phil" => Phil!Init
  BY DEF Init
<1>2. QED
  BY <1>1, QSortInv, PartInitIInv, PartInitPermuted, MSortInv, ExprInitTable, ChessInv,
     PhilInitBound DEF IInv

LEMMA RunsQSort ==
  ASSUME [Next]_vars, program = "qsort"
  PROVE  program' = program /\ [QSort!Next]_(QSort!vars)
<1>1. CASE UNCHANGED vars
  BY <1>1 DEF vars, threadVars, sortVars, qsortVars, arrayVars, msortVars, partitionVars,
         exprVars, chessVars, philVars,
              QSort!vars, QSort!queueVars, QSort!workerVars, QSort!mainVars
<1>2. CASE Next
  BY <1>2 DEF Next, Runs
<1>3. QED
  BY <1>1, <1>2

LEMMA RunsPartition ==
  ASSUME [Next]_vars, program = "partition"
  PROVE  program' = program /\ [Partition!Next]_(Partition!vars)
<1>1. CASE UNCHANGED vars
  BY <1>1 DEF vars, threadVars, sortVars, qsortVars, arrayVars, msortVars, partitionVars,
         exprVars, chessVars, philVars,
              Partition!vars
<1>2. CASE Next
  BY <1>2 DEF Next, Runs
<1>3. QED
  BY <1>1, <1>2

LEMMA RunsMSort ==
  ASSUME [Next]_vars, program = "msort"
  PROVE  program' = program /\ [MSort!Next]_(MSort!vars)
<1>1. CASE UNCHANGED vars
  BY <1>1 DEF vars, threadVars, sortVars, qsortVars, arrayVars, msortVars, partitionVars,
         exprVars, chessVars, philVars,
              MSort!vars, MSort!queueVars, MSort!workerVars, MSort!mainVars
<1>2. CASE Next
  BY <1>2 DEF Next, Runs
<1>3. QED
  BY <1>1, <1>2

LEMMA RunsExpr ==
  ASSUME [Next]_vars, program = "expr"
  PROVE  program' = program /\ [Expr!Next]_(Expr!vars)
<1>1. CASE UNCHANGED vars
  BY <1>1 DEF vars, threadVars, sortVars, qsortVars, arrayVars, msortVars, partitionVars,
         exprVars, chessVars, philVars,
              Expr!vars, Expr!workerVars, Expr!mainVars
<1>2. CASE Next
  BY <1>2 DEF Next, Runs
<1>3. QED
  BY <1>1, <1>2

LEMMA RunsChess ==
  ASSUME [Next]_vars, program = "chess"
  PROVE  program' = program /\ [Chess!Next]_(Chess!vars)
<1>1. CASE UNCHANGED vars
  BY <1>1 DEF vars, threadVars, sortVars, qsortVars, arrayVars, msortVars, partitionVars,
         exprVars, chessVars, philVars,
              Chess!vars
<1>2. CASE Next
  BY <1>2 DEF Next, Runs
<1>3. QED
  BY <1>1, <1>2

LEMMA RunsPhil ==
  ASSUME [Next]_vars, program = "phil"
  PROVE  program' = program /\ [Phil!Next]_(Phil!vars)
<1>1. CASE UNCHANGED vars
  BY <1>1 DEF vars, threadVars, sortVars, qsortVars, arrayVars, msortVars, partitionVars,
         exprVars, chessVars, philVars,
              Phil!vars, Phil!eventVars
<1>2. CASE Next
  BY <1>2 DEF Next, Runs
<1>3. QED
  BY <1>1, <1>2

LEMMA NextIInv == IInv /\ [Next]_vars => IInv'
<1> SUFFICES ASSUME IInv, [Next]_vars PROVE IInv'
  OBVIOUS
<1>0. program' = program
  BY DEF Next, Runs, vars
<1>1. program = "qsort" => PoolInv'
  BY RunsQSort, QSortInv DEF IInv
<1>2. program = "partition" => PartIInv' /\ Partition!Permuted'
  BY RunsPartition, PartNextIInv, PartNextPermuted DEF IInv
<1>3. program = "msort" => MP!TypesInv'
  BY RunsMSort, MSortInv DEF IInv
<1>4. program = "expr" => ExprTableInv'
  BY RunsExpr, ExprNextTable DEF IInv
<1>5. program = "chess" => ChessIInv'
  BY RunsChess, ChessInv DEF IInv
<1>6. program = "phil" => PhilBoundInv'
  BY RunsPhil, PhilNextBound DEF IInv
<1>7. QED
  BY <1>0, <1>1, <1>2, <1>3, <1>4, <1>5, <1>6 DEF IInv

LEMMA AlwaysIInv == Spec => []IInv
BY InitIInv, NextIInv, PTL DEF Spec

----------------------------------------------------------------------------
(* What the programs promise, as the runs check it. *)

\* qsort.cpp: tasks_active is the number of segments that wait, are about to be
\* dispatched or are worked on, whatever the threads do in between (worker_fn, main).
THEOREM CountIsExact == Spec => []Accounted
<1>1. IInv => Accounted
  BY QSortInv DEF IInv, Accounted
<1>2. QED
  BY <1>1, AlwaysIInv, PTL

\* qsort.cpp: whoever finds tasks_active at 0 wakes main when every element is in
\* its place and no thread works any more (worker_fn).
THEOREM WokenWhenSorted == Spec => []DoneMeansSorted
<1>1. IInv => DoneMeansSorted
  BY QSortInv DEF IInv, DoneMeansSorted
<1>2. QED
  BY <1>1, AlwaysIInv, PTL

\* qsort.cpp: no two threads and no waiting segments share an element, which is why
\* the array needs no lock (worker_fn, dispatch_task).
THEOREM NoSharing == Spec => []Disjoint
<1>1. IInv => Disjoint
  BY QSortInv DEF IInv, Disjoint
<1>2. QED
  BY <1>1, AlwaysIInv, PTL

\* qsort.cpp: the semaphore never lets a thread take from an empty ring (push_task,
\* pop_task).
THEOREM RingNotEmpty == Spec => []SemaphoreCounts
<1>1. IInv => SemaphoreCounts
  BY QSortInv DEF IInv, SemaphoreCounts
<1>2. QED
  BY <1>1, AlwaysIInv, PTL

\* qsort.cpp: the scans of the partition need no bounds test of their own: neither
\* reads outside of the segment, whatever the elements are (worker_fn).
THEOREM ScansInBounds == Spec => []InBounds
<1>1. IInv => InBounds
  BY PartIInvInBounds DEF IInv, InBounds
<1>2. QED
  BY <1>1, AlwaysIInv, PTL

\* qsort.cpp: the partition ends with two proper parts, separated by the pivot, and
\* at most one element between them (worker_fn).
THEOREM PartsSeparated == Spec => []Partitioned
<1>1. IInv => Partitioned
  BY PartResults DEF IInv, Partitioned
<1>2. QED
  BY <1>1, AlwaysIInv, PTL

\* qsort.cpp: the partition only moves elements around (worker_fn).
THEOREM NothingLost == Spec => []Permuted
<1>1. IInv => Permuted
  BY DEF IInv, Permuted
<1>2. QED
  BY <1>1, AlwaysIInv, PTL

\* msort.cpp: tasks_active counts every half that is not finished, and those sorted
\* inline for good: main never stops waiting too early (worker_fn, dispatch_task).
THEOREM HalvesExact == Spec => []HalvesCounted
<1>1. IInv => HalvesCounted
  BY MSortInv DEF IInv, HalvesCounted
<1>2. QED
  BY <1>1, AlwaysIInv, PTL

\* msort.cpp: when main has stopped waiting no thread has a segment and only stop
\* segments are left, so that nothing writes to the array main prints (main).
THEOREM QuietWhenStopped == Spec => []QuietAtEnd
<1>1. IInv => QuietAtEnd
  BY MSortInv DEF IInv, QuietAtEnd
<1>2. QED
  BY <1>1, AlwaysIInv, PTL

\* expr.cpp: main leaves an epoch only when every thread has been in it and none
\* still is, unless a thread took the epoch 0 that nobody announced (worker_fn).
THEOREM BarrierHolds == Spec => []Barrier
<1>1. IInv => Barrier
  BY ExprTableResults DEF IInv, Barrier
<1>2. QED
  BY <1>1, AlwaysIInv, PTL

\* expr.cpp: every column main has left holds the numbers of ways the recurrence
\* defines modulo the word of a cell, whatever the word is, whichever threads computed
\* its rows, unless a thread took the epoch 0 that nobody announced (worker_fn, main).
THEOREM ColumnsComputed == Spec => []ColumnsRight
<1>1. IInv => ColumnsRight
  BY ExprTableResults DEF IInv, ColumnsRight
<1>2. QED
  BY <1>1, AlwaysIInv, PTL

\* chess.cpp: whichever thread sets all_work_done, every job main put into the queue
\* has been counted, once (worker).
THEOREM NothingMissing == Spec => []DoneMeansAll
<1>1. IInv => DoneMeansAll
  BY ChessInv DEF IInv, DoneMeansAll
<1>2. QED
  BY <1>1, AlwaysIInv, PTL

\* chess.cpp: no thread sleeps on q_cv with nobody left to wake it (worker).
THEOREM NobodyLeftAsleep == Spec => []SleepersWoken
<1>1. IInv => SleepersWoken
  BY ChessInv DEF IInv, SleepersWoken
<1>2. QED
  BY <1>1, AlwaysIInv, PTL

\* phil.cpp: unless a wait for a wave timed out, neighbours never eat at the same
\* time, neither in g_state nor by the log (main, waves).
THEOREM NeighboursNeverEat == Spec => []NeighboursApart
<1>1. IInv => NeighboursApart
  BY PhilApart DEF IInv, PhilBoundInv, NeighboursApart
<1>2. QED
  BY <1>1, AlwaysIInv, PTL

\* phil.cpp: every start becomes at most one meal; unless a wait timed out exactly
\* one, and between two waves nobody is ahead by more than one meal (main).
THEOREM FairMeals == Spec => []MealsInTurn
<1>1. IInv => MealsInTurn
  BY PhilInTurns DEF IInv, PhilBoundInv, MealsInTurn
<1>2. QED
  BY <1>1, AlwaysIInv, PTL

\* The variables of the program that runs keep values of their types: no ring holds
\* more than it has room for, no counter passes its bound, and what the sorts write
\* to the array has the length of the segment (all six programs).
THEOREM ValuesOfTheirTypes == Spec => []TypeOK
<1>1. PartIInv => Partition!TypeOK
  BY DEF PartIInv
<1>2. IInv => TypeOK
  BY <1>1, QSortInv, MSortInv, ChessInv, ExprTableResults, PhilTypesResult DEF IInv, TypeOK
<1>3. QED
  BY <1>2, AlwaysIInv, PTL
=============================================================================
