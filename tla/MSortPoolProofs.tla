---------------------------- MODULE MSortPoolProofs ----------------------------
(***************************************************************************)
(* The accounting of MSortPool and the types of its variables, for any     *)
(* number of threads, elements and places in the queue.                    *)
(***************************************************************************)
EXTENDS MSortPool, FiniteSetTheorems, WellFoundedInduction, TLAPS

----------------------------------------------------------------------------
(* Numbers. *)

\* The order of the numbers, as a set of pairs.
Less == {p \in Nat \X Nat : p[1] < p[2]}
LEMMA LessIsWellFounded == IsWellFoundedOn(Less, Nat)
<1>1. Less = OpToRel(<, Nat)
  BY DEF Less, OpToRel
<1>. QED
  BY <1>1, NatLessThanWellFounded

\* A set of numbers has a least one.
LEMMA LeastElement ==
  ASSUME NEW S \in SUBSET Nat, S # {}
  PROVE \E n \in S : \A m \in S : n <= m
<1>1. PICK n \in S : \A m \in S : ~ (<<m, n>> \in Less)
  BY LessIsWellFounded, WFMin
<1>2. \A m \in S : <<m, n>> \in Nat \X Nat /\ <<m, n>>[1] = m /\ <<m, n>>[2] = n
  OBVIOUS
<1>3. \A m \in S : ~ (m < n)
  BY <1>1, <1>2 DEF Less
<1>. QED
  BY <1>3

\* Induction, over a set instead of a property.
LEMMA Induction ==
  ASSUME NEW S, 0 \in S, \A n \in Nat : n \in S => n + 1 \in S
  PROVE  Nat \subseteq S
<1>. SUFFICES ASSUME NEW k \in Nat, k \notin S
              PROVE  FALSE
  OBVIOUS
<1>. DEFINE T == {n \in Nat : n \notin S}
<1>1. PICK n \in T : \A m \in T : n <= m
  BY LeastElement
<1>2. n # 0 /\ n - 1 \in Nat /\ n - 1 + 1 = n
  BY <1>1
<1>3. n - 1 \notin T
  BY <1>1, <1>2
<1>. QED
  BY <1>1, <1>2, <1>3

\* A function on 0 .. n can be defined by its first value and by every next one from
\* the one before it.
Recurs(f, n, Values, start, step) ==
  /\ f \in [0 .. n -> Values] /\ f[0] = start
  /\ \A k \in 1 .. n : f[k] = step[<<k, f[k - 1]>>]

LEMMA Recursion ==
  ASSUME NEW n \in Nat, NEW Values, NEW start \in Values, NEW step \in [(1 .. n) \X Values -> Values]
  PROVE  \E f : Recurs(f, n, Values, start, step)
<1>. DEFINE Good(f, m) == f[0] = start /\ \A k \in 1 .. m : f[k] = step[<<k, f[k - 1]>>]
            S == {m \in Nat : m <= n => \E f \in [0 .. m -> Values] : Good(f, m)}
<1>1. 0 \in S
  <2>1. [k \in 0 .. 0 |-> start] \in [0 .. 0 -> Values] /\ Good([k \in 0 .. 0 |-> start], 0)
    OBVIOUS
  <2>. QED
    BY <2>1
<1>2. ASSUME NEW m \in Nat, m \in S
      PROVE  m + 1 \in S
  <2>. SUFFICES ASSUME m + 1 <= n
                PROVE  \E f \in [0 .. m + 1 -> Values] : Good(f, m + 1)
    OBVIOUS
  <2>1. PICK f \in [0 .. m -> Values] : Good(f, m)
    BY <1>2
  <2>2. f[m] \in Values /\ <<m + 1, f[m]>> \in (1 .. n) \X Values
    OBVIOUS
  <2>3. PICK g : g = [k \in 0 .. m + 1 |-> IF k = m + 1 THEN step[<<m + 1, f[m]>>] ELSE f[k]]
    OBVIOUS
  <2>4. step[<<m + 1, f[m]>>] \in Values
    BY <2>2
  <2>5. g \in [0 .. m + 1 -> Values]
    BY <2>3, <2>4
  <2>6. g[m + 1] = step[<<m + 1, f[m]>>] /\ \A k \in 0 .. m : g[k] = f[k]
    BY <2>3
  <2>7. ASSUME NEW k \in 1 .. m + 1
        PROVE  g[k] = step[<<k, g[k - 1]>>]
    <3>1. k - 1 \in 0 .. m /\ g[k - 1] = f[k - 1]
      BY <2>6
    <3>2. CASE k = m + 1
      BY <2>6, <3>1, <3>2
    <3>3. CASE k # m + 1
      <4>1. k \in 1 .. m /\ k \in 0 .. m
        BY <3>3
      <4>. QED
        BY <2>1, <2>6, <3>1, <4>1
    <3>. QED
      BY <3>2, <3>3
  <2>8. g[0] = start
    BY <2>1, <2>6
  <2>. QED
    BY <2>5, <2>7, <2>8
<1>3. Nat \subseteq S
  <2>. HIDE DEF S
  <2>. QED
    BY <1>1, <1>2, Induction
<1>4. PICK f \in [0 .. n -> Values] : Good(f, n)
  BY <1>3
<1>. QED
  BY <1>4 DEF Recurs

\* What holds of the first value and of every next one.
LEMMA UpTo ==
  ASSUME NEW n \in Nat, NEW S, 0 \in S, \A k \in 1 .. n : k - 1 \in S => k \in S
  PROVE  0 .. n \subseteq S
<1>. DEFINE T == {k \in Nat : k <= n => k \in S}
<1>1. 0 \in T
  OBVIOUS
<1>2. ASSUME NEW k \in Nat, k \in T
      PROVE  k + 1 \in T
  <2>1. CASE k + 1 <= n
    <3>1. k + 1 \in 1 .. n /\ (k + 1) - 1 = k /\ k \in S
      BY <1>2, <2>1
    <3>. QED
      BY <3>1
  <2>. QED
    BY <2>1
<1>3. Nat \subseteq T
  <2>. HIDE DEF T
  <2>. QED
    BY <1>1, <1>2, Induction
<1>. QED
  BY <1>3

----------------------------------------------------------------------------
(* The assumptions on the constants. *)

USE WorkersAssumption, QueueAssumption, MSortAssumption
    DEF WorkersAssumption, QueueAssumption, MSortAssumption

----------------------------------------------------------------------------
(* The inductive invariant. *)

Idle == {"wait", "pop", "exited"}
WorkerStates == Idle \cup {"work", "dispatch", "post", "merge", "write", "finish"}

\* The types of the variables the accounting is about.
ControlTypes ==
  /\ queue \in Seq(Segments \cup {Stop})
  /\ wpc \in [Workers -> WorkerStates]
  /\ seg \in [Workers -> Segments] /\ half \in [Workers -> {1, 2}]
  /\ mpc \in {"count", "push", "post", "await", "sleep", "stop", "poststop", "written"}
  /\ tasks_active \in Int /\ inlined \in Nat

\* Before main has pushed the first segment nobody has anything.
Quiet ==
  /\ mpc \in {"count", "push"} =>
       queue = <<>> /\ inlined = 0 /\ \A w \in Workers : wpc[w] \in {"wait", "pop"}
  /\ mpc = "count" => tasks_active = 0

\* While main waits there is no stop segment in the queue.
NoStops ==
  mpc \in {"push", "post", "await", "sleep"} => \A k \in DOMAIN queue : queue[k] # Stop

IInv == ControlTypes /\ Quiet /\ NoStops /\ HalvesCounted /\ QuietAtEnd

----------------------------------------------------------------------------
(* Segments. *)

LEMMA HalfShape ==
  ASSUME NEW s \in Segments, NEW h \in {1, 2}
  PROVE  Half(s, h) \in Segments /\ Half(s, h) # Stop
<1>1. /\ s[1] \in 0 .. NMerge /\ s[2] \in 0 .. NMerge /\ s[1] <= s[2]
      /\ s = <<s[1], s[2]>>
  BY DEF Segments
<1>2. Mid(s) \in s[1] .. s[2]
  BY <1>1 DEF Mid
<1>3. QED
  BY <1>1, <1>2 DEF Half, Segments, Stop

LEMMA WholeSegment ==
  /\ <<0, NMerge>> \in Segments /\ <<0, NMerge>> # Stop
  /\ Nothing \in Segments
BY DEF Segments, Stop, Nothing

----------------------------------------------------------------------------
(* What the threads stand for. *)

LEMMA WorkersFinite ==
  ASSUME NEW S \in SUBSET Workers
  PROVE  IsFiniteSet(S) /\ Cardinality(S) \in Nat
BY FS_Subset, FS_CardinalityType

\* What the threads stand for in tasks_active, and what one of them does.
Owed == Cardinality(Busy) + Undispatched

Share(h, at) ==
  IF at \in Idle THEN 0
  ELSE IF at = "dispatch" THEN (IF h = 1 THEN 3 ELSE 2)
  ELSE IF at = "post" /\ h = 1 THEN 2
  ELSE 1

\* How often w is in a set.
In(w, S) == IF w \in S THEN 1 ELSE 0

LEMMA CountChange ==
  ASSUME NEW S \in SUBSET Workers, NEW T \in SUBSET Workers, NEW w \in Workers,
         \A v \in Workers : v # w => (v \in S <=> v \in T)
  PROVE  /\ Cardinality(S) \in Nat /\ Cardinality(T) \in Nat
         /\ Cardinality(T) = Cardinality(S) - In(w, S) + In(w, T)
<1>1. IsFiniteSet(S) /\ Cardinality(S) \in Nat /\ Cardinality(T) \in Nat
  BY WorkersFinite
<1>2. /\ Cardinality(S \cup {w}) = IF w \in S THEN Cardinality(S) ELSE Cardinality(S) + 1
      /\ Cardinality(S \ {w}) = IF w \in S THEN Cardinality(S) - 1 ELSE Cardinality(S)
  BY <1>1, FS_AddElement, FS_RemoveElement
<1>3. CASE w \in T
  <2>1. T = S \cup {w}
    BY <1>3
  <2>2. QED
    BY <1>1, <1>2, <1>3, <2>1 DEF In
<1>4. CASE w \notin T
  <2>1. T = S \ {w}
    BY <1>4
  <2>2. QED
    BY <1>1, <1>2, <1>4, <2>1 DEF In
<1>5. QED
  BY <1>3, <1>4

LEMMA OwedChange ==
  ASSUME ControlTypes, ControlTypes', NEW w \in Workers,
         \A v \in Workers : v # w => wpc'[v] = wpc[v] /\ half'[v] = half[v]
  PROVE  /\ Owed \in Nat /\ Owed' \in Nat
         /\ Owed' = Owed - Share(half[w], wpc[w]) + Share(half'[w], wpc'[w])
<1>1. /\ Busy \in SUBSET Workers /\ Busy' \in SUBSET Workers
      /\ TwoLeft \in SUBSET Workers /\ TwoLeft' \in SUBSET Workers
      /\ OneLeft \in SUBSET Workers /\ OneLeft' \in SUBSET Workers
  BY DEF Busy, TwoLeft, OneLeft
<1>2. \A v \in Workers : v # w => /\ v \in Busy <=> v \in Busy'
                                  /\ v \in TwoLeft <=> v \in TwoLeft'
                                  /\ v \in OneLeft <=> v \in OneLeft'
  BY DEF Busy, TwoLeft, OneLeft
<1>3. /\ Cardinality(Busy) \in Nat /\ Cardinality(Busy') \in Nat
      /\ Cardinality(Busy') = Cardinality(Busy) - In(w, Busy) + In(w, Busy')
  BY <1>1, <1>2, CountChange
<1>4. /\ Cardinality(TwoLeft) \in Nat /\ Cardinality(TwoLeft') \in Nat
      /\ Cardinality(TwoLeft') = Cardinality(TwoLeft) - In(w, TwoLeft) + In(w, TwoLeft')
  BY <1>1, <1>2, CountChange
<1>5. /\ Cardinality(OneLeft) \in Nat /\ Cardinality(OneLeft') \in Nat
      /\ Cardinality(OneLeft') = Cardinality(OneLeft) - In(w, OneLeft) + In(w, OneLeft')
  BY <1>1, <1>2, CountChange
<1>6. /\ half[w] \in {1, 2} /\ half'[w] \in {1, 2}
      /\ wpc[w] \in WorkerStates /\ wpc'[w] \in WorkerStates
  BY DEF ControlTypes
<1>7. /\ In(w, Busy) + 2 * In(w, TwoLeft) + In(w, OneLeft) = Share(half[w], wpc[w])
      /\ In(w, Busy) \in {0, 1} /\ In(w, TwoLeft) \in {0, 1} /\ In(w, OneLeft) \in {0, 1}
  BY <1>6 DEF In, Share, Busy, TwoLeft, OneLeft, Idle, WorkerStates
<1>8. /\ In(w, Busy') + 2 * In(w, TwoLeft') + In(w, OneLeft') = Share(half'[w], wpc'[w])
      /\ In(w, Busy') \in {0, 1} /\ In(w, TwoLeft') \in {0, 1} /\ In(w, OneLeft') \in {0, 1}
  BY <1>6 DEF In, Share, Busy, TwoLeft, OneLeft, Idle, WorkerStates
<1> DEFINE b == Cardinality(Busy)  bNew == Cardinality(Busy')
           t == Cardinality(TwoLeft)  tNew == Cardinality(TwoLeft')
           o == Cardinality(OneLeft)  oNew == Cardinality(OneLeft')
           inB == In(w, Busy)  inBNew == In(w, Busy')
           inT == In(w, TwoLeft)  inTNew == In(w, TwoLeft')
           inO == In(w, OneLeft)  inONew == In(w, OneLeft')
           share == Share(half[w], wpc[w])  shareNew == Share(half'[w], wpc'[w])
<1>9. /\ b \in Nat /\ bNew \in Nat /\ t \in Nat /\ tNew \in Nat /\ o \in Nat /\ oNew \in Nat
      /\ inB \in Int /\ inBNew \in Int /\ inT \in Int /\ inTNew \in Int
      /\ inO \in Int /\ inONew \in Int
  BY <1>3, <1>4, <1>5, <1>7, <1>8
<1>10. /\ bNew = b - inB + inBNew /\ tNew = t - inT + inTNew /\ oNew = o - inO + inONew
       /\ inB + 2 * inT + inO = share /\ inBNew + 2 * inTNew + inONew = shareNew
  BY <1>3, <1>4, <1>5, <1>7, <1>8
<1>11. Owed = b + (2 * t + o) /\ Owed' = bNew + (2 * tNew + oNew)
  BY DEF Owed, Undispatched
<1> HIDE DEF b, bNew, t, tNew, o, oNew, inB, inBNew, inT, inTNew, inO, inONew, share, shareNew
<1>12. share \in Int /\ shareNew \in Int
  BY <1>9, <1>10
<1>13. /\ b + (2 * t + o) \in Nat /\ bNew + (2 * tNew + oNew) \in Nat
       /\ bNew + (2 * tNew + oNew) = ((b + (2 * t + o)) - share) + shareNew
  BY <1>9, <1>10, <1>12
<1> DEFINE sum == b + (2 * t + o)  sumNew == bNew + (2 * tNew + oNew)
<1>14. /\ Owed = sum /\ Owed' = sumNew
       /\ sum \in Nat /\ sumNew \in Nat /\ sumNew = (sum - share) + shareNew
  BY <1>11, <1>13
<1> HIDE DEF sum, sumNew
<1>15. QED
  BY <1>14 DEF share, shareNew

\* Nothing is owed when nobody has a segment in hand, and only then.
LEMMA NothingOwed == ControlTypes => Owed \in Nat /\ (Owed = 0 <=> Busy = {})
<1> SUFFICES ASSUME ControlTypes PROVE Owed \in Nat /\ (Owed = 0 <=> Busy = {})
  OBVIOUS
<1>1. /\ Busy \in SUBSET Workers /\ TwoLeft \in SUBSET Busy /\ OneLeft \in SUBSET Busy
  BY DEF Busy, TwoLeft, OneLeft
<1>2. /\ IsFiniteSet(Busy) /\ Cardinality(Busy) \in Nat
      /\ Cardinality(TwoLeft) \in Nat /\ Cardinality(OneLeft) \in Nat
      /\ Cardinality(Busy) = 0 <=> Busy = {}
      /\ Cardinality({}) = 0
  BY <1>1, WorkersFinite, FS_EmptySet
<1>3. Busy = {} => TwoLeft = {} /\ OneLeft = {}
  BY <1>1
<1> DEFINE b == Cardinality(Busy)  t == Cardinality(TwoLeft)  o == Cardinality(OneLeft)
<1>4. /\ b \in Nat /\ t \in Nat /\ o \in Nat
      /\ b = 0 <=> Busy = {}
      /\ Busy = {} => t = 0 /\ o = 0
  BY <1>2, <1>3
<1>5. Owed = b + (2 * t + o)
  BY DEF Owed, Undispatched
<1> HIDE DEF b, t, o
<1>6. QED
  BY <1>4, <1>5

----------------------------------------------------------------------------
(* The steps of a worker. *)

\* Who has a segment in hand has it while main waits.
LEMMA BusyInAwait ==
  ASSUME IInv, NEW w \in Workers, wpc[w] \notin Idle
  PROVE  mpc \in {"post", "await", "sleep"}
<1>1. w \in Busy
  BY DEF Busy, Idle
<1>2. QED
  BY <1>1 DEF IInv, ControlTypes, Quiet, QuietAtEnd, Idle

\* The accounting while main waits.
LEMMA HalvesOwed ==
  mpc \in {"post", "await", "sleep"} /\ ControlTypes =>
    (HalvesCounted <=> tasks_active = Len(queue) + Owed + inlined)
<1> SUFFICES ASSUME mpc \in {"post", "await", "sleep"}, ControlTypes
             PROVE  HalvesCounted <=> tasks_active = Len(queue) + Owed + inlined
  OBVIOUS
<1>1. /\ Cardinality(Busy) \in Nat
      /\ Cardinality(TwoLeft) \in Nat /\ Cardinality(OneLeft) \in Nat
  BY WorkersFinite DEF Busy, TwoLeft, OneLeft
<1>2. Len(queue) \in Nat /\ tasks_active \in Int /\ inlined \in Nat
  BY DEF ControlTypes
<1> DEFINE b == Cardinality(Busy)  t == Cardinality(TwoLeft)  o == Cardinality(OneLeft)
           l == Len(queue)
<1>3. b \in Nat /\ t \in Nat /\ o \in Nat /\ l \in Nat
  BY <1>1, <1>2
<1>4. /\ HalvesCounted <=> tasks_active = l + b + (2 * t + o) + inlined
      /\ Owed = b + (2 * t + o)
  BY DEF HalvesCounted, Owed, Undispatched
<1> HIDE DEF b, t, o, l
<1>5. HalvesCounted <=> tasks_active = l + Owed + inlined
  BY <1>2, <1>3, <1>4
<1>6. QED
  BY <1>5 DEF l

\* A step of w while main waits that changes the count by what it changes in the
\* queue, in the hands of w and in the inline dispatches.
LEMMA CountedStep ==
  ASSUME IInv, ControlTypes', NEW w \in Workers,
         mpc \in {"post", "await", "sleep"}, mpc' \in {"post", "await", "sleep"},
         \A v \in Workers : v # w => wpc'[v] = wpc[v] /\ half'[v] = half[v],
         \A k \in DOMAIN queue' : queue'[k] # Stop,
         tasks_active' - tasks_active =
           (Len(queue') - Len(queue)) + (Share(half'[w], wpc'[w]) - Share(half[w], wpc[w]))
             + (inlined' - inlined)
  PROVE  IInv'
<1>1. ControlTypes /\ HalvesCounted
  BY DEF IInv
<1>2. /\ Owed \in Nat /\ Owed' \in Nat
      /\ Owed' = Owed - Share(half[w], wpc[w]) + Share(half'[w], wpc'[w])
  BY <1>1, OwedChange
<1>3. tasks_active = Len(queue) + Owed + inlined
  BY <1>1, HalvesOwed
<1>4. /\ Len(queue) \in Nat /\ Len(queue') \in Nat
      /\ tasks_active \in Int /\ tasks_active' \in Int
      /\ inlined \in Nat /\ inlined' \in Nat
      /\ Share(half[w], wpc[w]) \in Int /\ Share(half'[w], wpc'[w]) \in Int
  BY <1>1 DEF ControlTypes, Share
<1> DEFINE l == Len(queue)  lNew == Len(queue')
           share == Share(half[w], wpc[w])  shareNew == Share(half'[w], wpc'[w])
<1>5. /\ l \in Int /\ lNew \in Int /\ share \in Int /\ shareNew \in Int
      /\ tasks_active \in Int /\ tasks_active' \in Int
      /\ inlined \in Int /\ inlined' \in Int
      /\ Owed \in Int /\ Owed' \in Int
  BY <1>2, <1>4
<1>6. Owed' = Owed - share + shareNew /\ tasks_active = l + Owed + inlined
  BY <1>2, <1>3
<1>7. tasks_active' - tasks_active = (lNew - l) + (shareNew - share) + (inlined' - inlined)
  OBVIOUS
<1> HIDE DEF l, lNew, share, shareNew
<1> DEFINE t == tasks_active  tNew == tasks_active'  i == inlined  iNew == inlined'
           o == Owed  oNew == Owed'
<1>8. /\ l \in Int /\ lNew \in Int /\ share \in Int /\ shareNew \in Int
      /\ t \in Int /\ tNew \in Int /\ i \in Int /\ iNew \in Int
      /\ o \in Int /\ oNew \in Int
      /\ oNew = o - share + shareNew /\ t = l + o + i
      /\ tNew - t = (lNew - l) + (shareNew - share) + (iNew - i)
  BY <1>5, <1>6, <1>7
<1> HIDE DEF t, tNew, i, iNew, o, oNew
<1>9. tNew = lNew + oNew + iNew
  BY ONLY <1>8
<1>10. tasks_active' = Len(queue') + Owed' + inlined'
  BY <1>9 DEF tNew, lNew, oNew, iNew
<1>11. HalvesCounted'
  <2>1. (mpc \in {"post", "await", "sleep"} /\ ControlTypes =>
          (HalvesCounted <=> tasks_active = Len(queue) + Owed + inlined))'
    BY HalvesOwed, PTL
  <2>2. QED
    BY <1>10, <2>1
<1>12. Quiet' /\ NoStops' /\ QuietAtEnd'
  BY DEF Quiet, NoStops, QuietAtEnd
<1>13. QED
  BY <1>11, <1>12 DEF IInv

\* The same when the queue is left alone.
LEMMA OwnStep ==
  ASSUME IInv, ControlTypes', NEW w \in Workers, wpc[w] \notin Idle,
         mpc' = mpc \/ mpc' \in {"post", "await", "sleep"},
         \A v \in Workers : v # w => wpc'[v] = wpc[v] /\ half'[v] = half[v],
         UNCHANGED queue,
         tasks_active' - tasks_active =
           (Share(half'[w], wpc'[w]) - Share(half[w], wpc[w])) + (inlined' - inlined)
  PROVE  IInv'
<1>1. mpc \in {"post", "await", "sleep"} /\ mpc' \in {"post", "await", "sleep"}
  BY BusyInAwait
<1>2. \A k \in DOMAIN queue' : queue'[k] # Stop
  BY <1>1 DEF IInv, NoStops
<1> DEFINE l == Len(queue)  lNew == Len(queue')
           d == Share(half'[w], wpc'[w]) - Share(half[w], wpc[w])
           i == inlined' - inlined
           t == tasks_active' - tasks_active
<1>3. l \in Int /\ lNew = l /\ d \in Int /\ i \in Int /\ t = d + i
  BY DEF IInv, ControlTypes, Share
<1> HIDE DEF l, lNew, d, i, t
<1>4. t = (lNew - l) + d + i
  BY ONLY <1>3
<1>5. tasks_active' - tasks_active =
        (Len(queue') - Len(queue)) + (Share(half'[w], wpc'[w]) - Share(half[w], wpc[w]))
          + (inlined' - inlined)
  BY <1>4 DEF t, lNew, l, d, i
<1>6. QED
  BY <1>1, <1>2, <1>5, CountedStep

LEMMA WaitTaskIInv ==
  ASSUME IInv, NEW w \in Workers, WaitTask(w)
  PROVE  IInv'
<1>1. /\ wpc[w] = "wait" /\ wpc' = [wpc EXCEPT ![w] = "pop"]
      /\ UNCHANGED <<queue, seg, half, mpc, tasks_active, inlined>>
  BY DEF WaitTask, At, Acquire, mainVars
<1>2. \A v \in Workers : wpc'[v] = IF v = w THEN "pop" ELSE wpc[v]
  BY <1>1 DEF IInv, ControlTypes
<1>3. Busy' = Busy /\ TwoLeft' = TwoLeft /\ OneLeft' = OneLeft
  BY <1>1, <1>2 DEF Busy, TwoLeft, OneLeft
<1>4. ControlTypes'
  BY <1>1 DEF IInv, ControlTypes, WorkerStates, Idle
<1>5. Quiet' /\ NoStops'
  BY <1>1, <1>2 DEF IInv, Quiet, NoStops
<1>6. HalvesCounted' /\ QuietAtEnd'
  BY <1>1, <1>3 DEF IInv, HalvesCounted, QuietAtEnd, Undispatched
<1>7. QED
  BY <1>4, <1>5, <1>6 DEF IInv

LEMMA TakeTaskIInv ==
  ASSUME IInv, NEW w \in Workers, TakeTask(w)
  PROVE  IInv'
<1>1. /\ wpc[w] = "pop" /\ queue # <<>> /\ queue' = Tail(queue)
      /\ UNCHANGED <<half, mpc, tasks_active, inlined>>
  BY DEF TakeTask, At, Dequeue, mainVars
<1>2. /\ queue \in Seq(Segments \cup {Stop}) /\ queue' \in Seq(Segments \cup {Stop})
      /\ Head(queue) \in Segments \cup {Stop} /\ Head(queue) = queue[1]
      /\ 1 \in DOMAIN queue
      /\ Len(queue) \in Nat /\ Len(queue') = Len(queue) - 1
      /\ \A k \in DOMAIN queue' : k + 1 \in DOMAIN queue /\ queue'[k] = queue[k + 1]
  BY <1>1 DEF IInv, ControlTypes
<1>3. mpc \notin {"count", "push"}
  BY <1>1 DEF IInv, Quiet
<1>4. CASE Head(queue) = Stop /\ At(w, "pop", "exited") /\ UNCHANGED seg
  <2>1. wpc' = [wpc EXCEPT ![w] = "exited"]
    BY <1>4 DEF At
  <2>2. \A v \in Workers : wpc'[v] = IF v = w THEN "exited" ELSE wpc[v]
    BY <2>1 DEF IInv, ControlTypes
  <2>3. mpc \in {"stop", "poststop", "written"}
    BY <1>2, <1>3, <1>4 DEF IInv, ControlTypes, NoStops
  <2>4. Busy' = Busy
    BY <1>1, <2>2 DEF Busy
  <2>5. ControlTypes'
    BY <1>1, <1>2, <1>4, <2>1 DEF IInv, ControlTypes, WorkerStates, Idle
  <2>6. Quiet' /\ NoStops' /\ HalvesCounted'
    BY <1>1, <2>3 DEF Quiet, NoStops, HalvesCounted
  <2>7. QuietAtEnd'
    BY <1>1, <1>2, <2>3, <2>4 DEF IInv, QuietAtEnd
  <2>8. QED
    BY <2>5, <2>6, <2>7 DEF IInv
<1>5. CASE Head(queue) # Stop /\ At(w, "pop", "work") /\ seg' = [seg EXCEPT ![w] = Head(queue)]
  <2>1. wpc' = [wpc EXCEPT ![w] = "work"]
    BY <1>5 DEF At
  <2>2. \A v \in Workers : wpc'[v] = IF v = w THEN "work" ELSE wpc[v]
    BY <2>1 DEF IInv, ControlTypes
  <2>3. mpc \in {"post", "await", "sleep"}
    BY <1>2, <1>3, <1>5 DEF IInv, ControlTypes, QuietAtEnd
  <2>4. ControlTypes'
    BY <1>1, <1>2, <1>5, <2>1 DEF IInv, ControlTypes, WorkerStates, Idle
  <2>5. \A k \in DOMAIN queue' : queue'[k] # Stop
    BY <1>2, <2>3 DEF IInv, NoStops
  <2>6. Share(half[w], wpc[w]) = 0 /\ Share(half'[w], wpc'[w]) = 1
    BY <1>1, <2>2 DEF Share, Idle
  <2>7. tasks_active' - tasks_active = 0 /\ inlined' - inlined = 0
    BY <1>1 DEF IInv, ControlTypes
  <2>8. tasks_active' - tasks_active =
          (Len(queue') - Len(queue)) + (Share(half'[w], wpc'[w]) - Share(half[w], wpc[w]))
            + (inlined' - inlined)
    BY <1>2, <2>6, <2>7
  <2>9. QED
    BY <1>1, <2>2, <2>3, <2>4, <2>5, <2>8, CountedStep
<1>6. QED
  BY <1>4, <1>5 DEF TakeTask

\* The steps that take a worker from one place to another and count nothing.
LEMMA SilentStep ==
  ASSUME IInv, NEW w \in Workers,
         NEW from \in {"work", "merge", "write"}, NEW to \in {"finish", "write"},
         At(w, from, to),
         UNCHANGED <<queue, seg, half, mpc, tasks_active, inlined>>
  PROVE  IInv'
<1>1. wpc[w] = from /\ wpc' = [wpc EXCEPT ![w] = to]
  BY DEF At
<1>2. \A v \in Workers : wpc'[v] = IF v = w THEN to ELSE wpc[v]
  BY <1>1 DEF IInv, ControlTypes
<1>3. ControlTypes'
  BY <1>1 DEF IInv, ControlTypes, WorkerStates, Idle
<1>4. Share(half[w], wpc[w]) = 1 /\ Share(half'[w], wpc'[w]) = 1
  BY <1>1, <1>2 DEF Share, Idle
<1>5. tasks_active' - tasks_active = 0 /\ inlined' - inlined = 0
  BY DEF IInv, ControlTypes
<1>6. tasks_active' - tasks_active =
        (Share(half'[w], wpc'[w]) - Share(half[w], wpc[w])) + (inlined' - inlined)
  BY <1>4, <1>5
<1>7. QED
  BY <1>1, <1>2, <1>3, <1>6, OwnStep DEF Idle

LEMMA CountHalvesIInv ==
  ASSUME IInv, NEW w \in Workers, CountHalves(w)
  PROVE  IInv'
<1>1. /\ wpc[w] = "work" /\ wpc' = [wpc EXCEPT ![w] = "dispatch"]
      /\ half' = [half EXCEPT ![w] = 1] /\ tasks_active' = tasks_active + 2
      /\ UNCHANGED <<queue, seg, mpc, inlined>>
  BY DEF CountHalves, At, queueVars, mainVars
<1>2. /\ \A v \in Workers : wpc'[v] = IF v = w THEN "dispatch" ELSE wpc[v]
      /\ \A v \in Workers : half'[v] = IF v = w THEN 1 ELSE half[v]
  BY <1>1 DEF IInv, ControlTypes
<1>3. ControlTypes'
  BY <1>1 DEF IInv, ControlTypes, WorkerStates, Idle
<1>4. Share(half[w], wpc[w]) = 1 /\ Share(half'[w], wpc'[w]) = 3
  BY <1>1, <1>2 DEF Share, Idle
<1>5. tasks_active' - tasks_active = 2 /\ inlined' - inlined = 0
  BY <1>1 DEF IInv, ControlTypes
<1>6. tasks_active' - tasks_active =
        (Share(half'[w], wpc'[w]) - Share(half[w], wpc[w])) + (inlined' - inlined)
  BY <1>4, <1>5
<1>7. QED
  BY <1>1, <1>2, <1>3, <1>6, OwnStep DEF Idle

LEMMA DispatchQueuedIInv ==
  ASSUME IInv, NEW w \in Workers, DispatchQueued(w)
  PROVE  IInv'
<1>1. /\ wpc[w] = "dispatch" /\ wpc' = [wpc EXCEPT ![w] = "post"]
      /\ queue' = Append(queue, Half(seg[w], half[w]))
      /\ UNCHANGED <<seg, half, mpc, tasks_active, inlined>>
  BY DEF DispatchQueued, At, Enqueue, mainVars
<1>2. \A v \in Workers : wpc'[v] = IF v = w THEN "post" ELSE wpc[v]
  BY <1>1 DEF IInv, ControlTypes
<1>3. seg[w] \in Segments /\ half[w] \in {1, 2}
  BY DEF IInv, ControlTypes
<1>4. Half(seg[w], half[w]) \in Segments /\ Half(seg[w], half[w]) # Stop
  BY <1>3, HalfShape
<1>5. /\ queue' \in Seq(Segments \cup {Stop}) /\ Len(queue) \in Nat
      /\ Len(queue') = Len(queue) + 1
      /\ \A k \in DOMAIN queue' :
           (k \in DOMAIN queue /\ queue'[k] = queue[k]) \/ queue'[k] = Half(seg[w], half[w])
  BY <1>1, <1>4 DEF IInv, ControlTypes
<1>6. ControlTypes'
  BY <1>1, <1>5 DEF IInv, ControlTypes, WorkerStates, Idle
<1>7. mpc \in {"post", "await", "sleep"}
  BY <1>1, BusyInAwait DEF Idle
<1>8. \A k \in DOMAIN queue' : queue'[k] # Stop
  BY <1>4, <1>5, <1>7 DEF IInv, NoStops
<1>9. Share(half'[w], wpc'[w]) - Share(half[w], wpc[w]) = -1
  BY <1>1, <1>2, <1>3 DEF Share, Idle
<1>10. tasks_active' - tasks_active = 0 /\ inlined' - inlined = 0
  BY <1>1 DEF IInv, ControlTypes
<1>11. tasks_active' - tasks_active =
         (Len(queue') - Len(queue)) + (Share(half'[w], wpc'[w]) - Share(half[w], wpc[w]))
           + (inlined' - inlined)
  BY <1>5, <1>9, <1>10
<1>12. QED
  BY <1>1, <1>2, <1>6, <1>7, <1>8, <1>11, CountedStep

\* Where a worker goes from a dispatch.
LEMMA DispatchedMove ==
  ASSUME IInv, NEW w \in Workers, wpc[w] \in {"dispatch", "post"}, Dispatched(w)
  PROVE  /\ wpc' \in [Workers -> WorkerStates] /\ half' \in [Workers -> {1, 2}]
         /\ \A v \in Workers : v # w => wpc'[v] = wpc[v] /\ half'[v] = half[v]
         /\ Share(half'[w], wpc'[w]) - Share(half[w], wpc[w]) =
              IF wpc[w] = "dispatch" THEN -1 ELSE 0
<1>1. /\ half[w] \in {1, 2} /\ half \in [Workers -> {1, 2}]
      /\ wpc \in [Workers -> WorkerStates]
  BY DEF IInv, ControlTypes
<1>2. CASE half[w] = 1
  <2>1. wpc' = [wpc EXCEPT ![w] = "dispatch"] /\ half' = [half EXCEPT ![w] = 2]
    BY <1>2 DEF Dispatched
  <2>2. wpc'[w] = "dispatch" /\ half'[w] = 2
    BY <1>1, <2>1
  <2>3. Share(half'[w], wpc'[w]) = 2
    BY <2>2 DEF Share, Idle
  <2>4. Share(half[w], wpc[w]) = IF wpc[w] = "dispatch" THEN 3 ELSE 2
    BY <1>2 DEF Share, Idle
  <2>5. QED
    BY <1>1, <2>1, <2>3, <2>4 DEF WorkerStates, Idle
<1>3. CASE half[w] = 2
  <2>1. wpc' = [wpc EXCEPT ![w] = "merge"] /\ half' = half
    BY <1>3 DEF Dispatched
  <2>2. wpc'[w] = "merge" /\ half'[w] = 2
    BY <1>1, <1>3, <2>1
  <2>3. Share(half'[w], wpc'[w]) = 1
    BY <2>2 DEF Share, Idle
  <2>4. Share(half[w], wpc[w]) = IF wpc[w] = "dispatch" THEN 2 ELSE 1
    BY <1>3 DEF Share, Idle
  <2>5. QED
    BY <1>1, <2>1, <2>3, <2>4 DEF WorkerStates, Idle
<1>4. QED
  BY <1>1, <1>2, <1>3

LEMMA PostTaskIInv ==
  ASSUME IInv, NEW w \in Workers, PostTask(w)
  PROVE  IInv'
<1>1. /\ wpc[w] = "post" /\ Dispatched(w)
      /\ UNCHANGED <<queue, seg, mpc, tasks_active, inlined>>
  BY DEF PostTask, Post, mainVars
<1>2. /\ wpc' \in [Workers -> WorkerStates] /\ half' \in [Workers -> {1, 2}]
      /\ \A v \in Workers : v # w => wpc'[v] = wpc[v] /\ half'[v] = half[v]
      /\ Share(half'[w], wpc'[w]) - Share(half[w], wpc[w]) = 0
  BY <1>1, DispatchedMove
<1>3. ControlTypes'
  BY <1>1, <1>2 DEF IInv, ControlTypes
<1>4. tasks_active' - tasks_active = 0 /\ inlined' - inlined = 0
  BY <1>1 DEF IInv, ControlTypes
<1>5. tasks_active' - tasks_active =
        (Share(half'[w], wpc'[w]) - Share(half[w], wpc[w])) + (inlined' - inlined)
  BY <1>2, <1>4
<1>6. QED
  BY <1>1, <1>2, <1>3, <1>5, OwnStep DEF Idle

LEMMA DispatchInlineIInv ==
  ASSUME IInv, NEW w \in Workers, DispatchInline(w)
  PROVE  IInv'
<1>1. /\ wpc[w] = "dispatch" /\ Dispatched(w) /\ inlined' = inlined + 1
      /\ UNCHANGED <<queue, seg, mpc, tasks_active>>
  BY DEF DispatchInline, queueVars, mainVars
<1>2. /\ wpc' \in [Workers -> WorkerStates] /\ half' \in [Workers -> {1, 2}]
      /\ \A v \in Workers : v # w => wpc'[v] = wpc[v] /\ half'[v] = half[v]
      /\ Share(half'[w], wpc'[w]) - Share(half[w], wpc[w]) = -1
  BY <1>1, DispatchedMove
<1>3. ControlTypes'
  BY <1>1, <1>2 DEF IInv, ControlTypes
<1>4. tasks_active' - tasks_active = 0 /\ inlined' - inlined = 1
  BY <1>1 DEF IInv, ControlTypes
<1>5. tasks_active' - tasks_active =
        (Share(half'[w], wpc'[w]) - Share(half[w], wpc[w])) + (inlined' - inlined)
  BY <1>2, <1>4
<1>6. QED
  BY <1>1, <1>2, <1>3, <1>5, OwnStep DEF Idle

LEMMA FinishTaskIInv ==
  ASSUME IInv, NEW w \in Workers, FinishTask(w)
  PROVE  IInv'
<1>1. /\ wpc[w] = "finish" /\ wpc' = [wpc EXCEPT ![w] = "wait"]
      /\ tasks_active' = tasks_active - 1
      /\ mpc' = IF tasks_active' = 0 /\ mpc = "sleep" THEN "await" ELSE mpc
      /\ seg' = [seg EXCEPT ![w] = Nothing]
      /\ UNCHANGED <<queue, half, inlined>>
  BY DEF FinishTask, At, queueVars
<1>2. /\ \A v \in Workers : wpc'[v] = IF v = w THEN "wait" ELSE wpc[v]
  BY <1>1 DEF IInv, ControlTypes
<1>3. ControlTypes'
  BY <1>1, WholeSegment DEF IInv, ControlTypes, WorkerStates, Idle
<1>4. Share(half[w], wpc[w]) = 1 /\ Share(half'[w], wpc'[w]) = 0
  BY <1>1, <1>2 DEF Share, Idle
<1>5. tasks_active' - tasks_active = -1 /\ inlined' - inlined = 0
  BY <1>1 DEF IInv, ControlTypes
<1>6. tasks_active' - tasks_active =
        (Share(half'[w], wpc'[w]) - Share(half[w], wpc[w])) + (inlined' - inlined)
  BY <1>4, <1>5
<1>7. mpc' = mpc \/ mpc' \in {"post", "await", "sleep"}
  BY <1>1
<1>8. QED
  BY <1>1, <1>2, <1>3, <1>6, <1>7, OwnStep DEF Idle

LEMMA WorkerIInv ==
  ASSUME IInv, NEW w \in Workers, Worker(w)
  PROVE  IInv'
<1>1. CASE SortSmall(w) \/ MergeRead(w) \/ MergeWrite(w)
  BY <1>1, SilentStep DEF SortSmall, MergeRead, MergeWrite, queueVars, mainVars
<1>2. QED
  BY <1>1, WaitTaskIInv, TakeTaskIInv, CountHalvesIInv, DispatchQueuedIInv, PostTaskIInv,
     DispatchInlineIInv, FinishTaskIInv DEF Worker

----------------------------------------------------------------------------
(* The steps of main. *)

LEMMA CountFirstIInv == IInv /\ CountFirst => IInv'
<1> SUFFICES ASSUME IInv, CountFirst PROVE IInv'
  OBVIOUS
<1>1. /\ mpc = "count" /\ mpc' = "push" /\ tasks_active' = 1
      /\ UNCHANGED <<queue, wpc, seg, half, inlined>>
  BY DEF CountFirst, MainAt, queueVars, workerVars
<1>2. /\ queue = <<>> /\ inlined = 0 /\ \A w \in Workers : wpc[w] \in {"wait", "pop"}
  BY <1>1 DEF IInv, Quiet
<1>3. Busy' = {} /\ TwoLeft' = {} /\ OneLeft' = {} /\ Cardinality({}) = 0
  BY <1>1, <1>2, FS_EmptySet DEF Busy, TwoLeft, OneLeft
<1>4. HalvesCounted'
  BY <1>1, <1>2, <1>3 DEF HalvesCounted, Undispatched
<1>5. ControlTypes' /\ Quiet' /\ NoStops' /\ QuietAtEnd'
  BY <1>1, <1>2 DEF IInv, ControlTypes, Quiet, NoStops, QuietAtEnd
<1>6. QED
  BY <1>4, <1>5 DEF IInv

LEMMA PushFirstIInv == IInv /\ PushFirst => IInv'
<1> SUFFICES ASSUME IInv, PushFirst PROVE IInv'
  OBVIOUS
<1>1. /\ mpc = "push" /\ mpc' = "post" /\ queue' = Append(queue, <<0, NMerge>>)
      /\ UNCHANGED <<wpc, seg, half, tasks_active, inlined>>
  BY DEF PushFirst, MainAt, Enqueue, workerVars
<1>2. /\ queue = <<>> /\ inlined = 0 /\ \A w \in Workers : wpc[w] \in {"wait", "pop"}
  BY <1>1 DEF IInv, Quiet
<1>3. queue' = << <<0, NMerge>> >>
  BY <1>1, <1>2
<1>4. Busy' = Busy /\ TwoLeft' = TwoLeft /\ OneLeft' = OneLeft
  BY <1>1 DEF Busy, TwoLeft, OneLeft
<1>5. HalvesCounted'
  BY <1>1, <1>3, <1>4 DEF IInv, HalvesCounted, Undispatched
<1>6. ControlTypes'
  BY <1>1, <1>3, WholeSegment DEF IInv, ControlTypes
<1>7. Quiet' /\ NoStops' /\ QuietAtEnd'
  <2>1. \A k \in DOMAIN queue' : queue'[k] = <<0, NMerge>>
    BY <1>3
  <2>2. QED
    BY <1>1, <2>1, WholeSegment DEF Quiet, NoStops, QuietAtEnd
<1>8. QED
  BY <1>5, <1>6, <1>7 DEF IInv

\* The waiting of main, and a stop segment it cannot push.
LEMMA MainMoves ==
  ASSUME IInv,
         \/ mpc = "post" /\ mpc' = "await"
         \/ mpc = "await" /\ mpc' = "sleep"
         \/ mpc = "sleep" /\ mpc' = "await"
         \/ mpc \in {"stop", "poststop"} /\ mpc' \in {"stop", "written"},
         UNCHANGED <<queue, workerVars, tasks_active, inlined>>
  PROVE  IInv'
<1>1. UNCHANGED <<wpc, seg, half>> /\ Busy' = Busy /\ TwoLeft' = TwoLeft /\ OneLeft' = OneLeft
  BY DEF workerVars, Busy, TwoLeft, OneLeft
<1>2. ControlTypes'
  BY <1>1 DEF IInv, ControlTypes
<1>3. Quiet' /\ NoStops'
  BY <1>1 DEF IInv, Quiet, NoStops
<1>4. HalvesCounted' /\ QuietAtEnd'
  BY <1>1 DEF IInv, HalvesCounted, QuietAtEnd, Undispatched
<1>5. QED
  BY <1>2, <1>3, <1>4 DEF IInv

\* Main leaves: the count says that nothing waits and nobody is busy.
LEMMA AwaitDoneIInv == IInv /\ AwaitDone => IInv'
<1> SUFFICES ASSUME IInv, AwaitDone PROVE IInv'
  OBVIOUS
<1>1. /\ mpc = "await" /\ mpc' = IF tasks_active > 0 THEN "sleep" ELSE "stop"
      /\ UNCHANGED <<queue, workerVars, tasks_active, inlined>>
  BY DEF AwaitDone, MainAt, queueVars
<1>2. CASE tasks_active > 0
  BY <1>1, <1>2, MainMoves
<1>3. CASE ~(tasks_active > 0)
  <2>1. tasks_active = Len(queue) + Owed + inlined
    BY <1>1, HalvesOwed DEF IInv
  <2>2. /\ Owed \in Nat /\ (Owed = 0 <=> Busy = {})
        /\ Len(queue) \in Nat /\ inlined \in Nat /\ tasks_active \in Int
    BY NothingOwed DEF IInv, ControlTypes
  <2>3. Len(queue) = 0 /\ Busy = {}
    BY <1>3, <2>1, <2>2
  <2>4. UNCHANGED <<wpc, seg, half>> /\ Busy' = Busy
    BY <1>1 DEF workerVars, Busy
  <2>5. ControlTypes'
    BY <1>1, <1>3, <2>4 DEF IInv, ControlTypes
  <2>6. DOMAIN queue = {}
    BY <2>3 DEF IInv, ControlTypes
  <2>7. Quiet' /\ NoStops' /\ HalvesCounted' /\ QuietAtEnd'
    BY <1>1, <1>3, <2>3, <2>4, <2>6 DEF Quiet, NoStops, HalvesCounted, QuietAtEnd
  <2>8. QED
    BY <2>5, <2>7 DEF IInv
<1>4. QED
  BY <1>2, <1>3

LEMMA PushStopIInv == IInv /\ PushStop => IInv'
<1> SUFFICES ASSUME IInv, PushStop PROVE IInv'
  OBVIOUS
<1>1. /\ mpc = "stop"
      /\ UNCHANGED <<wpc, seg, half, tasks_active, inlined>>
  BY DEF PushStop, workerVars
<1>2. CASE Enqueue(Stop) /\ mpc' = "poststop"
  <2>1. queue' = Append(queue, Stop)
    BY <1>2 DEF Enqueue
  <2>2. /\ queue \in Seq(Segments \cup {Stop}) /\ queue' \in Seq(Segments \cup {Stop})
        /\ \A k \in DOMAIN queue' : (k \in DOMAIN queue /\ queue'[k] = queue[k]) \/ queue'[k] = Stop
    BY <2>1 DEF IInv, ControlTypes
  <2>3. Busy' = Busy
    BY <1>1 DEF Busy
  <2>4. ControlTypes'
    BY <1>1, <1>2, <2>2 DEF IInv, ControlTypes
  <2>5. Quiet' /\ NoStops' /\ HalvesCounted'
    BY <1>2 DEF Quiet, NoStops, HalvesCounted
  <2>6. QuietAtEnd'
    BY <1>1, <2>2, <2>3 DEF IInv, QuietAtEnd
  <2>7. QED
    BY <2>4, <2>5, <2>6 DEF IInv
<1>3. CASE ~HasRoom /\ UNCHANGED <<mpc, queueVars>>
  BY <1>1, <1>3, MainMoves DEF PushStop, queueVars
<1>4. QED
  BY <1>2, <1>3 DEF PushStop

LEMMA MainIInv == IInv /\ (Main \/ SpuriousWakeup) => IInv'
<1> SUFFICES ASSUME IInv, Main \/ SpuriousWakeup PROVE IInv'
  OBVIOUS
<1>1. CASE PostFirst \/ PostStop
  BY <1>1, MainMoves DEF PostFirst, PostStop, MainAt, Post
<1>2. CASE Join \/ SpuriousWakeup
  BY <1>2, MainMoves DEF Join, SpuriousWakeup, MainAt, queueVars
<1>3. QED
  BY <1>1, <1>2, CountFirstIInv, PushFirstIInv, AwaitDoneIInv, PushStopIInv DEF Main

----------------------------------------------------------------------------
(* The specification. *)

LEMMA InitIInv == Init => IInv
<1> SUFFICES ASSUME Init PROVE IInv
  OBVIOUS
<1>1. /\ queue = <<>> /\ mpc = "count" /\ tasks_active = 0 /\ inlined = 0
      /\ wpc = [w \in Workers |-> "wait"] /\ seg = [w \in Workers |-> Nothing]
      /\ half = [w \in Workers |-> 1]
  BY DEF Init, QueueInit
<1>2. ControlTypes
  BY <1>1, WholeSegment DEF ControlTypes, WorkerStates, Idle
<1>3. Quiet /\ NoStops /\ HalvesCounted /\ QuietAtEnd
  BY <1>1 DEF Quiet, NoStops, HalvesCounted, QuietAtEnd
<1>4. QED
  BY <1>2, <1>3 DEF IInv

LEMMA NextIInv == IInv /\ [Next]_vars => IInv'
<1> SUFFICES ASSUME IInv, [Next]_vars PROVE IInv'
  OBVIOUS
<1>1. CASE Next
  BY <1>1, MainIInv, WorkerIInv DEF Next
<1>2. CASE UNCHANGED vars
  <2>1. UNCHANGED <<queue, wpc, seg, half, mpc, tasks_active, inlined>>
    BY <1>2 DEF vars, queueVars, workerVars, mainVars
  <2>2. Busy' = Busy /\ TwoLeft' = TwoLeft /\ OneLeft' = OneLeft
    BY <2>1 DEF Busy, TwoLeft, OneLeft
  <2>3. QED
    BY <2>1, <2>2 DEF IInv, ControlTypes, Quiet, NoStops, HalvesCounted, QuietAtEnd, Undispatched
<1>3. QED
  BY <1>1, <1>2

LEMMA AlwaysIInv == Spec => []IInv
<1>1. QED
  BY InitIInv, NextIInv, PTL DEF Spec

\* tasks_active is the number of segments that wait, are about to be dispatched
\* or are worked on, plus every dispatch that found the queue full: main never
\* stops waiting while a segment is left (worker_fn, dispatch_task, main).
THEOREM CountsHalves == Spec => []HalvesCounted
<1>1. IInv => HalvesCounted
  BY DEF IInv
<1>2. QED
  BY <1>1, AlwaysIInv, PTL

\* When main has stopped waiting no worker has a segment, and none comes: what
\* main writes to the output is not touched any more (main, worker_fn).
THEOREM QuietWhenOver == Spec => []QuietAtEnd
<1>1. IInv => QuietAtEnd
  BY DEF IInv
<1>2. QED
  BY <1>1, AlwaysIInv, PTL
----------------------------------------------------------------------------
(* The values in the array. *)

SeqOf(n) == [1 .. n -> MergeValues]

LEMMA SeqOfIs ==
  ASSUME NEW n \in Nat, NEW s \in SeqOf(n)
  PROVE  s \in Seq(MergeValues) /\ Len(s) = n /\ DOMAIN s = 1 .. n
<1>1. s \in Seq(MergeValues) /\ DOMAIN s = 1 .. n
  BY DEF SeqOf
<1>2. Len(s) \in Nat /\ DOMAIN s = 1 .. Len(s)
  BY <1>1
<1>. QED
  BY <1>1, <1>2

LEMMA SegmentElements ==
  ASSUME A \in [Positions -> MergeValues], NEW s \in Segments
  PROVE  Size(s) \in Nat /\ Elements(s) \in SeqOf(Size(s))
<1>1. s[1] \in 0 .. NMerge /\ s[2] \in 0 .. NMerge /\ s[1] <= s[2]
  BY DEF Segments
<1>2. A \in Seq(MergeValues) /\ DOMAIN A = 1 .. NMerge
  BY DEF Positions
<1>3. Elements(s) = [k \in 1 .. s[2] - (s[1] + 1) + 1 |-> A[k + (s[1] + 1) - 1]]
  <2>1. PICK lo \in Nat, hi \in Nat : lo = s[1] + 1 /\ hi = s[2]
    BY <1>1
  <2>2. SubSeq(A, lo, hi) = [k \in 1 .. hi - lo + 1 |-> A[k + lo - 1]]
    BY <1>2
  <2>. QED
    BY <2>1, <2>2 DEF Elements
<1>4. s[2] - (s[1] + 1) + 1 = s[2] - s[1]
  BY <1>1
<1>5. \A k \in 1 .. s[2] - s[1] : k + (s[1] + 1) - 1 \in Positions
  BY <1>1 DEF Positions
<1>6. Elements(s) \in [1 .. s[2] - s[1] -> MergeValues]
  BY <1>3, <1>4, <1>5
<1>. QED
  BY <1>1, <1>6 DEF Size, SeqOf

LEMMA WrittenIs ==
  ASSUME A \in [Positions -> MergeValues], NEW s \in Segments, NEW e \in SeqOf(Size(s))
  PROVE  Written(s, e) \in [Positions -> MergeValues]
<1>1. s[1] \in 0 .. NMerge /\ s[2] \in 0 .. NMerge /\ s[1] <= s[2]
  BY DEF Segments
<1>2. \A p \in s[1] + 1 .. s[2] : p - s[1] \in 1 .. s[2] - s[1]
  BY <1>1
<1>3. \A p \in s[1] + 1 .. s[2] : e[p - s[1]] \in MergeValues
  BY <1>2 DEF SeqOf, Size
<1>. QED
  BY <1>3 DEF Written

LEMMA InsertedIs ==
  ASSUME NEW n \in Nat, NEW e \in SeqOf(n), NEW key \in MergeValues
  PROVE  Inserted(e, key) \in SeqOf(n + 1)
<1>1. Len(e) = n
  BY SeqOfIs
<1>. DEFINE Stays(p) == \E q \in p .. n : e[q] <= key
            elem(p) == IF p <= n /\ Stays(p) THEN e[p]
                       ELSE IF p = 1 \/ Stays(p - 1) THEN key
                       ELSE e[p - 1]
<1>2. Inserted(e, key) = [p \in 1 .. n + 1 |-> elem(p)]
  BY <1>1 DEF Inserted
<1>3. ASSUME NEW p \in 1 .. n + 1
      PROVE  elem(p) \in MergeValues
  <2>. HIDE DEF Stays
  <2>1. CASE p <= n /\ Stays(p)
    BY <2>1 DEF SeqOf
  <2>2. CASE ~ (p <= n /\ Stays(p)) /\ (p = 1 \/ Stays(p - 1))
    BY <2>2
  <2>3. CASE ~ (p <= n /\ Stays(p)) /\ ~ (p = 1 \/ Stays(p - 1))
    <3>1. p - 1 \in 1 .. n
      BY <2>3
    <3>2. e[p - 1] \in MergeValues
      BY <3>1 DEF SeqOf
    <3>. QED
      BY <2>3, <3>2
  <2>. QED
    BY <2>1, <2>2, <2>3
<1>. HIDE DEF elem
<1>4. [p \in 1 .. n + 1 |-> elem(p)] \in [1 .. n + 1 -> MergeValues]
  BY <1>3
<1>. QED
  BY <1>2, <1>4 DEF SeqOf

\* Sorting keeps the length and the kind of the elements.
LEMMA SortedIs ==
  ASSUME NEW n \in Nat, NEW e \in SeqOf(n)
  PROVE  Sorted(e) \in SeqOf(n)
<1>1. Len(e) = n
  BY SeqOfIs
<1>. DEFINE Body(f) == [k \in 0 .. n |-> IF k = 0 THEN <<>> ELSE Inserted(f[k - 1], e[k])]
            sorted == CHOOSE f : f = Body(f)
            All == UNION {SeqOf(k) : k \in Nat}
            step == [c \in (1 .. n) \X All |-> Inserted(c[2], e[c[1]])]
<1>2. Sorted(e) = sorted[n]
  BY <1>1 DEF Sorted
<1>3. <<>> \in SeqOf(0) /\ <<>> \in All
  BY DEF SeqOf
<1>4. step \in [(1 .. n) \X All -> All]
  <2>1. ASSUME NEW c \in (1 .. n) \X All
        PROVE  Inserted(c[2], e[c[1]]) \in All
    <3>1. PICK m \in Nat : c[2] \in SeqOf(m)
      OBVIOUS
    <3>2. e[c[1]] \in MergeValues
      BY DEF SeqOf
    <3>3. Inserted(c[2], e[c[1]]) \in SeqOf(m + 1)
      <4>. HIDE DEF All
      <4>. QED
        BY <3>1, <3>2, InsertedIs
    <3>. QED
      BY <3>3
  <2>. HIDE DEF All
  <2>. QED
    BY <2>1
<1>5. PICK f : Recurs(f, n, All, <<>>, step)
  <2>. HIDE DEF All, step
  <2>. QED
    BY <1>3, <1>4, Recursion
<1>6. f = Body(f)
  <2>1. f \in [0 .. n -> All] /\ f[0] = <<>> /\ \A k \in 1 .. n : f[k] = step[<<k, f[k - 1]>>]
    BY <1>5 DEF Recurs
  <2>2. ASSUME NEW k \in 1 .. n
        PROVE  f[k] = Inserted(f[k - 1], e[k])
    <3>1. <<k, f[k - 1]>> \in (1 .. n) \X All
      <4>1. k - 1 \in 0 .. n
        OBVIOUS
      <4>. HIDE DEF All
      <4>. QED
        BY <2>1, <4>1
    <3>. DEFINE c == <<k, f[k - 1]>>
    <3>2. c \in (1 .. n) \X All /\ c[1] = k /\ c[2] = f[k - 1] /\ f[k] = step[c]
      BY <2>1, <3>1
    <3>. HIDE DEF c, All
    <3>. QED
      BY <3>2
  <2>3. \A k \in 0 .. n : f[k] = IF k = 0 THEN <<>> ELSE Inserted(f[k - 1], e[k])
    BY <2>1, <2>2
  <2>. HIDE DEF All
  <2>. QED
    BY <2>1, <2>3
<1>7. sorted = Body(sorted)
  <2>. HIDE DEF Body
  <2>. QED
    BY <1>6
<1>8. /\ sorted[0] = <<>>
      /\ \A k \in 1 .. n : sorted[k] = Inserted(sorted[k - 1], e[k])
  <2>1. \A k \in 0 .. n : sorted[k] = IF k = 0 THEN <<>> ELSE Inserted(sorted[k - 1], e[k])
    <3>. HIDE DEF sorted
    <3>. QED
      BY <1>7
  <2>. HIDE DEF sorted
  <2>. QED
    BY <2>1
<1>. HIDE DEF sorted
<1>. DEFINE T == {k \in Nat : sorted[k] \in SeqOf(k)}
<1>9. 0 \in T
  BY <1>3, <1>8
<1>10. ASSUME NEW k \in 1 .. n, k - 1 \in T
       PROVE  k \in T
  <2>1. sorted[k - 1] \in SeqOf(k - 1) /\ k - 1 \in Nat /\ (k - 1) + 1 = k
    BY <1>10
  <2>2. e[k] \in MergeValues
    BY DEF SeqOf
  <2>3. Inserted(sorted[k - 1], e[k]) \in SeqOf((k - 1) + 1)
    BY <2>1, <2>2, InsertedIs
  <2>. QED
    BY <1>8, <2>1, <2>3
<1>11. 0 .. n \subseteq T
  <2>. HIDE DEF T
  <2>. QED
    BY <1>9, <1>10, UpTo
<1>. QED
  BY <1>2, <1>11

\* So does merging.
LEMMA MergeIs ==
  ASSUME NEW m \in Nat, NEW n \in Nat, NEW L \in SeqOf(m), NEW R \in SeqOf(n)
  PROVE  Merge(L, R) \in SeqOf(m + n)
<1>1. Len(L) = m /\ Len(R) = n
  BY SeqOfIs
<1>. DEFINE More(k, c) == IF TakesLeft(L, R, c, k - 1) THEN 1 ELSE 0
            Body(f) == [k \in 0 .. m + n |-> IF k = 0 THEN 0 ELSE f[k - 1] + More(k, f[k - 1])]
            left == CHOOSE f : f = Body(f)
            step == [c \in (1 .. m + n) \X Nat |-> c[2] + More(c[1], c[2])]
<1>2. Merge(L, R) = [k \in 1 .. m + n |-> IF left[k] > left[k - 1] THEN L[left[k]] ELSE R[k - left[k]]]
  BY <1>1 DEF Merge
<1>3. \A k, c : More(k, c) \in {0, 1}
  OBVIOUS
<1>. HIDE DEF More
<1>4. step \in [(1 .. m + n) \X Nat -> Nat]
  BY <1>3
<1>5. PICK f : Recurs(f, m + n, Nat, 0, step)
  <2>. HIDE DEF step
  <2>1. m + n \in Nat /\ 0 \in Nat
    OBVIOUS
  <2>. QED
    BY <1>4, <2>1, Recursion
<1>6. f = Body(f)
  <2>1. f \in [0 .. m + n -> Nat] /\ f[0] = 0 /\ \A k \in 1 .. m + n : f[k] = step[<<k, f[k - 1]>>]
    BY <1>5 DEF Recurs
  <2>2. ASSUME NEW k \in 1 .. m + n
        PROVE  f[k] = f[k - 1] + More(k, f[k - 1])
    <3>1. <<k, f[k - 1]>> \in (1 .. m + n) \X Nat
      BY <2>1
    <3>. DEFINE c == <<k, f[k - 1]>>
    <3>2. c \in (1 .. m + n) \X Nat /\ c[1] = k /\ c[2] = f[k - 1] /\ f[k] = step[c]
      BY <2>1, <3>1
    <3>. HIDE DEF c
    <3>. QED
      BY <3>2
  <2>3. \A k \in 0 .. m + n : f[k] = IF k = 0 THEN 0 ELSE f[k - 1] + More(k, f[k - 1])
    BY <2>1, <2>2
  <2>. QED
    BY <2>1, <2>3
<1>7. left = Body(left)
  <2>. HIDE DEF Body
  <2>. QED
    BY <1>6
<1>8. /\ left[0] = 0
      /\ \A k \in 1 .. m + n : left[k] = left[k - 1] + More(k, left[k - 1])
  <2>1. \A k \in 0 .. m + n : left[k] = IF k = 0 THEN 0 ELSE left[k - 1] + More(k, left[k - 1])
    <3>. HIDE DEF left
    <3>. QED
      BY <1>7
  <2>. HIDE DEF left
  <2>. QED
    BY <2>1
<1>. HIDE DEF left
<1>. DEFINE T == {k \in Nat : left[k] \in 0 .. m /\ k - left[k] \in 0 .. n}
<1>9. ASSUME NEW k \in 1 .. m + n, k - 1 \in T
      PROVE  /\ k \in T
             /\ (IF left[k] > left[k - 1] THEN L[left[k]] ELSE R[k - left[k]]) \in MergeValues
  <2>. DEFINE c == left[k - 1]
  <2>1. c \in 0 .. m /\ (k - 1) - c \in 0 .. n
    BY <1>9
  <2>2. left[k] = c + More(k, c) /\ More(k, c) \in {0, 1}
    BY <1>3, <1>8
  <2>3. CASE TakesLeft(L, R, c, k - 1)
    <3>1. c < m
      BY <1>1, <2>3 DEF TakesLeft
    <3>2. left[k] = c + 1
      BY <2>2, <2>3 DEF More
    <3>3. left[k] \in 1 .. m /\ k - left[k] \in 0 .. n /\ left[k] > c
      BY <2>1, <3>1, <3>2
    <3>4. L[left[k]] \in MergeValues
      BY <3>3 DEF SeqOf
    <3>. QED
      BY <3>3, <3>4
  <2>4. CASE ~ TakesLeft(L, R, c, k - 1)
    <3>1. left[k] = c
      BY <2>1, <2>2, <2>4 DEF More
    <3>2. c = m \/ (k - 1) - c < n
      BY <1>1, <2>1, <2>4 DEF TakesLeft
    <3>3. (k - 1) - c < n
      BY <2>1, <3>2
    <3>4. left[k] \in 0 .. m /\ k - left[k] \in 1 .. n /\ ~ (left[k] > c)
      BY <2>1, <3>1, <3>3
    <3>5. R[k - left[k]] \in MergeValues
      BY <3>4 DEF SeqOf
    <3>. QED
      BY <3>4, <3>5
  <2>. QED
    BY <2>3, <2>4
<1>10. 0 \in T
  BY <1>8
<1>11. 0 .. m + n \subseteq T
  <2>1. \A k \in 1 .. m + n : k - 1 \in T => k \in T
    BY <1>9
  <2>. HIDE DEF T
  <2>. QED
    BY <1>10, <2>1, UpTo
<1>. DEFINE elem(k) == IF left[k] > left[k - 1] THEN L[left[k]] ELSE R[k - left[k]]
<1>12. ASSUME NEW k \in 1 .. m + n
       PROVE  elem(k) \in MergeValues
  <2>1. k - 1 \in T
    <3>1. k - 1 \in 0 .. m + n
      OBVIOUS
    <3>. HIDE DEF T
    <3>. QED
      BY <1>11, <3>1
  <2>. HIDE DEF T
  <2>. QED
    BY <1>9, <2>1
<1>. HIDE DEF elem
<1>13. [k \in 1 .. m + n |-> elem(k)] \in [1 .. m + n -> MergeValues]
  BY <1>12
<1>14. Merge(L, R) = [k \in 1 .. m + n |-> elem(k)]
  BY <1>2 DEF elem
<1>. QED
  BY <1>13, <1>14 DEF SeqOf

LEMMA HalvesSize ==
  ASSUME NEW s \in Segments
  PROVE  Size(Half(s, 1)) + Size(Half(s, 2)) = Size(s)
<1>1. s[1] \in 0 .. NMerge /\ s[2] \in 0 .. NMerge /\ s[1] <= s[2]
  BY DEF Segments
<1>2. Mid(s) \in Int
  BY <1>1 DEF Mid
<1>3. Half(s, 1) = <<s[1], Mid(s)>> /\ Half(s, 2) = <<Mid(s), s[2]>>
  BY DEF Half
<1>4. Size(Half(s, 1)) = Mid(s) - s[1] /\ Size(Half(s, 2)) = s[2] - Mid(s)
  BY <1>3 DEF Size
<1>. QED
  BY <1>1, <1>2, <1>4 DEF Size

----------------------------------------------------------------------------
(* The other types. *)

\* A merge in its second half has as many elements as its segment.
ArrayTypes ==
  /\ A \in [Positions -> MergeValues] /\ A0 \in [Positions -> MergeValues]
  /\ buf \in [Workers -> Seq(MergeValues)]
  /\ \A w \in Workers : wpc[w] = "write" => buf[w] \in SeqOf(Size(seg[w]))

Bounds ==
  /\ Len(queue) <= Capacity
  /\ sem_ready \in Nat
  /\ stops \in 0 .. Cardinality(Workers)
  /\ mpc = "poststop" => stops < Cardinality(Workers)

TypesInv == IInv /\ ArrayTypes /\ Bounds

LEMMA TypesInit == Init => TypesInv
<1>. SUFFICES ASSUME Init
              PROVE  TypesInv
  OBVIOUS
<1>1. IInv
  BY InitIInv
<1>2. ArrayTypes
  BY DEF Init, ArrayTypes
<1>3. Cardinality(Workers) \in Nat
  BY FS_CardinalityType
<1>4. Bounds
  BY <1>3 DEF Init, QueueInit, Bounds
<1>. QED
  BY <1>1, <1>2, <1>4 DEF TypesInv

LEMMA ArrayWorker ==
  ASSUME TypesInv, NEW w \in Workers, Worker(w)
  PROVE  ArrayTypes'
<1>1. /\ wpc \in [Workers -> WorkerStates] /\ seg \in [Workers -> Segments]
      /\ half \in [Workers -> {1, 2}]
  BY DEF TypesInv, IInv, ControlTypes
<1>2. /\ A \in [Positions -> MergeValues] /\ A0 \in [Positions -> MergeValues]
      /\ buf \in [Workers -> Seq(MergeValues)]
      /\ \A v \in Workers : wpc[v] = "write" => buf[v] \in SeqOf(Size(seg[v]))
  BY DEF TypesInv, ArrayTypes
<1>3. seg[w] \in Segments /\ Size(seg[w]) \in Nat
  BY <1>1, <1>2, SegmentElements
\* The buffers are left alone, and nobody comes to write.
<1>4. ASSUME UNCHANGED <<A0, buf>>, A' \in [Positions -> MergeValues],
             \A v \in Workers : wpc'[v] = "write" => wpc[v] = "write" /\ seg'[v] = seg[v]
      PROVE  ArrayTypes'
  BY <1>2, <1>4 DEF ArrayTypes
<1>5. CASE WaitTask(w)
  <2>1. \A v \in Workers : wpc'[v] = "write" => wpc[v] = "write" /\ seg'[v] = seg[v]
    BY <1>1, <1>5 DEF WaitTask, At
  <2>. QED
    BY <1>2, <1>4, <1>5, <2>1 DEF WaitTask
<1>6. CASE TakeTask(w)
  <2>1. \A v \in Workers : wpc'[v] = "write" => wpc[v] = "write" /\ seg'[v] = seg[v]
    BY <1>1, <1>6 DEF TakeTask, At
  <2>. QED
    BY <1>2, <1>4, <1>6, <2>1 DEF TakeTask
<1>7. CASE SortSmall(w)
  <2>1. \A v \in Workers : wpc'[v] = "write" => wpc[v] = "write" /\ seg'[v] = seg[v]
    BY <1>1, <1>7 DEF SortSmall, At
  <2>2. A' \in [Positions -> MergeValues]
    BY <1>2, <1>3, <1>7, SegmentElements, SortedIs, WrittenIs DEF SortSmall
  <2>. QED
    BY <1>4, <1>7, <2>1, <2>2 DEF SortSmall
<1>8. CASE CountHalves(w)
  <2>1. \A v \in Workers : wpc'[v] = "write" => wpc[v] = "write" /\ seg'[v] = seg[v]
    BY <1>1, <1>8 DEF CountHalves, At
  <2>. QED
    BY <1>2, <1>4, <1>8, <2>1 DEF CountHalves
<1>9. CASE DispatchQueued(w)
  <2>1. \A v \in Workers : wpc'[v] = "write" => wpc[v] = "write" /\ seg'[v] = seg[v]
    BY <1>1, <1>9 DEF DispatchQueued, At
  <2>. QED
    BY <1>2, <1>4, <1>9, <2>1 DEF DispatchQueued
<1>10. CASE PostTask(w)
  <2>1. \A v \in Workers : wpc'[v] = "write" => wpc[v] = "write" /\ seg'[v] = seg[v]
    BY <1>1, <1>10 DEF PostTask, Dispatched
  <2>. QED
    BY <1>2, <1>4, <1>10, <2>1 DEF PostTask
<1>11. CASE DispatchInline(w)
  <2>1. \A v \in Workers : wpc'[v] = "write" => wpc[v] = "write" /\ seg'[v] = seg[v]
    BY <1>1, <1>11 DEF DispatchInline, Dispatched
  <2>2. PICK s \in Segments : A' = Written(s, Sorted(Elements(s)))
    <3>1. half[w] \in {1, 2}
      BY <1>1
    <3>. QED
      BY <1>3, <1>11, <3>1, HalfShape DEF DispatchInline
  <2>3. A' \in [Positions -> MergeValues]
    BY <1>2, <2>2, SegmentElements, SortedIs, WrittenIs
  <2>. QED
    BY <1>4, <1>11, <2>1, <2>3 DEF DispatchInline
<1>12. CASE MergeRead(w)
  <2>. DEFINE first == Half(seg[w], 1)
              second == Half(seg[w], 2)
              merged == Merge(Elements(first), Elements(second))
  <2>1. first \in Segments /\ second \in Segments
    BY <1>3, HalfShape
  <2>2. Size(first) + Size(second) = Size(seg[w])
    BY <1>3, HalvesSize
  <2>. HIDE DEF first, second
  <2>3. merged \in SeqOf(Size(seg[w]))
    BY <1>2, <2>1, <2>2, SegmentElements, MergeIs
  <2>4. merged \in Seq(MergeValues)
    BY <1>3, <2>3, SeqOfIs
  <2>5. buf' = [buf EXCEPT ![w] = merged] /\ UNCHANGED <<A, A0, seg>> /\ wpc' = [wpc EXCEPT ![w] = "write"]
    BY <1>12 DEF MergeRead, At, first, second
  <2>. HIDE DEF merged
  <2>6. buf' \in [Workers -> Seq(MergeValues)]
    BY <1>2, <2>4, <2>5
  <2>7. \A v \in Workers : wpc'[v] = "write" => buf'[v] \in SeqOf(Size(seg'[v]))
    BY <1>1, <1>2, <2>3, <2>5
  <2>. QED
    BY <1>2, <2>5, <2>6, <2>7 DEF ArrayTypes
<1>13. CASE MergeWrite(w)
  <2>1. buf[w] \in SeqOf(Size(seg[w]))
    BY <1>2, <1>13 DEF MergeWrite, At
  <2>2. A' \in [Positions -> MergeValues]
    BY <1>2, <1>3, <1>13, <2>1, WrittenIs DEF MergeWrite
  <2>3. buf' = [buf EXCEPT ![w] = <<>>] /\ UNCHANGED <<A0, seg>> /\ wpc' = [wpc EXCEPT ![w] = "finish"]
    BY <1>13 DEF MergeWrite, At
  <2>4. buf' \in [Workers -> Seq(MergeValues)]
    BY <1>2, <2>3
  <2>5. \A v \in Workers : wpc'[v] = "write" => buf'[v] \in SeqOf(Size(seg'[v]))
    BY <1>1, <1>2, <2>3
  <2>. QED
    BY <1>2, <2>2, <2>3, <2>4, <2>5 DEF ArrayTypes
<1>14. CASE FinishTask(w)
  <2>1. \A v \in Workers : wpc'[v] = "write" => wpc[v] = "write" /\ seg'[v] = seg[v]
    BY <1>1, <1>14 DEF FinishTask, At
  <2>. QED
    BY <1>2, <1>4, <1>14, <2>1 DEF FinishTask
<1>. QED
  BY <1>5, <1>6, <1>7, <1>8, <1>9, <1>10, <1>11, <1>12, <1>13, <1>14 DEF Worker

LEMMA BoundsWorker ==
  ASSUME TypesInv, NEW w \in Workers, Worker(w)
  PROVE  Bounds'
<1>1. queue \in Seq(Segments \cup {Stop}) /\ half[w] \in {1, 2} /\ seg[w] \in Segments
  BY DEF TypesInv, IInv, ControlTypes
<1>2. Half(seg[w], half[w]) \in Segments \cup {Stop}
  BY <1>1, HalfShape
<1>3. Len(queue') <= Capacity /\ sem_ready' \in Nat
  <2>1. CASE WaitTask(w) \/ PostTask(w)
    BY <2>1 DEF WaitTask, PostTask, Acquire, Post, TypesInv, Bounds
  <2>2. CASE TakeTask(w)
    BY <1>1, <2>2 DEF TakeTask, Dequeue, TypesInv, Bounds
  <2>3. CASE DispatchQueued(w)
    <3>1. Len(queue') = Len(queue) + 1 /\ Len(queue) \in Nat
      BY <1>1, <1>2, <2>3 DEF DispatchQueued, Enqueue
    <3>. QED
      BY <2>3, <3>1 DEF DispatchQueued, Enqueue, HasRoom, TypesInv, Bounds
  <2>4. CASE SortSmall(w) \/ CountHalves(w) \/ DispatchInline(w) \/ MergeRead(w) \/ MergeWrite(w)
               \/ FinishTask(w)
    BY <2>4 DEF SortSmall, CountHalves, DispatchInline, MergeRead, MergeWrite, FinishTask,
       queueVars, TypesInv, Bounds
  <2>. QED
    BY <2>1, <2>2, <2>3, <2>4 DEF Worker
<1>4. UNCHANGED stops /\ (mpc' = mpc \/ mpc' = "await")
  BY DEF Worker, WaitTask, TakeTask, SortSmall, CountHalves, DispatchQueued, PostTask,
     DispatchInline, MergeRead, MergeWrite, FinishTask, mainVars
<1>. QED
  BY <1>3, <1>4 DEF TypesInv, Bounds

LEMMA TypesMain ==
  ASSUME TypesInv, Main \/ SpuriousWakeup
  PROVE  ArrayTypes' /\ Bounds'
<1>0. Cardinality(Workers) \in Nat
  BY FS_CardinalityType
<1>1. UNCHANGED <<A, A0, wpc, seg, half, buf>>
  BY DEF Main, CountFirst, PushFirst, PostFirst, AwaitDone, PushStop, PostStop, Join,
     SpuriousWakeup, workerVars
<1>2. ArrayTypes'
  BY <1>1 DEF TypesInv, ArrayTypes
<1>3. queue \in Seq(Segments \cup {Stop})
  BY DEF TypesInv, IInv, ControlTypes
<1>4. CASE CountFirst \/ AwaitDone \/ Join \/ SpuriousWakeup
  BY <1>2, <1>4 DEF CountFirst, AwaitDone, Join, SpuriousWakeup, MainAt, queueVars, TypesInv, Bounds
<1>5. CASE PostFirst \/ PostStop
  BY <1>0, <1>2, <1>5 DEF PostFirst, PostStop, MainAt, Post, TypesInv, Bounds
<1>6. CASE PushFirst
  <2>1. Len(queue') = Len(queue) + 1 /\ Len(queue) \in Nat
    BY <1>3, <1>6, WholeSegment DEF PushFirst, Enqueue
  <2>. QED
    BY <1>2, <1>6, <2>1 DEF PushFirst, MainAt, Enqueue, HasRoom, TypesInv, Bounds
<1>7. CASE PushStop
  <2>1. CASE Enqueue(Stop) /\ mpc' = "poststop" /\ UNCHANGED stops
    <3>1. Len(queue') = Len(queue) + 1 /\ Len(queue) \in Nat
      BY <1>3, <2>1 DEF Enqueue
    <3>. QED
      BY <1>2, <1>7, <2>1, <3>1 DEF PushStop, Enqueue, HasRoom, TypesInv, Bounds
  <2>2. CASE stops' = stops + 1 /\ UNCHANGED <<mpc, queueVars>>
    BY <1>0, <1>2, <1>7, <2>2 DEF PushStop, queueVars, TypesInv, Bounds
  <2>. QED
    BY <1>7, <2>1, <2>2 DEF PushStop
<1>8. Bounds'
  BY <1>4, <1>5, <1>6, <1>7 DEF Main
<1>. QED
  BY <1>2, <1>8

LEMMA TypesNext == TypesInv /\ [Next]_vars => TypesInv'
<1>. SUFFICES ASSUME TypesInv, [Next]_vars
              PROVE  TypesInv'
  OBVIOUS
<1>1. IInv'
  BY NextIInv DEF TypesInv
<1>2. CASE Next
  BY <1>1, <1>2, ArrayWorker, BoundsWorker, TypesMain DEF Next, TypesInv
<1>3. CASE UNCHANGED vars
  BY <1>1, <1>3 DEF vars, queueVars, workerVars, mainVars, TypesInv, ArrayTypes, Bounds
<1>. QED
  BY <1>2, <1>3

LEMMA TypesResult == TypesInv => TypeOK
BY DEF TypesInv, IInv, ControlTypes, ArrayTypes, Bounds, WorkerStates, Idle, TypeOK

\* Every variable keeps a value of its type: what the workers write back to the array
\* has the length of the segment they write to (insertion_sort, merge), the ring never
\* holds more than it has room for, and main pushes no stop segment too many.
THEOREM TypesHold == Spec => []TypeOK
<1>1. QED
  BY TypesInit, TypesNext, TypesResult, PTL DEF Spec
=============================================================================
