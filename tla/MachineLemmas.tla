----------------------------- MODULE MachineLemmas ------------------------------
(***************************************************************************)
(* Of the programs that MCMachines composes: lemmas that their proofs      *)
(* share, and the invariants of the two searches (the placements of        *)
(* chess.cpp, the grids of Island.cpp) and of the comment remover.  What   *)
(* follows from them is in MachinesProofs.  Induction comes from           *)
(* MyStringProofs.                                                         *)
(***************************************************************************)
EXTENDS MCMachines, FiniteSetTheorems, TLAPS

SP == INSTANCE MyStringProofs

----------------------------------------------------------------------------
(* Lemmas of MyStringProofs. *)

\* What the instance's lemmas assume is assumed here.
LEMMA SameConstants ==
  /\ \A p : IsPuzzle(p) <=> SP!IsPuzzle(p)
  /\ \A t : IsCFile(t) <=> SP!IsCFile(t)
  /\ Other = SP!Other
BY DEF IsPuzzle, SP!IsPuzzle, IsCFile, SP!IsCFile, Other, SP!Other

\* What holds of 0 and of the successor of every number that it holds of.
LEMMA Induction ==
  ASSUME NEW S, 0 \in S, \A n \in Nat : n \in S => n + 1 \in S
  PROVE  Nat \subseteq S
BY SP!Induction, SameConstants, ConsoleAssumption, ConvertAssumption, DateAssumption,
   SearchAssumption,
   StringAssumption, FilesAssumption, PuzzlesAssumption, DormitoryAssumption, CFilesAssumption,
       Zenon
   DEF ConsoleAssumption, ConvertAssumption, DateAssumption, SearchAssumption,
   StringAssumption, FilesAssumption, PuzzlesAssumption, DormitoryAssumption, CFilesAssumption

\* A function can be iterated.
LEMMA Iterates ==
  ASSUME NEW A, NEW start \in A, NEW step \in [A -> A], NEW n \in Nat
  PROVE  \E f : SP!AreIterates(f, A, start, step, n)
BY SP!Iterates, SameConstants, ConsoleAssumption, ConvertAssumption, DateAssumption,
   SearchAssumption,
   StringAssumption, FilesAssumption, PuzzlesAssumption, DormitoryAssumption, CFilesAssumption,
       Zenon
   DEF ConsoleAssumption, ConvertAssumption, DateAssumption, SearchAssumption,
   StringAssumption, FilesAssumption, PuzzlesAssumption, DormitoryAssumption, CFilesAssumption

\* A set of numbers has a least one.
LEMMA LeastElement ==
  ASSUME NEW S \in SUBSET Nat, S # {}
  PROVE  \E n \in S : \A m \in S : n <= m
BY SP!LeastElement, SameConstants, ConsoleAssumption, ConvertAssumption, DateAssumption,
   SearchAssumption,
   StringAssumption, FilesAssumption, PuzzlesAssumption, DormitoryAssumption, CFilesAssumption,
       Zenon
   DEF ConsoleAssumption, ConvertAssumption, DateAssumption, SearchAssumption,
   StringAssumption, FilesAssumption, PuzzlesAssumption, DormitoryAssumption, CFilesAssumption

\* A function on 0 .. n can be defined by its first value and by every next one from
\* the one before it.
Recurs(f, n, A, start, step) ==
  /\ f \in [0 .. n -> A] /\ f[0] = start
  /\ \A k \in 1 .. n : f[k] = step[<<k, f[k - 1]>>]

LEMMA Recursion ==
  ASSUME NEW n \in Nat, NEW A, NEW start \in A, NEW step \in [(1 .. n) \X A -> A]
  PROVE  \E f : Recurs(f, n, A, start, step)
<1>. DEFINE Good(f, m) == f[0] = start /\ \A k \in 1 .. m : f[k] = step[<<k, f[k - 1]>>]
            S == {m \in Nat : m <= n => \E f \in [0 .. m -> A] : Good(f, m)}
<1>1. 0 \in S
  <2>1. [k \in 0 .. 0 |-> start] \in [0 .. 0 -> A] /\ Good([k \in 0 .. 0 |-> start], 0)
    OBVIOUS
  <2>. QED
    BY <2>1
<1>2. ASSUME NEW m \in Nat, m \in S
      PROVE  m + 1 \in S
  <2>. SUFFICES ASSUME m + 1 <= n
                PROVE  \E f \in [0 .. m + 1 -> A] : Good(f, m + 1)
    OBVIOUS
  <2>1. PICK f \in [0 .. m -> A] : Good(f, m)
    BY <1>2
  <2>2. f[m] \in A /\ <<m + 1, f[m]>> \in (1 .. n) \X A
    OBVIOUS
  <2>3. PICK g : g = [k \in 0 .. m + 1 |-> IF k = m + 1 THEN step[<<m + 1, f[m]>>] ELSE f[k]]
    OBVIOUS
  <2>4. step[<<m + 1, f[m]>>] \in A
    BY <2>2
  <2>5. g \in [0 .. m + 1 -> A]
    BY <2>3, <2>4
  <2>6. g[m + 1] = step[<<m + 1, f[m]>>] /\ \A k \in 0 .. m : g[k] = f[k]
    BY <2>3
  <2>7. ASSUME NEW k \in 1 .. m + 1
        PROVE  g[k] = step[<<k, g[k - 1]>>]
    <3>1. k - 1 \in 0 .. m /\ g[k - 1] = f[k - 1]
      BY <2>6
    <3>2. CASE k = m + 1
      BY <2>6, <3>1, <3>2
    <3>3. CASE k # m + 1
      <4>1. k \in 1 .. m /\ k \in 0 .. m
        BY <3>3
      <4>. QED
        BY <2>1, <2>6, <3>1, <4>1
    <3>. QED
      BY <3>2, <3>3
  <2>8. g[0] = start
    BY <2>1, <2>6
  <2>. QED
    BY <2>5, <2>7, <2>8
<1>3. Nat \subseteq S
  <2>. HIDE DEF S
  <2>. QED
    BY <1>1, <1>2, Induction
<1>4. PICK f \in [0 .. n -> A] : Good(f, n)
  BY <1>3
<1>. QED
  BY <1>4 DEF Recurs

\* What holds of the first value and of every next one.
LEMMA UpTo ==
  ASSUME NEW n \in Nat, NEW S, 0 \in S, \A k \in 1 .. n : k - 1 \in S => k \in S
  PROVE  0 .. n \subseteq S
<1>. DEFINE T == {k \in Nat : k <= n => k \in S}
<1>1. 0 \in T
  OBVIOUS
<1>2. ASSUME NEW k \in Nat, k \in T
      PROVE  k + 1 \in T
  <2>1. CASE k + 1 <= n
    <3>1. k + 1 \in 1 .. n /\ (k + 1) - 1 = k /\ k \in S
      BY <1>2, <2>1
    <3>. QED
      BY <3>1
  <2>. QED
    BY <2>1
<1>3. Nat \subseteq T
  <2>. HIDE DEF T
  <2>. QED
    BY <1>1, <1>2, Induction
<1>. QED
  BY <1>3

\* Division with a rest.
LEMMA DivModInt ==
  ASSUME NEW a \in Int, NEW d \in Int, d > 0
  PROVE  a % d \in 0 .. d - 1 /\ a \div d \in Int /\ a = d * (a \div d) + (a % d)
OBVIOUS

LEMMA DivMod ==
  ASSUME NEW a \in Nat, NEW d \in Nat \ {0}
  PROVE  a = d * (a \div d) + (a % d) /\ a % d \in 0 .. d - 1 /\ a \div d \in Nat
<1>1. a \in Int /\ d \in Int /\ d > 0
  OBVIOUS
<1>2. a % d \in 0 .. d - 1 /\ a \div d \in Int /\ a = d * (a \div d) + (a % d)
  BY <1>1, DivModInt
<1>3. a \div d \in Int /\ a % d \in 0 .. d - 1
  BY <1>2
<1>4. PICK q \in Int : q = a \div d
  BY <1>3
<1>5. PICK r \in 0 .. d - 1 : r = a % d
  BY <1>3
<1>6. a = d * q + r
  BY <1>2, <1>4, <1>5
<1>7. q >= 0
  <2>1. CASE q <= -1
    <3>1. d * (-q) >= d
      BY <2>1
    <3>. QED
      BY <1>6, <3>1
  <2>. QED
    BY <2>1
<1>. QED
  BY <1>2, <1>4, <1>7

LEMMA DivUnique ==
  ASSUME NEW d \in Nat \ {0}, NEW p \in Nat, NEW q \in Nat,
         NEW r \in 0 .. d - 1, NEW s \in 0 .. d - 1, d * p + r = d * q + s
  PROVE  p = q /\ r = s
<1>1. CASE p > q
  <2>1. d * (p - q) >= d
    BY <1>1
  <2>. QED
    BY <2>1
<1>2. CASE q > p
  <2>1. d * (q - p) >= d
    BY <1>2
  <2>. QED
    BY <2>1
<1>. QED
  BY <1>1, <1>2

----------------------------------------------------------------------------
(* chess.cpp: the placements and the jobs. *)

LEMMA SearchCounts == \A S : Search!Cardinality(S) = Cardinality(S)
BY DEF Search!Cardinality, Cardinality

\* A board: its cells are in rows and columns, one in each.
SearchIsBoard == N \in Nat \ {0} /\ L \in Nat \ {0}

LEMMA SearchCellIs ==
  ASSUME SearchIsBoard, NEW a \in Search!Cells
  PROVE  /\ a \in Nat /\ a < N * N
         /\ a \div N \in 0 .. N - 1 /\ a % N \in 0 .. N - 1 /\ a = N * (a \div N) + (a % N)
<1>1. N * N \in Nat /\ a \in Nat /\ a < N * N /\ N \in Nat \ {0}
  BY DEF SearchIsBoard, Search!Cells
<1>2. PICK r \in Nat : r = a \div N
  BY <1>1, DivMod
<1>3. PICK q \in 0 .. N - 1 : q = a % N
  BY <1>1, DivMod
<1>4. a = N * r + q
  BY <1>1, <1>2, <1>3, DivMod
<1>5. r < N
  <2>1. CASE r >= N
    <3>1. N * r >= N * N
      BY <1>1, <1>2, <2>1
    <3>. QED
      BY <1>1, <1>3, <1>4, <3>1
  <2>. QED
    BY <1>1, <2>1
<1>. QED
  BY <1>1, <1>2, <1>3, <1>4, <1>5

LEMMA SearchDistanceIs ==
  ASSUME NEW m \in Nat, NEW n \in Nat
  PROVE  Search!Distance(m, n) \in Nat /\ (Search!Distance(m, n) = n - m \/ Search!Distance(m, n) = -(n - m))
<1>1. CASE m < n
  <2>1. Search!Distance(m, n) = n - m
    BY <1>1 DEF Search!Distance
  <2>. QED
    BY <1>1, <2>1
<1>2. CASE ~(m < n)
  <2>1. Search!Distance(m, n) = m - n
    BY <1>2 DEF Search!Distance
  <2>. QED
    BY <1>2, <2>1
<1>. QED
  BY <1>1, <1>2

\* The moves of dK and d1 are those to a cell that is attacked.
LEMMA SearchMovesAre ==
  ASSUME NEW r \in Nat, NEW s \in Nat, NEW p \in Nat, NEW q \in Nat
  PROVE  <<s - r, q - p>> \in Search!dK \cup Search!d1
      <=> {Search!Distance(r, s), Search!Distance(p, q)} \in {{0, 1}, {1}, {1, 2}}
<1>1. PICK y \in Int : y = s - r
  OBVIOUS
<1>2. PICK x \in Int : x = q - p
  OBVIOUS
<1>3. PICK v \in Nat : v = Search!Distance(r, s) /\ (v = y \/ v = -y)
  BY <1>1, SearchDistanceIs
<1>4. PICK h \in Nat : h = Search!Distance(p, q) /\ (h = x \/ h = -x)
  BY <1>2, SearchDistanceIs
<1>5. {v, h} \in {{0, 1}, {1}, {1, 2}}
        <=> (v = 0 /\ h = 1) \/ (v = 1 /\ h = 0) \/ (v = 1 /\ h = 1) \/ (v = 1 /\ h = 2) \/ (v = 2 /\ h = 1)
  <2>1. {v, h} = {0, 1} <=> (v = 0 /\ h = 1) \/ (v = 1 /\ h = 0)
    OBVIOUS
  <2>2. {v, h} = {1} <=> v = 1 /\ h = 1
    OBVIOUS
  <2>3. {v, h} = {1, 2} <=> (v = 1 /\ h = 2) \/ (v = 2 /\ h = 1)
    OBVIOUS
  <2>. QED
    BY <2>1, <2>2, <2>3
<1>6. <<y, x>> \in Search!d1
        <=> \/ y = -1 /\ x \in {-1, 0, 1}
            \/ y = 0 /\ x \in {-1, 1}
            \/ y = 1 /\ x \in {-1, 0, 1}
  BY DEF Search!d1
<1>7. <<y, x>> \in Search!dK
        <=> \/ y \in {-1, 1} /\ x \in {-2, 2}
            \/ y \in {-2, 2} /\ x \in {-1, 1}
  BY DEF Search!dK
<1>8. <<y, x>> \in Search!dK \cup Search!d1
        <=> (v = 0 /\ h = 1) \/ (v = 1 /\ h = 0) \/ (v = 1 /\ h = 1) \/ (v = 1 /\ h = 2) \/ (v = 2 /\ h = 1)
  <2>1. <<y, x>> \in Search!d1 <=> (v = 0 /\ h = 1) \/ (v = 1 /\ h = 0) \/ (v = 1 /\ h = 1)
    BY <1>3, <1>4, <1>6
  <2>2. <<y, x>> \in Search!dK <=> (v = 1 /\ h = 2) \/ (v = 2 /\ h = 1)
    BY <1>3, <1>4, <1>7
  <2>. QED
    BY <2>1, <2>2
<1>. QED
  BY <1>1, <1>2, <1>3, <1>4, <1>5, <1>8

\* build_attacks finds the cells that are attacked.
LEMMA SearchAttackIs ==
  ASSUME SearchIsBoard, NEW a \in Search!Cells, NEW b \in Search!Cells
  PROVE  b \in Search!attack_of(a) <=> Search!Attacks(a, b)
<1>1. N \in Nat \ {0}
  BY DEF SearchIsBoard
<1>2. PICK r \in 0 .. N - 1 : r = a \div N
  BY SearchCellIs
<1>3. PICK p \in 0 .. N - 1 : p = a % N
  BY SearchCellIs
<1>4. PICK s \in 0 .. N - 1 : s = b \div N
  BY SearchCellIs
<1>5. PICK q \in 0 .. N - 1 : q = b % N
  BY SearchCellIs
<1>6. b = N * s + q
  BY <1>4, <1>5, SearchCellIs
<1>7. Search!attack_of(a) = {(r + d[1]) * N + p + d[2] :
                        d \in {d \in Search!dK \cup Search!d1 : r + d[1] \in 0 .. N - 1 /\ p + d[2] \in 0 .. N - 1}}
  BY <1>2, <1>3 DEF Search!attack_of
<1>8. ASSUME NEW d \in Search!dK \cup Search!d1, r + d[1] \in 0 .. N - 1, p + d[2] \in 0 .. N - 1
      PROVE  b = (r + d[1]) * N + p + d[2] <=> d = <<s - r, q - p>>
  <2>1. PICK y \in Int, x \in Int : d = <<y, x>>
    BY DEF Search!dK, Search!d1
  <2>2. PICK s1 \in 0 .. N - 1 : s1 = r + y
    BY <1>8, <2>1
  <2>3. PICK q1 \in 0 .. N - 1 : q1 = p + x
    BY <1>8, <2>1
  <2>4. (r + d[1]) * N + p + d[2] = N * s1 + q1
    BY <1>1, <2>1, <2>2, <2>3
  <2>5. b = N * s1 + q1 <=> s1 = s /\ q1 = q
    <3>1. s \in Nat /\ s1 \in Nat
      BY <1>1
    <3>2. ASSUME N * s + q = N * s1 + q1
          PROVE  s1 = s /\ q1 = q
      BY <1>1, <3>1, <3>2, DivUnique
    <3>. QED
      BY <1>6, <3>2
  <2>6. d = <<s - r, q - p>> <=> y = s - r /\ x = q - p
    BY <2>1
  <2>7. y = s - r /\ x = q - p <=> s1 = s /\ q1 = q
    BY <1>1, <2>2, <2>3
  <2>. QED
    BY <2>4, <2>5, <2>6, <2>7
<1>9. b \in Search!attack_of(a) <=> <<s - r, q - p>> \in Search!dK \cup Search!d1
  <2>1. ASSUME b \in Search!attack_of(a)
        PROVE  <<s - r, q - p>> \in Search!dK \cup Search!d1
    <3>1. PICK d \in Search!dK \cup Search!d1 : /\ r + d[1] \in 0 .. N - 1 /\ p + d[2] \in 0 .. N - 1
                                  /\ b = (r + d[1]) * N + p + d[2]
      BY <1>7, <2>1
    <3>2. d = <<s - r, q - p>>
      BY <1>8, <3>1
    <3>. QED
      BY <3>2
  <2>2. ASSUME <<s - r, q - p>> \in Search!dK \cup Search!d1
        PROVE  b \in Search!attack_of(a)
    <3>1. PICK d \in Search!dK \cup Search!d1 : d = <<s - r, q - p>>
      BY <2>2
    <3>2. r + d[1] = s /\ p + d[2] = q
      BY <1>1, <3>1
    <3>3. b = (r + d[1]) * N + p + d[2]
      BY <1>8, <3>1, <3>2
    <3>. QED
      BY <1>7, <3>2, <3>3
  <2>. QED
    BY <2>1, <2>2
<1>10. Search!Attacks(a, b)
         <=> {Search!Distance(r, s), Search!Distance(p, q)} \in {{0, 1}, {1}, {1, 2}}
  BY <1>2, <1>3, <1>4, <1>5 DEF Search!Attacks
<1>11. r \in Nat /\ s \in Nat /\ p \in Nat /\ q \in Nat
  BY <1>1
<1>12. <<s - r, q - p>> \in Search!dK \cup Search!d1
         <=> {Search!Distance(r, s), Search!Distance(p, q)} \in {{0, 1}, {1}, {1, 2}}
  BY <1>11, SearchMovesAre
<1>. QED
  BY <1>9, <1>10, <1>12

LEMMA SearchAttacksBothWays ==
  ASSUME SearchIsBoard, NEW a \in Search!Cells, NEW b \in Search!Cells
  PROVE  (Search!Attacks(a, b) <=> Search!Attacks(b, a)) /\ ~Search!Attacks(a, a)
<1>1. PICK r \in Nat, p \in Nat : r = a \div N /\ p = a % N
  BY SearchCellIs
<1>2. PICK s \in Nat, q \in Nat : s = b \div N /\ q = b % N
  BY SearchCellIs
<1>3. Search!Distance(r, s) = Search!Distance(s, r) /\ Search!Distance(p, q) = Search!Distance(q, p)
  BY DEF Search!Distance
<1>4. Search!Distance(r, r) = 0 /\ Search!Distance(p, p) = 0
  BY DEF Search!Distance
<1>5. Search!Attacks(a, b) <=> Search!Attacks(b, a)
  BY <1>1, <1>2, <1>3 DEF Search!Attacks
<1>6. ~Search!Attacks(a, a)
  <2>1. {0, 0} \notin {{0, 1}, {1}, {1, 2}}
    OBVIOUS
  <2>. QED
    BY <1>1, <1>4, <2>1 DEF Search!Attacks
<1>. QED
  BY <1>5, <1>6

LEMMA SearchSafeIs ==
  ASSUME SearchIsBoard, NEW occ \in SUBSET Search!Cells, NEW i \in Search!Cells
  PROVE  Search!safe_place(occ, i) <=> i \notin occ /\ \A b \in occ : ~Search!Attacks(i, b)
<1>1. \A b \in occ : b \in Search!Cells /\ (b \in Search!attack_of(i) <=> Search!Attacks(i, b))
  BY SearchAttackIs
<1>. QED
  BY <1>1 DEF Search!safe_place

\* The ways to place the rest of a node's pieces, on cells from nextIdx on.
SearchNodes == [nextIdx : Nat, placed : Nat, occ : SUBSET Search!Cells]

SearchLater(i) == {c \in Search!Cells : c >= i}

SearchApart(placement, occ) ==
  \A a \in placement : a \notin occ /\ \A b \in placement \cup occ : ~Search!Attacks(a, b)

SearchCompletions(node) ==
  {placement \in SUBSET SearchLater(node.nextIdx) :
     Cardinality(placement) = L - node.placed /\ SearchApart(placement, node.occ)}

SearchWeight(node) == Cardinality(SearchCompletions(node))

LEMMA SearchLaterFinite ==
  ASSUME SearchIsBoard, NEW i \in Nat
  PROVE  /\ IsFiniteSet(SearchLater(i)) /\ IsFiniteSet(SUBSET SearchLater(i))
         /\ \A placement \in SUBSET SearchLater(i) : IsFiniteSet(placement) /\ Cardinality(placement) \in Nat
<1>1. N * N - 1 \in Int
  BY DEF SearchIsBoard
<1>2. IsFiniteSet(Search!Cells)
  BY <1>1, FS_Interval DEF Search!Cells
<1>3. SearchLater(i) \in SUBSET Search!Cells
  BY DEF SearchLater
<1>4. IsFiniteSet(SearchLater(i))
  BY <1>2, <1>3, FS_Subset
<1>5. IsFiniteSet(SUBSET SearchLater(i))
  BY <1>4, FS_SUBSET
<1>6. ASSUME NEW placement \in SUBSET SearchLater(i)
      PROVE  IsFiniteSet(placement) /\ Cardinality(placement) \in Nat
  BY <1>4, FS_Subset, FS_CardinalityType
<1>. QED
  BY <1>4, <1>5, <1>6

LEMMA SearchWeightType ==
  ASSUME SearchIsBoard, NEW node \in SearchNodes
  PROVE  IsFiniteSet(SearchCompletions(node)) /\ SearchWeight(node) \in Nat
<1>1. node.nextIdx \in Nat
  BY DEF SearchNodes
<1>2. SearchCompletions(node) \in SUBSET (SUBSET SearchLater(node.nextIdx))
  BY DEF SearchCompletions
<1>3. IsFiniteSet(SearchCompletions(node))
  BY <1>1, <1>2, SearchLaterFinite, FS_Subset
<1>. QED
  BY <1>3, FS_CardinalityType DEF SearchWeight

\* All pieces are placed: there is nothing to choose.
LEMMA SearchWeightFull ==
  ASSUME SearchIsBoard, NEW node \in SearchNodes, node.placed = L
  PROVE  SearchWeight(node) = 1
<1>1. node.nextIdx \in Nat /\ L - node.placed = 0
  BY DEF SearchNodes, SearchIsBoard
<1>2. {} \in SearchCompletions(node)
  BY <1>1, FS_EmptySet DEF SearchCompletions, SearchApart
<1>3. ASSUME NEW placement \in SearchCompletions(node)
      PROVE  placement = {}
  <2>1. placement \in SUBSET SearchLater(node.nextIdx) /\ Cardinality(placement) = 0
    BY <1>1 DEF SearchCompletions
  <2>2. IsFiniteSet(placement)
    BY <1>1, <2>1, SearchLaterFinite
  <2>. QED
    BY <2>1, <2>2, FS_EmptySet
<1>4. SearchCompletions(node) = {{}}
  BY <1>2, <1>3
<1>. QED
  BY <1>4, FS_Singleton DEF SearchWeight

\* No cell is left.
LEMMA SearchWeightLast ==
  ASSUME SearchIsBoard, NEW node \in SearchNodes, node.placed # L, node.nextIdx >= N * N
  PROVE  SearchWeight(node) = 0
<1>1. SearchLater(node.nextIdx) = {}
  BY DEF SearchLater, Search!Cells, SearchNodes, SearchIsBoard
<1>2. L - node.placed # 0
  BY DEF SearchNodes, SearchIsBoard
<1>3. SearchCompletions(node) = {}
  <2>1. ASSUME NEW placement \in SearchCompletions(node)
        PROVE  FALSE
    <3>1. placement = {} /\ Cardinality(placement) = L - node.placed
      BY <1>1, <2>1 DEF SearchCompletions
    <3>. QED
      BY <1>2, <3>1, FS_EmptySet
  <2>. QED
    BY <2>1
<1>. QED
  BY <1>3, FS_EmptySet DEF SearchWeight

\* Either the next piece is on a cell, or it is on a later one.
SearchSkip(node) == [nextIdx |-> node.nextIdx + 1, placed |-> node.placed, occ |-> node.occ]
SearchChild(node, i) == [nextIdx |-> i + 1, placed |-> node.placed + 1, occ |-> node.occ \cup {i}]

LEMMA SearchNodesBelow ==
  ASSUME NEW node \in SearchNodes, NEW i \in Search!Cells, i \in Nat
  PROVE  SearchSkip(node) \in SearchNodes /\ SearchChild(node, i) \in SearchNodes
BY DEF SearchNodes, SearchSkip, SearchChild

LEMMA SearchWithoutCell ==
  ASSUME SearchIsBoard, NEW node \in SearchNodes, node.nextIdx \in Search!Cells
  PROVE  SearchCompletions(SearchSkip(node)) = {placement \in SearchCompletions(node) : node.nextIdx \notin placement}
<1>1. PICK i \in Nat : i = node.nextIdx
  BY DEF SearchNodes
<1>2. SearchLater(i + 1) = SearchLater(i) \ {i}
  BY DEF SearchLater, Search!Cells
<1>3. SearchSkip(node).nextIdx = i + 1 /\ SearchSkip(node).placed = node.placed /\ SearchSkip(node).occ = node.occ
  BY <1>1 DEF SearchSkip
<1>4. SUBSET SearchLater(i + 1) = {placement \in SUBSET SearchLater(i) : i \notin placement}
  BY <1>2
<1>. QED
  BY <1>1, <1>3, <1>4 DEF SearchCompletions

LEMMA SearchWithCell ==
  ASSUME SearchIsBoard, NEW node \in SearchNodes, NEW i \in Search!Cells, i = node.nextIdx,
      Search!safe_place(node.occ, i)
  PROVE  /\ \A Q \in SearchCompletions(SearchChild(node, i)) : i \notin Q /\ Q \cup {i} \in SearchCompletions(node)
         /\ \A P \in SearchCompletions(node) : i \in P
              => P \ {i} \in SearchCompletions(SearchChild(node, i))
<1>1. i \in Nat /\ node.occ \in SUBSET Search!Cells
  BY DEF SearchNodes
<1>2. PICK d \in Int : d = L - node.placed
  BY DEF SearchNodes, SearchIsBoard
<1>3. /\ SearchChild(node, i).nextIdx = i + 1 /\ L - SearchChild(node, i).placed = d - 1
      /\ SearchChild(node, i).occ = node.occ \cup {i}
  BY <1>2 DEF SearchChild, SearchNodes, SearchIsBoard
<1>4. i \notin node.occ /\ \A b \in node.occ : ~Search!Attacks(i, b)
  BY <1>1, SearchSafeIs
<1>5. SearchLater(i + 1) = SearchLater(i) \ {i} /\ i \in SearchLater(i) /\ SearchLater(i) \subseteq Search!Cells
  BY <1>1 DEF SearchLater, Search!Cells
<1>6. \A a \in Search!Cells : (Search!Attacks(i, a) <=> Search!Attacks(a, i)) /\ ~Search!Attacks(a, a)
  BY SearchAttacksBothWays
<1>7. SearchCompletions(node) = {P \in SUBSET SearchLater(i) : Cardinality(P) = d /\ SearchApart(P, node.occ)}
  BY <1>2 DEF SearchCompletions
<1>8. SearchCompletions(SearchChild(node, i)) =
        {P \in SUBSET SearchLater(i + 1) : Cardinality(P) = d - 1 /\ SearchApart(P, node.occ \cup {i})}
  BY <1>3 DEF SearchCompletions
<1>9. ASSUME NEW Q \in SearchCompletions(SearchChild(node, i))
      PROVE  i \notin Q /\ Q \cup {i} \in SearchCompletions(node)
  <2>1. Q \in SUBSET SearchLater(i + 1) /\ Cardinality(Q) = d - 1 /\ SearchApart(Q, node.occ \cup {i})
    BY <1>8
  <2>2. i \notin Q /\ Q \cup {i} \in SUBSET SearchLater(i) /\ Q \in SUBSET SearchLater(i)
    BY <1>5, <2>1
  <2>3. IsFiniteSet(Q)
    BY <1>1, <2>2, SearchLaterFinite
  <2>4. Cardinality(Q \cup {i}) = d
    <3>1. Cardinality(Q \cup {i}) = Cardinality(Q) + 1
      BY <2>2, <2>3, FS_AddElement
    <3>. QED
      BY <2>1, <3>1
  <2>5. ASSUME NEW a \in Q \cup {i}, NEW b \in Q \cup {i} \cup node.occ
        PROVE  a \notin node.occ /\ ~Search!Attacks(a, b)
    <3>1. CASE a \in Q
      BY <2>1, <3>1 DEF SearchApart
    <3>2. CASE a = i /\ b \in Q
      <4>1. ~Search!Attacks(b, i) /\ b \in Search!Cells
        BY <1>5, <2>1, <2>2, <3>2 DEF SearchApart
      <4>. QED
        BY <1>4, <1>6, <3>2, <4>1
    <3>3. CASE a = i /\ b = i
      BY <1>4, <1>6, <3>3
    <3>4. CASE a = i /\ b \in node.occ
      BY <1>4, <3>4
    <3>. QED
      BY <3>1, <3>2, <3>3, <3>4
  <2>6. SearchApart(Q \cup {i}, node.occ)
    BY <2>5 DEF SearchApart
  <2>. QED
    BY <1>7, <2>2, <2>4, <2>6
<1>10. ASSUME NEW P \in SearchCompletions(node), i \in P
       PROVE  P \ {i} \in SearchCompletions(SearchChild(node, i))
  <2>1. P \in SUBSET SearchLater(i) /\ Cardinality(P) = d /\ SearchApart(P, node.occ)
    BY <1>7
  <2>2. P \ {i} \in SUBSET SearchLater(i + 1)
    BY <1>5, <2>1
  <2>3. Cardinality(P \ {i}) = d - 1
    <3>1. IsFiniteSet(P)
      BY <1>1, <2>1, SearchLaterFinite
    <3>2. Cardinality(P \ {i}) = Cardinality(P) - 1
      BY <1>10, <3>1, FS_RemoveElement
    <3>. QED
      BY <2>1, <3>2
  <2>4. SearchApart(P \ {i}, node.occ \cup {i})
    BY <1>10, <2>1 DEF SearchApart
  <2>. QED
    BY <1>8, <2>2, <2>3, <2>4
<1>. QED
  BY <1>9, <1>10

LEMMA SearchWeightStep ==
  ASSUME SearchIsBoard, NEW node \in SearchNodes, NEW i \in Search!Cells, i = node.nextIdx
  PROVE  SearchWeight(node) = SearchWeight(SearchSkip(node))
                          + (IF Search!safe_place(node.occ, i) THEN SearchWeight(SearchChild(node, i)) ELSE 0)
<1>1. PICK C : C = SearchCompletions(node) /\ IsFiniteSet(C) /\ SearchWeight(node) = Cardinality(C)
  BY SearchWeightType DEF SearchWeight
<1>2. PICK W : W = {P \in C : i \in P}
  OBVIOUS
<1>3. SearchCompletions(SearchSkip(node)) = C \ W
  <2>1. C \ W = {P \in C : i \notin P}
    BY <1>2
  <2>. QED
    BY <1>1, <2>1, SearchWithoutCell
<1>4. C \cap W = W /\ W \in SUBSET C
  BY <1>2
<1>5. Cardinality(C) = Cardinality(C \ W) + Cardinality(W)
  <2>1. IsFiniteSet(W) /\ Cardinality(W) \in Nat /\ Cardinality(C) \in Nat
    BY <1>1, <1>4, FS_Subset, FS_CardinalityType
  <2>2. Cardinality(C \ W) = Cardinality(C) - Cardinality(C \cap W)
    BY <1>1, FS_Difference
  <2>3. PICK a \in Nat : a = Cardinality(W)
    BY <2>1
  <2>4. PICK b \in Nat : b = Cardinality(C)
    BY <2>1
  <2>5. Cardinality(C \ W) = b - a
    BY <1>4, <2>2, <2>3, <2>4
  <2>. QED
    BY <2>3, <2>4, <2>5
<1>6. SearchWeight(node) = SearchWeight(SearchSkip(node)) + Cardinality(W)
  BY <1>1, <1>3, <1>5 DEF SearchWeight
<1>7. CASE Search!safe_place(node.occ, i)
  <2>1. PICK D : D = SearchCompletions(SearchChild(node, i))
    OBVIOUS
  <2>2. /\ \A Q \in D : i \notin Q /\ Q \cup {i} \in W
        /\ \A P \in W : i \in P /\ P \ {i} \in D
    BY <1>1, <1>2, <1>7, <2>1, SearchWithCell
  <2>3. PICK f : f = [P \in W |-> P \ {i}]
    OBVIOUS
  <2>4. f \in [W -> D]
    BY <2>2, <2>3
  <2>5. ASSUME NEW P \in W, NEW Q \in W, f[P] = f[Q]
        PROVE  P = Q
    <3>1. P \ {i} = Q \ {i} /\ i \in P /\ i \in Q
      BY <2>2, <2>3, <2>5
    <3>2. P = (P \ {i}) \cup {i} /\ Q = (Q \ {i}) \cup {i}
      BY <3>1
    <3>. QED
      BY <3>1, <3>2
  <2>6. ASSUME NEW Q \in D
        PROVE  \E P \in W : f[P] = Q
    <3>1. (Q \cup {i}) \ {i} = Q /\ Q \cup {i} \in W
      BY <2>2
    <3>. QED
      BY <2>3, <3>1
  <2>7. f \in Bijection(W, D)
    BY <2>4, <2>5, <2>6 DEF Bijection, Injection, Surjection, IsInjective
  <2>8. IsFiniteSet(W)
    BY <1>1, <1>4, FS_Subset
  <2>9. Cardinality(D) = Cardinality(W)
    BY <2>7, <2>8, FS_Bijection DEF ExistsBijection
  <2>. QED
    BY <1>6, <1>7, <2>1, <2>9 DEF SearchWeight
<1>8. CASE ~Search!safe_place(node.occ, i)
  <2>1. ASSUME NEW P \in W
        PROVE  FALSE
    <3>1. i \in P /\ P \in SUBSET SearchLater(node.nextIdx) /\ SearchApart(P, node.occ)
      BY <1>1, <1>2 DEF SearchCompletions
    <3>2. i \notin node.occ /\ \A b \in node.occ : ~Search!Attacks(i, b)
      BY <3>1 DEF SearchApart
    <3>3. node.occ \in SUBSET Search!Cells
      BY DEF SearchNodes
    <3>. QED
      BY <1>8, <3>2, <3>3, SearchSafeIs
  <2>2. W = {}
    BY <2>1
  <2>3. Cardinality(W) = 0
    BY <2>2, FS_EmptySet
  <2>. QED
    BY <1>6, <1>8, <2>3
<1>. QED
  BY <1>7, <1>8

\* t is the sum of the weights of the nodes of s.
SearchIsTotal(h, s) ==
  /\ h \in [0 .. Len(s) -> Int] /\ h[0] = 0
  /\ \A k \in 1 .. Len(s) : h[k] = h[k - 1] + SearchWeight(s[k])

SearchTotals(s, t) == \E h : SearchIsTotal(h, s) /\ h[Len(s)] = t

LEMMA SearchTotalNone == SearchTotals(<<>>, 0)
<1>1. PICK h : h = [k \in 0 .. 0 |-> 0]
  OBVIOUS
<1>2. SearchIsTotal(h, <<>>) /\ h[0] = 0
  BY <1>1 DEF SearchIsTotal
<1>. QED
  BY <1>2 DEF SearchTotals

LEMMA SearchTotalAppend ==
  ASSUME SearchIsBoard, NEW s \in Seq(SearchNodes), NEW t \in Int, SearchTotals(s, t),
      NEW node \in SearchNodes
  PROVE  SearchTotals(Append(s, node), t + SearchWeight(node))
<1>1. PICK h : SearchIsTotal(h, s) /\ h[Len(s)] = t
  BY DEF SearchTotals
<1>2. PICK n \in Nat : n = Len(s)
  OBVIOUS
<1>3. PICK w \in Int : w = SearchWeight(node)
  BY SearchWeightType
<1>4. PICK g : g = [k \in 0 .. n + 1 |-> IF k = n + 1 THEN t + w ELSE h[k]]
  OBVIOUS
<1>5. PICK u : u = Append(s, node)
  OBVIOUS
<1>6. Len(u) = n + 1 /\ u[n + 1] = node /\ \A k \in 1 .. n : u[k] = s[k]
  BY <1>2, <1>5
<1>7. h \in [0 .. n -> Int] /\ h[0] = 0 /\ \A k \in 1 .. n : h[k] = h[k - 1] + SearchWeight(s[k])
  BY <1>1, <1>2 DEF SearchIsTotal
<1>8. g[n + 1] = t + w /\ \A k \in 0 .. n : g[k] = h[k]
  BY <1>4
<1>9. g \in [0 .. n + 1 -> Int] /\ g[0] = 0
  BY <1>4, <1>7
<1>10. ASSUME NEW k \in 1 .. n + 1
       PROVE  g[k] = g[k - 1] + SearchWeight(u[k])
  <2>1. CASE k = n + 1
    <3>1. k - 1 = n /\ g[n] = t
      BY <1>1, <1>2, <1>8, <2>1
    <3>. QED
      BY <1>3, <1>6, <1>8, <2>1, <3>1
  <2>2. CASE k # n + 1
    <3>1. k \in 1 .. n /\ k \in 0 .. n /\ k - 1 \in 0 .. n
      BY <2>2
    <3>. QED
      BY <1>6, <1>7, <1>8, <3>1
  <2>. QED
    BY <2>1, <2>2
<1>. QED
  BY <1>3, <1>5, <1>6, <1>8, <1>9, <1>10 DEF SearchTotals, SearchIsTotal

LEMMA SearchTotalUnique ==
  ASSUME NEW s \in Seq(SearchNodes), NEW t, NEW v, SearchTotals(s, t), SearchTotals(s, v)
  PROVE  t = v
<1>1. PICK h : SearchIsTotal(h, s) /\ h[Len(s)] = t
  BY DEF SearchTotals
<1>2. PICK g : SearchIsTotal(g, s) /\ g[Len(s)] = v
  BY DEF SearchTotals
<1>3. PICK n \in Nat : n = Len(s)
  OBVIOUS
<1>. DEFINE S == {k \in 0 .. n : h[k] = g[k]}
<1>4. 0 \in S
  BY <1>1, <1>2 DEF SearchIsTotal
<1>5. ASSUME NEW k \in 1 .. n, k - 1 \in S
      PROVE  k \in S
  <2>1. h[k] = h[k - 1] + SearchWeight(s[k]) /\ g[k] = g[k - 1] + SearchWeight(s[k])
    BY <1>1, <1>2, <1>3 DEF SearchIsTotal
  <2>. QED
    BY <1>5, <2>1
<1>6. 0 .. n \subseteq S
  <2>. HIDE DEF S
  <2>. QED
    BY <1>4, <1>5, UpTo
<1>7. n \in S
  BY <1>6
<1>. QED
  BY <1>1, <1>2, <1>3, <1>7

LEMMA SearchTotalType ==
  ASSUME NEW s \in Seq(SearchNodes), NEW t, SearchTotals(s, t)
  PROVE  t \in Int
BY DEF SearchTotals, SearchIsTotal

LEMMA SearchTotalConcat ==
  ASSUME SearchIsBoard, NEW s \in Seq(SearchNodes), NEW t, SearchTotals(s, t),
      NEW u \in Seq(SearchNodes), NEW v, SearchTotals(u, v)
  PROVE  SearchTotals(s \o u, t + v)
<1>1. PICK h : SearchIsTotal(h, s) /\ h[Len(s)] = t
  BY DEF SearchTotals
<1>2. PICK g : SearchIsTotal(g, u) /\ g[Len(u)] = v
  BY DEF SearchTotals
<1>3. PICK n \in Nat : n = Len(s)
  OBVIOUS
<1>4. PICK m \in Nat : m = Len(u)
  OBVIOUS
<1>5. PICK x : x = s \o u
  OBVIOUS
<1>6. Len(x) = n + m /\ (\A k \in 1 .. n : x[k] = s[k]) /\ \A k \in n + 1 .. n + m : x[k] = u[k - n]
  BY <1>3, <1>4, <1>5
<1>7. h \in [0 .. n -> Int] /\ h[0] = 0 /\ h[n] = t /\ \A k \in 1 .. n : h[k] = h[k - 1] + SearchWeight(s[k])
  BY <1>1, <1>3 DEF SearchIsTotal
<1>8. g \in [0 .. m -> Int] /\ g[0] = 0 /\ g[m] = v /\ \A k \in 1 .. m : g[k] = g[k - 1] + SearchWeight(u[k])
  BY <1>2, <1>4 DEF SearchIsTotal
<1>9. PICK f : f = [k \in 0 .. n + m |-> IF k <= n THEN h[k] ELSE t + g[k - n]]
  OBVIOUS
<1>10. t \in Int /\ v \in Int
  BY <1>7, <1>8
<1>11. (\A k \in 0 .. n : f[k] = h[k]) /\ \A k \in n + 1 .. n + m : f[k] = t + g[k - n]
  BY <1>9
<1>12. f \in [0 .. n + m -> Int]
  <2>1. ASSUME NEW k \in 0 .. n + m
        PROVE  f[k] \in Int
    <3>1. CASE k <= n
      BY <1>7, <1>11, <3>1
    <3>2. CASE k > n
      <4>1. k - n \in 0 .. m /\ g[k - n] \in Int
        BY <1>8, <3>2
      <4>. QED
        BY <1>10, <1>11, <3>2, <4>1
    <3>. QED
      BY <3>1, <3>2
  <2>. QED
    BY <1>9, <2>1
<1>13. f[n] = t /\ \A k \in n .. n + m : f[k] = t + g[k - n]
  <2>1. f[n] = t
    BY <1>7, <1>11
  <2>2. ASSUME NEW k \in n .. n + m
        PROVE  f[k] = t + g[k - n]
    <3>1. CASE k = n
      BY <1>8, <1>10, <2>1, <3>1
    <3>2. CASE k # n
      BY <1>11, <3>2
    <3>. QED
      BY <3>1, <3>2
  <2>. QED
    BY <2>1, <2>2
<1>14. ASSUME NEW k \in 1 .. n + m
       PROVE  f[k] = f[k - 1] + SearchWeight(x[k])
  <2>1. CASE k <= n
    <3>1. k \in 1 .. n /\ k \in 0 .. n /\ k - 1 \in 0 .. n
      BY <2>1
    <3>. QED
      BY <1>6, <1>7, <1>11, <3>1
  <2>2. CASE k > n
    <3>1. PICK l \in 1 .. m : l = k - n
      BY <2>2
    <3>2. k \in n .. n + m /\ k - 1 \in n .. n + m /\ (k - 1) - n = l - 1 /\ k \in n + 1 .. n + m
      BY <2>2, <3>1
    <3>3. f[k] = t + g[l] /\ f[k - 1] = t + g[l - 1]
      BY <1>13, <3>1, <3>2
    <3>4. g[l] = g[l - 1] + SearchWeight(u[l]) /\ x[k] = u[l]
      BY <1>6, <1>8, <3>1, <3>2
    <3>5. u[l] \in SearchNodes
      BY <1>4, <3>1
    <3>6. g[l - 1] \in Int /\ SearchWeight(u[l]) \in Int
      BY <1>8, <3>1, <3>5, SearchWeightType
    <3>. QED
      BY <1>10, <3>3, <3>4, <3>6
  <2>. QED
    BY <2>1, <2>2
<1>15. f[0] = 0 /\ f[n + m] = t + v
  <2>1. n + m \in n .. n + m /\ (n + m) - n = m /\ 0 \in 0 .. n
    OBVIOUS
  <2>. QED
    BY <1>7, <1>8, <1>11, <1>13, <2>1
<1>. QED
  BY <1>5, <1>6, <1>12, <1>14, <1>15 DEF SearchTotals, SearchIsTotal

LEMMA SearchTotalTail ==
  ASSUME SearchIsBoard, NEW s \in Seq(SearchNodes), s # <<>>, NEW t, SearchTotals(s, t)
  PROVE  SearchTotals(Tail(s), t - SearchWeight(Head(s)))
<1>1. PICK h : SearchIsTotal(h, s) /\ h[Len(s)] = t
  BY DEF SearchTotals
<1>2. PICK n \in Nat : n + 1 = Len(s)
  <2>1. Len(s) \in Nat /\ Len(s) > 0
    OBVIOUS
  <2>2. Len(s) - 1 \in Nat /\ (Len(s) - 1) + 1 = Len(s)
    BY <2>1
  <2>. QED
    BY <2>2
<1>3. PICK w \in Int : w = SearchWeight(s[1])
  <2>1. s[1] \in SearchNodes
    BY <1>2
  <2>. QED
    BY <2>1, SearchWeightType
<1>4. Head(s) = s[1]
  BY <1>2
<1>5. PICK x : x = Tail(s)
  OBVIOUS
<1>6. Len(x) = n /\ \A k \in 1 .. n : x[k] = s[k + 1]
  BY <1>2, <1>5
<1>7. h \in [0 .. n + 1 -> Int] /\ h[0] = 0 /\ h[n + 1] = t
  BY <1>1, <1>2 DEF SearchIsTotal
<1>8. ASSUME NEW k \in 0 .. n
      PROVE  k + 1 \in 0 .. n + 1 /\ h[k + 1] \in Int /\ h[k + 1] = h[k] + SearchWeight(s[k + 1])
  <2>1. k + 1 \in 1 .. n + 1 /\ k + 1 \in 0 .. n + 1 /\ (k + 1) - 1 = k
    OBVIOUS
  <2>. QED
    BY <1>1, <1>2, <1>7, <2>1 DEF SearchIsTotal
<1>9. PICK g : g = [k \in 0 .. n |-> h[k + 1] - w]
  OBVIOUS
<1>10. g \in [0 .. n -> Int]
  <2>1. ASSUME NEW k \in 0 .. n
        PROVE  h[k + 1] - w \in Int
    <3>1. h[k + 1] \in Int
      BY <1>8
    <3>. QED
      BY <3>1
  <2>. QED
    BY <1>9, <2>1
<1>11. h[1] = w
  <2>1. h[0 + 1] = h[0] + SearchWeight(s[0 + 1])
    BY <1>8
  <2>. QED
    BY <1>3, <1>7, <2>1
<1>12. g[0] = 0 /\ g[n] = t - w
  BY <1>7, <1>9, <1>11
<1>13. ASSUME NEW k \in 1 .. n
       PROVE  g[k] = g[k - 1] + SearchWeight(x[k])
  <2>1. g[k] = h[k + 1] - w /\ g[k - 1] = h[k] - w
    <3>1. k \in 0 .. n /\ k - 1 \in 0 .. n /\ (k - 1) + 1 = k
      OBVIOUS
    <3>. QED
      BY <1>9, <3>1
  <2>2. PICK b \in Int : b = SearchWeight(x[k])
    <3>1. x[k] \in SearchNodes
      BY <1>2, <1>6
    <3>. QED
      BY <3>1, SearchWeightType
  <2>3. h[k + 1] = h[k] + b /\ h[k] \in Int
    <3>1. k \in 0 .. n /\ k \in 0 .. n + 1
      OBVIOUS
    <3>2. h[k + 1] = h[k] + SearchWeight(s[k + 1])
      BY <1>8, <3>1
    <3>. QED
      BY <1>6, <1>7, <2>2, <3>1, <3>2
  <2>. QED
    BY <2>1, <2>2, <2>3
<1>. QED
  BY <1>3, <1>4, <1>5, <1>6, <1>10, <1>12, <1>13 DEF SearchTotals, SearchIsTotal

\* What the loop over the cells finds are the nodes below a node.
SearchPlaced(d) == {node \in SearchNodes : node.placed = d}

\* The rest of the loop from cell i on.
SearchFrom(node, i) ==
  [nextIdx |-> IF i > node.nextIdx THEN i ELSE node.nextIdx, placed |-> node.placed, occ |-> node.occ]

SearchDeeper(node) == {c \in SearchPlaced(node.placed + 1) : c.nextIdx > node.nextIdx /\ c.nextIdx <= N * N}

LEMMA SearchChildrenAre ==
  ASSUME SearchIsBoard, NEW node \in SearchNodes, node.placed # L
  PROVE  Search!Children(node) \in Seq(SearchDeeper(node)) /\ SearchTotals(Search!Children(node), SearchWeight(node))
<1>. DEFINE A == Seq(SearchDeeper(node))
            Found(i) == i > node.nextIdx /\ Search!safe_place(node.occ, i - 1)
            Def(f) == f = [i \in 0 .. N * N |->
                             IF i = 0 THEN <<>>
                             ELSE IF i > node.nextIdx /\ Search!safe_place(node.occ, i - 1)
                                  THEN Append(f[i - 1], [nextIdx |-> i, placed |-> node.placed + 1,
                                                         occ |-> node.occ \cup {i - 1}])
                                  ELSE f[i - 1]]
<1>1. PICK n \in Nat : n = N * N
  BY DEF SearchIsBoard
<1>2. node.nextIdx \in Nat /\ node.placed \in Nat /\ node.occ \in SUBSET Search!Cells
  BY DEF SearchNodes
<1>3. ASSUME NEW i \in 1 .. n
      PROVE  /\ i - 1 \in Search!Cells /\ i - 1 \in Nat
             /\ SearchChild(node, i - 1) = [nextIdx |-> i, placed |-> node.placed + 1,
                                      occ |-> node.occ \cup {i - 1}]
             /\ Found(i) => SearchChild(node, i - 1) \in SearchDeeper(node)
  <2>1. i - 1 \in Search!Cells /\ i - 1 \in Nat /\ (i - 1) + 1 = i
    BY <1>1 DEF Search!Cells
  <2>2. SearchChild(node, i - 1) = [nextIdx |-> i, placed |-> node.placed + 1, occ |-> node.occ \cup {i - 1}]
    BY <2>1 DEF SearchChild
  <2>3. SearchChild(node, i - 1) \in SearchNodes
    BY <2>1, SearchNodesBelow
  <2>4. SearchChild(node, i - 1).placed = node.placed + 1 /\ SearchChild(node, i - 1).nextIdx = i
    BY <2>2
  <2>5. Found(i) => SearchChild(node, i - 1) \in SearchDeeper(node)
    BY <1>1, <2>3, <2>4 DEF SearchDeeper, SearchPlaced
  <2>. QED
    BY <2>1, <2>2, <2>5
<1>4. PICK step : step = [p \in (1 .. n) \X A |->
                            IF Found(p[1]) THEN Append(p[2], SearchChild(node, p[1] - 1)) ELSE p[2]]
  OBVIOUS
<1>5. step \in [(1 .. n) \X A -> A] /\ <<>> \in A
  <2>1. ASSUME NEW p \in (1 .. n) \X A
        PROVE  (IF Found(p[1]) THEN Append(p[2], SearchChild(node, p[1] - 1)) ELSE p[2]) \in A
    <3>1. p[1] \in 1 .. n /\ p[2] \in A
      OBVIOUS
    <3>2. CASE Found(p[1])
      <4>1. SearchChild(node, p[1] - 1) \in SearchDeeper(node)
        BY <1>3, <3>1, <3>2
      <4>2. Append(p[2], SearchChild(node, p[1] - 1)) \in A
        BY <3>1, <4>1
      <4>. QED
        BY <3>2, <4>2
    <3>3. CASE ~Found(p[1])
      BY <3>1, <3>3
    <3>. QED
      BY <3>2, <3>3
  <2>. HIDE DEF A, Found
  <2>2. step \in [(1 .. n) \X A -> A]
    BY <1>4, <2>1
  <2>. QED
    BY <2>2 DEF A
<1>6. PICK g : Recurs(g, n, A, <<>>, step)
  <2>. HIDE DEF A
  <2>. QED
    BY <1>5, Recursion
<1>7. g \in [0 .. n -> A] /\ g[0] = <<>>
  BY <1>6 DEF Recurs
<1>8. ASSUME NEW i \in 1 .. n
      PROVE  g[i] = IF Found(i) THEN Append(g[i - 1], SearchChild(node, i - 1)) ELSE g[i - 1]
  <2>1. g[i - 1] \in A
    <3>1. i - 1 \in 0 .. n
      OBVIOUS
    <3>. HIDE DEF A
    <3>. QED
      BY <1>7, <3>1
  <2>2. <<i, g[i - 1]>> \in (1 .. n) \X A
    BY <2>1
  <2>3. g[i] = step[<<i, g[i - 1]>>]
    BY <1>6 DEF Recurs
  <2>. HIDE DEF A, Found
  <2>. QED
    BY <1>4, <2>2, <2>3
<1>9. Def(g)
  <2>1. ASSUME NEW i \in 0 .. n
        PROVE  g[i] = IF i = 0 THEN <<>>
                      ELSE IF i > node.nextIdx /\ Search!safe_place(node.occ, i - 1)
                           THEN Append(g[i - 1], [nextIdx |-> i, placed |-> node.placed + 1,
                                                  occ |-> node.occ \cup {i - 1}])
                           ELSE g[i - 1]
    <3>1. CASE i = 0
      BY <1>7, <3>1
    <3>2. CASE i # 0
      <4>1. i \in 1 .. n
        BY <3>2
      <4>2. SearchChild(node, i - 1) = [nextIdx |-> i, placed |-> node.placed + 1, occ |-> node.occ \cup {i - 1}]
        BY <1>3, <4>1
      <4>. QED
        BY <1>8, <3>2, <4>1, <4>2
    <3>. QED
      BY <3>1, <3>2
  <2>. HIDE DEF A
  <2>. QED
    BY <1>1, <1>7, <2>1
<1>10. PICK f : f = CHOOSE ff : Def(ff)
  OBVIOUS
<1>11. Def(f)
  BY <1>9, <1>10
<1>12. Search!Children(node) = f[n]
  BY <1>1, <1>10 DEF Search!Children
<1>13. ASSUME NEW i \in 0 .. n
       PROVE  f[i] = g[i]
  <2>. DEFINE S == {k \in 0 .. n : f[k] = g[k]}
  <2>1. 0 \in S
    BY <1>1, <1>7, <1>11
  <2>2. ASSUME NEW k \in 1 .. n, k - 1 \in S
        PROVE  k \in S
    <3>1. f[k - 1] = g[k - 1] /\ k \in 0 .. n /\ k # 0
      BY <2>2
    <3>2. f[k] = IF Found(k) THEN Append(f[k - 1], SearchChild(node, k - 1)) ELSE f[k - 1]
      <4>1. SearchChild(node, k - 1) = [nextIdx |-> k, placed |-> node.placed + 1, occ |-> node.occ \cup {k - 1}]
        BY <1>3
      <4>. QED
        BY <1>1, <1>11, <3>1, <4>1
    <3>. QED
      BY <1>8, <3>1, <3>2
  <2>3. 0 .. n \subseteq S
    <3>. HIDE DEF S
    <3>. QED
      BY <2>1, <2>2, UpTo
  <2>. QED
    BY <2>3
<1>14. ASSUME NEW i \in 0 .. n
       PROVE  SearchFrom(node, i) \in SearchNodes /\ g[i] \in Seq(SearchNodes)
  <2>1. SearchFrom(node, i) \in SearchNodes
    BY <1>2 DEF SearchFrom, SearchNodes
  <2>2. g[i] \in A /\ SearchDeeper(node) \subseteq SearchNodes
    BY <1>7 DEF SearchDeeper, SearchPlaced
  <2>. QED
    BY <2>1, <2>2
<1>. DEFINE R == {i \in 0 .. n : SearchTotals(g[i], SearchWeight(node) - SearchWeight(SearchFrom(node, i)))}
<1>15. 0 \in R
  <2>1. SearchFrom(node, 0) = node
    BY <1>2 DEF SearchFrom, SearchNodes
  <2>2. SearchWeight(node) - SearchWeight(SearchFrom(node, 0)) = 0
    BY <2>1, SearchWeightType
  <2>. QED
    BY <1>7, <2>2, SearchTotalNone
<1>16. ASSUME NEW i \in 1 .. n, i - 1 \in R
       PROVE  i \in R
  <2>1. i - 1 \in 0 .. n /\ i \in 0 .. n
    OBVIOUS
  <2>2. PICK a \in Int : a = SearchWeight(node)
    BY SearchWeightType
  <2>3. PICK b \in Int : b = SearchWeight(SearchFrom(node, i - 1))
    BY <1>14, <2>1, SearchWeightType
  <2>4. PICK c \in Int : c = SearchWeight(SearchFrom(node, i))
    BY <1>14, <2>1, SearchWeightType
  <2>5. SearchTotals(g[i - 1], a - b) /\ a - b \in Int
    <3>1. SearchTotals(g[i - 1], SearchWeight(node) - SearchWeight(SearchFrom(node, i - 1)))
      BY <1>16
    <3>. QED
      BY <2>2, <2>3, <3>1
  <2>6. CASE i <= node.nextIdx
    <3>1. SearchFrom(node, i) = SearchFrom(node, i - 1)
      BY <1>2, <2>6 DEF SearchFrom
    <3>2. ~ Found(i)
      BY <1>2, <2>6
    <3>3. g[i] = g[i - 1]
      BY <1>8, <3>2
    <3>4. SearchTotals(g[i], SearchWeight(node) - SearchWeight(SearchFrom(node, i)))
      BY <2>2, <2>3, <2>5, <3>1, <3>3
    <3>. QED
      BY <2>1, <3>4
  <2>7. CASE i > node.nextIdx
    <3>1. PICK m : m = SearchFrom(node, i - 1) /\ m \in SearchNodes
      BY <1>14, <2>1
    <3>2. m.nextIdx = i - 1 /\ m.placed = node.placed /\ m.occ = node.occ
      BY <1>2, <2>7, <3>1 DEF SearchFrom
    <3>3. SearchSkip(m) = SearchFrom(node, i)
      BY <1>2, <2>7, <3>2 DEF SearchSkip, SearchFrom
    <3>4. SearchChild(m, i - 1) = SearchChild(node, i - 1)
      BY <3>2 DEF SearchChild
    <3>5. i - 1 \in Search!Cells
      BY <1>3
    <3>6. b = c + (IF Search!safe_place(node.occ, i - 1) THEN SearchWeight(SearchChild(node, i - 1)) ELSE 0)
      BY <2>3, <2>4, <3>1, <3>2, <3>3, <3>4, <3>5, SearchWeightStep
    <3>7. CASE Search!safe_place(node.occ, i - 1)
      <4>1. SearchChild(node, i - 1) \in SearchNodes
        BY <1>3, SearchNodesBelow
      <4>2. PICK w \in Int : w = SearchWeight(SearchChild(node, i - 1))
        BY <4>1, SearchWeightType
      <4>3. Found(i)
        BY <2>7, <3>7
      <4>4. g[i] = Append(g[i - 1], SearchChild(node, i - 1))
        BY <1>8, <4>3
      <4>5. g[i - 1] \in Seq(SearchNodes)
        BY <1>14, <2>1
      <4>6. SearchTotals(g[i], (a - b) + w)
        BY <2>5, <4>1, <4>2, <4>4, <4>5, SearchTotalAppend
      <4>7. (a - b) + w = a - c
        BY <3>6, <3>7, <4>2
      <4>. QED
        BY <2>1, <2>2, <2>4, <4>6, <4>7
    <3>8. CASE ~Search!safe_place(node.occ, i - 1)
      <4>1. ~Found(i)
        BY <3>8
      <4>2. g[i] = g[i - 1]
        BY <1>8, <4>1
      <4>3. b = c
        BY <3>6, <3>8
      <4>. QED
        BY <2>1, <2>2, <2>4, <2>5, <4>2, <4>3
    <3>. QED
      BY <3>7, <3>8
  <2>8. i <= node.nextIdx \/ i > node.nextIdx
    BY <1>2
  <2>. QED
    BY <2>6, <2>7, <2>8
<1>17. n \in R
  <2>1. 0 .. n \subseteq R
    <3>. HIDE DEF R
    <3>. QED
      BY <1>15, <1>16, UpTo
  <2>. QED
    BY <2>1
<1>18. SearchWeight(SearchFrom(node, n)) = 0
  <2>1. SearchFrom(node, n) \in SearchNodes
    BY <1>14
  <2>2. SearchFrom(node, n).placed # L /\ SearchFrom(node, n).nextIdx >= n
    BY <1>2 DEF SearchFrom
  <2>. QED
    BY <1>1, <2>1, <2>2, SearchWeightLast
<1>19. SearchTotals(g[n], SearchWeight(node))
  <2>1. SearchWeight(node) - 0 = SearchWeight(node)
    BY SearchWeightType
  <2>. QED
    BY <1>17, <1>18, <2>1
<1>20. g[n] \in A /\ f[n] = g[n]
  BY <1>7, <1>13
<1>. QED
  BY <1>12, <1>19, <1>20

\* dfs_count counts the ways to place the rest.
SearchLocalOf(f, node) ==
  (CHOOSE local : local = [k \in 0 .. Len(Search!Children(node)) |->
                             IF k = 0 THEN 0 ELSE local[k - 1] + f[Search!Children(node)[k]]])[Len(Search!Children(node))]

SearchIsCount(f) == f = [node \in SearchNodes |-> IF node.placed = L THEN 1 ELSE SearchLocalOf(f, node)]

LEMMA SearchCountIsChosen ==
  ASSUME NEW node
  PROVE  Search!Count(node) = (CHOOSE f : SearchIsCount(f))[node]
BY DEF Search!Count, SearchIsCount, SearchLocalOf, SearchNodes

LEMMA SearchLocalIs ==
  ASSUME SearchIsBoard, NEW node \in SearchNodes, node.placed # L, NEW f,
         \A c \in SearchDeeper(node) : f[c] = SearchWeight(c)
  PROVE  SearchLocalOf(f, node) = SearchWeight(node)
<1>1. PICK s : s = Search!Children(node)
  OBVIOUS
<1>2. s \in Seq(SearchDeeper(node)) /\ SearchTotals(s, SearchWeight(node))
  BY <1>1, SearchChildrenAre
<1>3. PICK n \in Nat : n = Len(s)
  BY <1>2
<1>4. PICK h : SearchIsTotal(h, s) /\ h[n] = SearchWeight(node)
  BY <1>2, <1>3 DEF SearchTotals
<1>. DEFINE Def(l) == l = [k \in 0 .. Len(s) |-> IF k = 0 THEN 0 ELSE l[k - 1] + f[s[k]]]
<1>5. h \in [0 .. n -> Int] /\ h[0] = 0 /\ \A k \in 1 .. n : h[k] = h[k - 1] + f[s[k]]
  <2>1. ASSUME NEW k \in 1 .. n
        PROVE  f[s[k]] = SearchWeight(s[k])
    BY <1>2, <1>3
  <2>. QED
    BY <1>3, <1>4, <2>1 DEF SearchIsTotal
<1>6. Def(h)
  <2>1. ASSUME NEW k \in 0 .. n
        PROVE  h[k] = IF k = 0 THEN 0 ELSE h[k - 1] + f[s[k]]
    BY <1>5
  <2>. QED
    BY <1>3, <1>5, <2>1
<1>7. PICK l : l = CHOOSE ll : Def(ll)
  OBVIOUS
<1>8. Def(l)
  BY <1>6, <1>7
<1>. DEFINE S == {k \in 0 .. n : l[k] = h[k]}
<1>9. 0 \in S
  BY <1>3, <1>5, <1>8
<1>10. ASSUME NEW k \in 1 .. n, k - 1 \in S
       PROVE  k \in S
  <2>1. l[k] = l[k - 1] + f[s[k]]
    BY <1>3, <1>8
  <2>. QED
    BY <1>5, <1>10, <2>1
<1>11. 0 .. n \subseteq S
  <2>. HIDE DEF S
  <2>. QED
    BY <1>9, <1>10, UpTo
<1>12. l[n] = SearchWeight(node)
  BY <1>4, <1>11
<1>13. SearchLocalOf(f, node) = l[n]
  BY <1>1, <1>3, <1>7 DEF SearchLocalOf
<1>. QED
  BY <1>12, <1>13

LEMMA SearchCountIs ==
  ASSUME SearchIsBoard, NEW node \in SearchNodes
  PROVE  Search!Count(node) = SearchWeight(node)
<1>1. PICK g : g = [m \in SearchNodes |-> SearchWeight(m)]
  OBVIOUS
<1>2. SearchIsCount(g)
  <2>1. ASSUME NEW m \in SearchNodes
        PROVE  SearchWeight(m) = IF m.placed = L THEN 1 ELSE SearchLocalOf(g, m)
    <3>1. CASE m.placed = L
      BY <3>1, SearchWeightFull
    <3>2. CASE m.placed # L
      <4>1. \A c \in SearchDeeper(m) : g[c] = SearchWeight(c)
        BY <1>1 DEF SearchDeeper, SearchPlaced
      <4>2. SearchLocalOf(g, m) = SearchWeight(m)
        BY <3>2, <4>1, SearchLocalIs
      <4>. QED
        BY <3>2, <4>2
    <3>. QED
      BY <3>1, <3>2
  <2>2. g = [m \in SearchNodes |-> IF m.placed = L THEN 1 ELSE SearchLocalOf(g, m)]
    BY <1>1, <2>1, Zenon
  <2>. QED
    BY <2>2 DEF SearchIsCount
<1>3. PICK f : f = CHOOSE ff : SearchIsCount(ff)
  OBVIOUS
<1>4. SearchIsCount(f)
  BY <1>2, <1>3, Zenon
<1>5. PICK n \in Nat : n = N * N
  BY DEF SearchIsBoard
<1>. DEFINE S == {d \in Nat : \A m \in SearchNodes : m.nextIdx + d >= n => f[m] = SearchWeight(m)}
<1>6. ASSUME NEW m \in SearchNodes, \A c \in SearchDeeper(m) : f[c] = SearchWeight(c)
      PROVE  f[m] = SearchWeight(m)
  <2>1. f[m] = IF m.placed = L THEN 1 ELSE SearchLocalOf(f, m)
    BY <1>4, Zenon DEF SearchIsCount
  <2>2. CASE m.placed = L
    BY <2>1, <2>2, SearchWeightFull
  <2>3. CASE m.placed # L
    BY <1>6, <2>1, <2>3, SearchLocalIs
  <2>. QED
    BY <2>2, <2>3
<1>7. 0 \in S
  <2>1. ASSUME NEW m \in SearchNodes, m.nextIdx >= n
        PROVE  f[m] = SearchWeight(m)
    <3>1. ASSUME NEW c \in SearchDeeper(m)
          PROVE  FALSE
      BY <1>5, <2>1, <3>1 DEF SearchDeeper, SearchPlaced, SearchNodes
    <3>. QED
      BY <1>6, <3>1
  <2>2. \A m \in SearchNodes : m.nextIdx + 0 = m.nextIdx
    BY DEF SearchNodes
  <2>. QED
    BY <2>1, <2>2
<1>8. ASSUME NEW d \in Nat, d \in S
      PROVE  d + 1 \in S
  <2>1. ASSUME NEW m \in SearchNodes, m.nextIdx + (d + 1) >= n
        PROVE  f[m] = SearchWeight(m)
    <3>1. ASSUME NEW c \in SearchDeeper(m)
          PROVE  f[c] = SearchWeight(c)
      <4>1. c \in SearchNodes /\ c.nextIdx \in Nat /\ m.nextIdx \in Nat /\ c.nextIdx > m.nextIdx
        BY DEF SearchDeeper, SearchPlaced, SearchNodes
      <4>2. c.nextIdx + d >= n
        BY <1>5, <2>1, <4>1
      <4>. QED
        BY <1>8, <4>1, <4>2
    <3>. QED
      BY <1>6, <3>1
  <2>. QED
    BY <2>1
<1>9. Nat \subseteq S
  <2>. HIDE DEF S
  <2>. QED
    BY <1>7, <1>8, Induction
<1>10. f[node] = SearchWeight(node)
  <2>1. node.nextIdx + n >= n
    BY <1>5 DEF SearchNodes
  <2>. QED
    BY <1>9, <2>1
<1>. QED
  BY <1>3, <1>10, SearchCountIsChosen, Zenon

\* A level of seed_tasks neither loses a placement nor repeats one.
LEMMA SearchLevelIs ==
  ASSUME SearchIsBoard, NEW d \in Nat, d # L, NEW s \in Seq(SearchPlaced(d)), NEW t,
      SearchTotals(s, t)
  PROVE  Search!NextLevel(s) \in Seq(SearchPlaced(d + 1)) /\ SearchTotals(Search!NextLevel(s), t)
<1>. DEFINE A == Seq(SearchPlaced(d + 1))
            Def(f) == f = [k \in 0 .. Len(s) |-> IF k = 0 THEN <<>> ELSE f[k - 1] \o Search!Children(s[k])]
<1>1. PICK n \in Nat : n = Len(s)
  OBVIOUS
<1>2. PICK h : SearchIsTotal(h, s) /\ h[n] = t
  BY <1>1 DEF SearchTotals
<1>3. ASSUME NEW k \in 1 .. n
      PROVE  /\ Search!Children(s[k]) \in A /\ SearchTotals(Search!Children(s[k]), SearchWeight(s[k]))
             /\ h[k] = h[k - 1] + SearchWeight(s[k])
  <2>1. s[k] \in SearchPlaced(d)
    BY <1>1
  <2>2. s[k] \in SearchNodes /\ s[k].placed = d
    BY <2>1 DEF SearchPlaced
  <2>3. Search!Children(s[k]) \in Seq(SearchDeeper(s[k])) /\ SearchTotals(Search!Children(s[k]), SearchWeight(s[k]))
    BY <2>2, SearchChildrenAre
  <2>4. SearchDeeper(s[k]) \subseteq SearchPlaced(d + 1)
    BY <2>2 DEF SearchDeeper
  <2>5. Search!Children(s[k]) \in A
    BY <2>3, <2>4
  <2>. QED
    BY <1>1, <1>2, <2>3, <2>5 DEF SearchIsTotal
<1>4. PICK step : step = [p \in (1 .. n) \X A |-> p[2] \o Search!Children(s[p[1]])]
  OBVIOUS
<1>5. step \in [(1 .. n) \X A -> A] /\ <<>> \in A
  <2>1. ASSUME NEW p \in (1 .. n) \X A
        PROVE  p[2] \o Search!Children(s[p[1]]) \in A
    <3>1. p[2] \in A /\ p[1] \in 1 .. n
      OBVIOUS
    <3>2. Search!Children(s[p[1]]) \in A
      BY <1>3, <3>1
    <3>. QED
      BY <3>1, <3>2
  <2>2. <<>> \in A
    OBVIOUS
  <2>. HIDE DEF A
  <2>. QED
    BY <1>4, <2>1, <2>2
<1>6. PICK g : Recurs(g, n, A, <<>>, step)
  <2>. HIDE DEF A
  <2>. QED
    BY <1>5, Recursion
<1>7. g \in [0 .. n -> A] /\ g[0] = <<>>
  BY <1>6 DEF Recurs
<1>8. ASSUME NEW k \in 1 .. n
      PROVE  g[k] = g[k - 1] \o Search!Children(s[k]) /\ g[k - 1] \in A
  <2>. HIDE DEF A
  <2>1. g[k - 1] \in A
    <3>1. k - 1 \in 0 .. n
      OBVIOUS
    <3>. QED
      BY <1>7, <3>1
  <2>2. <<k, g[k - 1]>> \in (1 .. n) \X A
    BY <2>1
  <2>3. g[k] = step[<<k, g[k - 1]>>]
    BY <1>6 DEF Recurs
  <2>. QED
    BY <1>4, <2>1, <2>2, <2>3
<1>9. Def(g)
  <2>1. ASSUME NEW k \in 0 .. n
        PROVE  g[k] = IF k = 0 THEN <<>> ELSE g[k - 1] \o Search!Children(s[k])
    <3>1. CASE k = 0
      BY <1>7, <3>1
    <3>2. CASE k # 0
      <4>1. k \in 1 .. n
        BY <3>2
      <4>2. g[k] = g[k - 1] \o Search!Children(s[k])
        BY <1>8, <4>1
      <4>. QED
        BY <3>2, <4>2
    <3>. QED
      BY <3>1, <3>2
  <2>. HIDE DEF A
  <2>. QED
    BY <1>1, <1>7, <2>1
<1>10. PICK f : f = CHOOSE ff : Def(ff)
  OBVIOUS
<1>11. Def(f)
  BY <1>9, <1>10
<1>12. Search!NextLevel(s) = f[n]
  BY <1>1, <1>10 DEF Search!NextLevel
<1>. DEFINE S == {k \in 0 .. n : f[k] = g[k] /\ SearchTotals(g[k], h[k])}
<1>13. 0 \in S
  <2>1. h[0] = 0
    BY <1>2 DEF SearchIsTotal
  <2>. QED
    BY <1>1, <1>7, <1>11, <2>1, SearchTotalNone
<1>14. ASSUME NEW k \in 1 .. n, k - 1 \in S
       PROVE  k \in S
  <2>1. f[k] = f[k - 1] \o Search!Children(s[k])
    BY <1>1, <1>11
  <2>2. f[k] = g[k]
    BY <1>8, <1>14, <2>1
  <2>3. A \subseteq Seq(SearchNodes)
    BY DEF SearchPlaced
  <2>4. g[k - 1] \in Seq(SearchNodes) /\ Search!Children(s[k]) \in Seq(SearchNodes)
    BY <1>3, <1>8, <2>3
  <2>5. SearchTotals(g[k - 1] \o Search!Children(s[k]), h[k - 1] + SearchWeight(s[k]))
    BY <1>3, <1>14, <2>4, SearchTotalConcat
  <2>6. g[k] = g[k - 1] \o Search!Children(s[k]) /\ h[k] = h[k - 1] + SearchWeight(s[k])
    BY <1>3, <1>8
  <2>7. SearchTotals(g[k], h[k])
    BY <2>5, <2>6, Zenon
  <2>8. k \in 0 .. n
    OBVIOUS
  <2>. HIDE DEF A
  <2>. QED
    BY <2>2, <2>7, <2>8
<1>15. n \in S
  <2>1. 0 .. n \subseteq S
    <3>. HIDE DEF S
    <3>. QED
      BY <1>13, <1>14, UpTo
  <2>. QED
    BY <2>1
<1>. QED
  BY <1>2, <1>7, <1>12, <1>15

\* The root's completions are the placements that are asked for.
SearchRoot == [nextIdx |-> 0, placed |-> 0, occ |-> preset]

SearchPlacements ==
  {placement \in SUBSET (Search!Cells \ preset) :
     /\ Cardinality(placement) = L
     /\ \A a, b \in placement \cup preset : ~Search!Attacks(a, b)}

LEMMA SearchAttackedIs ==
  ASSUME SearchIsBoard, preset \in SUBSET Search!Cells
  PROVE  Search!Attacked <=> \E a, b \in preset : Search!Attacks(a, b)
<1>1. \A a, b \in preset : b \in Search!attack_of(a) <=> Search!Attacks(a, b)
  BY SearchAttackIs
<1>2. Search!Attacked <=> \E a, b \in preset : b \in Search!attack_of(a)
  BY DEF Search!Attacked
<1>. QED
  BY <1>1, <1>2

LEMMA SearchRootIs ==
  ASSUME SearchIsBoard, preset \in SUBSET Search!Cells, ~Search!Attacked
  PROVE  SearchRoot \in SearchNodes /\ SearchWeight(SearchRoot) = Cardinality(SearchPlacements)
<1>1. SearchRoot \in SearchNodes /\ SearchRoot.nextIdx = 0 /\ SearchRoot.placed = 0 /\ SearchRoot.occ = preset
  BY DEF SearchRoot, SearchNodes
<1>2. SearchLater(0) = Search!Cells
  BY DEF SearchLater, Search!Cells
<1>3. L - 0 = L
  BY DEF SearchIsBoard
<1>4. SearchCompletions(SearchRoot) = {P \in SUBSET Search!Cells : Cardinality(P) = L /\ SearchApart(P, preset)}
  BY <1>1, <1>2, <1>3 DEF SearchCompletions
<1>5. \A a, b \in preset : ~Search!Attacks(a, b)
  BY SearchAttackedIs
<1>6. ASSUME NEW P \in SUBSET Search!Cells
      PROVE  SearchApart(P, preset)
               <=> P \in SUBSET (Search!Cells \ preset) /\ \A a, b \in P \cup preset : ~Search!Attacks(a, b)
  <2>1. ASSUME SearchApart(P, preset)
        PROVE  P \in SUBSET (Search!Cells \ preset) /\ \A a, b \in P \cup preset : ~Search!Attacks(a, b)
    <3>1. P \in SUBSET (Search!Cells \ preset)
      BY <2>1 DEF SearchApart
    <3>2. ASSUME NEW a \in P \cup preset, NEW b \in P \cup preset
          PROVE  ~Search!Attacks(a, b)
      <4>1. CASE a \in P
        BY <2>1, <4>1 DEF SearchApart
      <4>2. CASE a \in preset /\ b \in preset
        BY <1>5, <4>2
      <4>3. CASE a \in preset /\ b \in P
        <5>1. ~Search!Attacks(b, a) /\ a \in Search!Cells /\ b \in Search!Cells
          BY <2>1, <4>3 DEF SearchApart
        <5>. QED
          BY <5>1, SearchAttacksBothWays
      <4>. QED
        BY <4>1, <4>2, <4>3
    <3>. QED
      BY <3>1, <3>2
  <2>2. ASSUME P \in SUBSET (Search!Cells \ preset),
          \A a, b \in P \cup preset : ~Search!Attacks(a, b)
        PROVE  SearchApart(P, preset)
    BY <2>2 DEF SearchApart
  <2>. QED
    BY <2>1, <2>2
<1>7. SearchCompletions(SearchRoot) = SearchPlacements
  <2>1. ASSUME NEW P
        PROVE  P \in SearchCompletions(SearchRoot) <=> P \in SearchPlacements
    BY <1>4, <1>6 DEF SearchPlacements
  <2>. QED
    BY <2>1
<1>. QED
  BY <1>1, <1>7 DEF SearchWeight

\* The invariant: what is counted and what the jobs still hold make all placements.
SearchTypes ==
  /\ N \in Boards /\ L \in Pieces /\ preset \in SUBSET Search!Cells
  /\ depth \in 0 .. Search!split_depth /\ jobs \in Seq(SearchPlaced(depth))
  /\ total_solutions \in Nat /\ output \in Nat \cup {-1}

SearchIInv ==
  /\ SearchTypes
  /\ depth > 0 => ~Search!Attacked
  /\ ~Search!Attacked => SearchTotals(jobs, Cardinality(SearchPlacements) - total_solutions)
  /\ output # -1 => output = Cardinality(SearchPlacements)

LEMMA SearchBoardOf ==
  ASSUME SearchTypes
  PROVE  SearchIsBoard /\ Search!split_depth \in Nat /\ 0 < Search!split_depth /\ Search!split_depth <= L
<1>1. N \in Nat \ {0} /\ L \in Nat \ {0}
  BY SearchAssumption DEF SearchTypes, SearchAssumption
<1>. QED
  BY <1>1 DEF SearchIsBoard, Search!split_depth

LEMMA SearchPlacementsFinite ==
  ASSUME SearchTypes
  PROVE  Cardinality(SearchPlacements) \in Nat
<1>1. SearchIsBoard
  BY SearchBoardOf
<1>2. SearchLater(0) = Search!Cells
  BY DEF SearchLater, Search!Cells
<1>3. SearchPlacements \in SUBSET (SUBSET SearchLater(0))
  BY <1>2 DEF SearchPlacements
<1>4. IsFiniteSet(SearchPlacements)
  <2>1. IsFiniteSet(SUBSET SearchLater(0))
    BY <1>1, SearchLaterFinite
  <2>. QED
    BY <1>3, <2>1, FS_Subset
<1>. QED
  BY <1>4, FS_CardinalityType

LEMMA SearchInitIInv == Search!Init => SearchIInv
<1>. SUFFICES ASSUME Search!Init
              PROVE  SearchIInv
  OBVIOUS
<1>1. N \in Nat \ {0} /\ L \in Nat \ {0}
  BY SearchAssumption DEF Search!Init, SearchAssumption
<1>2. SearchIsBoard /\ Search!split_depth \in Nat /\ preset \in SUBSET Search!Cells
  BY <1>1 DEF SearchIsBoard, Search!split_depth, Search!Init
<1>3. SearchRoot \in SearchPlaced(0) /\ SearchRoot \in SearchNodes /\ jobs = <<SearchRoot>>
  BY <1>2 DEF SearchRoot, SearchNodes, SearchPlaced, Search!Init
<1>4. SearchTypes
  BY <1>2, <1>3 DEF SearchTypes, Search!Init
<1>5. ASSUME ~Search!Attacked
      PROVE  SearchTotals(jobs, Cardinality(SearchPlacements) - total_solutions)
  <2>1. Append(<<>>, SearchRoot) = jobs /\ <<>> \in Seq(SearchNodes)
    BY <1>3
  <2>2. SearchTotals(Append(<<>>, SearchRoot), 0 + SearchWeight(SearchRoot))
    <3>1. PICK z \in Int : z = 0
      OBVIOUS
    <3>2. PICK s \in Seq(SearchNodes) : s = <<>>
      BY <2>1
    <3>3. SearchTotals(s, z)
      BY <3>1, <3>2, SearchTotalNone
    <3>4. SearchTotals(Append(s, SearchRoot), z + SearchWeight(SearchRoot))
      BY <1>2, <1>3, <3>3, SearchTotalAppend
    <3>. QED
      BY <3>1, <3>2, <3>4
  <2>3. SearchWeight(SearchRoot) = Cardinality(SearchPlacements) /\ SearchWeight(SearchRoot) \in Nat
    BY <1>2, <1>3, <1>5, SearchRootIs, SearchWeightType
  <2>4. 0 + SearchWeight(SearchRoot) = Cardinality(SearchPlacements) - total_solutions
    BY <2>3 DEF Search!Init
  <2>. QED
    BY <2>1, <2>2, <2>4
<1>6. depth = 0 /\ output = -1
  BY DEF Search!Init
<1>. QED
  BY <1>4, <1>5, <1>6 DEF SearchIInv

LEMMA SearchSameNodes ==
  ASSUME UNCHANGED <<N, L, preset>>
  PROVE  SearchNodes' = SearchNodes
BY DEF SearchNodes, Search!Cells

\* The input stays, and with it what is asked for.
LEMMA SearchSameInput ==
  ASSUME UNCHANGED <<N, L, preset>>
  PROVE  /\ Search!Cells' = Search!Cells /\ SearchPlacements' = SearchPlacements /\ SearchNodes' = SearchNodes /\ Search!split_depth' = Search!split_depth
         /\ (Search!Attacked' <=> Search!Attacked) /\ (SearchIsBoard' <=> SearchIsBoard)
         /\ \A d : SearchPlaced(d)' = SearchPlaced(d)
         /\ \A s, t : SearchTotals(s, t)' <=> SearchTotals(s, t)
<1>1. Search!Cells' = Search!Cells
  BY DEF Search!Cells
<1>2. \A a, b : Search!Attacks(a, b)' <=> Search!Attacks(a, b)
  BY DEF Search!Attacks
<1>3. \A a : Search!attack_of(a)' = Search!attack_of(a)
  BY DEF Search!attack_of
<1>4. Search!Attacked' <=> Search!Attacked
  BY <1>3 DEF Search!Attacked
<1>5. \A i : SearchLater(i)' = SearchLater(i)
  BY <1>1 DEF SearchLater
<1>6. \A P, occ : SearchApart(P, occ)' <=> SearchApart(P, occ)
  BY <1>2 DEF SearchApart
<1>7. \A node : SearchCompletions(node)' = SearchCompletions(node)
  BY <1>5, <1>6 DEF SearchCompletions
<1>8. \A node : SearchWeight(node)' = SearchWeight(node)
  BY <1>7 DEF SearchWeight
<1>9. \A h, s : SearchIsTotal(h, s)' <=> SearchIsTotal(h, s)
  BY <1>8 DEF SearchIsTotal
<1>10. \A s, t : SearchTotals(s, t)' <=> SearchTotals(s, t)
  BY <1>9 DEF SearchTotals
<1>11. SearchPlacements' = SearchPlacements
  BY <1>1, <1>2 DEF SearchPlacements
<1>12. SearchNodes' = SearchNodes
  BY <1>1 DEF SearchNodes
<1>13. \A d : SearchPlaced(d)' = SearchPlaced(d)
  BY <1>12 DEF SearchPlaced
<1>14. Search!split_depth' = Search!split_depth /\ (SearchIsBoard' <=> SearchIsBoard)
  BY DEF Search!split_depth, SearchIsBoard
<1>. QED
  BY <1>1, <1>4, <1>10, <1>11, <1>12, <1>13, <1>14

LEMMA SearchNextIInv == SearchIInv /\ [Search!Next]_(Search!searchVars) => SearchIInv'
<1>. SUFFICES ASSUME SearchIInv, [Search!Next]_(Search!searchVars)
              PROVE  SearchIInv'
  OBVIOUS
<1>1. SearchTypes /\ SearchIsBoard /\ Search!split_depth \in Nat /\ 0 < Search!split_depth /\ Search!split_depth <= L
  BY SearchBoardOf DEF SearchIInv
<1>2. UNCHANGED <<N, L, preset>>
  BY DEF Search!Next, Search!RejectPreset, Search!SeedLevel, Search!TakeJob, Search!Output,
     Search!searchVars
<1>3. /\ SearchPlacements' = SearchPlacements /\ Search!split_depth' = Search!split_depth /\ (Search!Attacked' <=> Search!Attacked)
      /\ Search!Cells' = Search!Cells
      /\ (\A d : SearchPlaced(d)' = SearchPlaced(d)) /\ \A s, t : SearchTotals(s, t)'
           <=> SearchTotals(s, t)
  BY <1>2, SearchSameInput
<1>4. Cardinality(SearchPlacements) \in Nat
  BY <1>1, SearchPlacementsFinite
<1>5. CASE Search!RejectPreset
  <2>1. Search!Attacked /\ output' = 0 /\ UNCHANGED <<depth, jobs, total_solutions>>
    BY <1>5 DEF Search!RejectPreset
  <2>2. SearchPlacements = {}
    <3>1. \E a, b \in preset : Search!Attacks(a, b)
      BY <1>1, <2>1, SearchAttackedIs DEF SearchTypes
    <3>. QED
      BY <3>1 DEF SearchPlacements
  <2>3. Cardinality(SearchPlacements) = 0
    BY <2>2, FS_EmptySet
  <2>4. SearchTypes'
    BY <1>1, <1>2, <1>3, <2>1 DEF SearchTypes
  <2>. QED
    BY <1>3, <2>1, <2>3, <2>4 DEF SearchIInv
<1>6. CASE Search!SeedLevel
  <2>1. /\ ~Search!Attacked /\ depth < Search!split_depth /\ jobs' = Search!NextLevel(jobs)
        /\ depth' = depth + 1
        /\ UNCHANGED <<total_solutions, output>>
    BY <1>6 DEF Search!SeedLevel
  <2>2. depth \in Nat /\ depth # L /\ depth' \in 0 .. Search!split_depth /\ jobs \in Seq(SearchPlaced(depth))
    BY <1>1, <2>1 DEF SearchTypes, SearchIsBoard
  <2>3. PICK t : t = Cardinality(SearchPlacements) - total_solutions
    OBVIOUS
  <2>4. SearchTotals(jobs, t)
    BY <2>1, <2>3 DEF SearchIInv
  <2>5. jobs' \in Seq(SearchPlaced(depth + 1)) /\ SearchTotals(jobs', t)
    BY <1>1, <2>1, <2>2, <2>4, SearchLevelIs
  <2>6. SearchPlaced(depth)' = SearchPlaced(depth + 1)
    BY <1>2, <2>1, SearchSameNodes DEF SearchPlaced
  <2>7. SearchTypes'
    BY <1>1, <1>2, <1>3, <2>1, <2>2, <2>5, <2>6 DEF SearchTypes
  <2>. QED
    BY <1>3, <2>1, <2>3, <2>5, <2>7 DEF SearchIInv
<1>7. CASE Search!TakeJob
  <2>1. /\ depth = Search!split_depth /\ jobs # <<>>
        /\ total_solutions' = total_solutions + Search!Count(Head(jobs)) /\ jobs' = Tail(jobs)
        /\ UNCHANGED <<depth, output>>
    BY <1>7 DEF Search!TakeJob
  <2>2. jobs \in Seq(SearchPlaced(depth)) /\ SearchPlaced(depth) \subseteq SearchNodes /\ total_solutions \in Nat
    BY <1>1 DEF SearchTypes, SearchPlaced
  <2>3. PICK node \in SearchNodes : node = Head(jobs)
    BY <2>1, <2>2
  <2>4. PICK w \in Nat : w = SearchWeight(node)
    BY <1>1, SearchWeightType
  <2>5. Search!Count(node) = w
    BY <1>1, <2>4, SearchCountIs
  <2>6. total_solutions' = total_solutions + w /\ total_solutions' \in Nat
    BY <2>1, <2>2, <2>3, <2>5
  <2>7. jobs' \in Seq(SearchPlaced(depth)) /\ jobs \in Seq(SearchNodes)
    BY <2>1, <2>2
  <2>8. ~Search!Attacked
    BY <1>1, <2>1 DEF SearchIInv
  <2>9. PICK t \in Int : t = Cardinality(SearchPlacements) - total_solutions
    BY <1>4, <2>2
  <2>10. SearchTotals(jobs, t)
    BY <2>8, <2>9 DEF SearchIInv
  <2>11. SearchTotals(jobs', t - w)
    BY <1>1, <2>1, <2>3, <2>4, <2>7, <2>10, SearchTotalTail
  <2>12. t - w = Cardinality(SearchPlacements) - total_solutions'
    BY <1>4, <2>2, <2>6, <2>9
  <2>13. SearchPlaced(depth)' = SearchPlaced(depth)
    BY <1>2, <2>1, SearchSameNodes DEF SearchPlaced
  <2>14. SearchTypes'
    BY <1>1, <1>2, <1>3, <2>1, <2>6, <2>7, <2>13 DEF SearchTypes
  <2>. QED
    BY <1>3, <2>1, <2>8, <2>11, <2>12, <2>14 DEF SearchIInv
<1>8. CASE Search!Output
  <2>1. depth = Search!split_depth /\ jobs = <<>> /\ output' = total_solutions
        /\ UNCHANGED <<depth, jobs, total_solutions>>
    BY <1>8 DEF Search!Output
  <2>2. PICK t : t = Cardinality(SearchPlacements) - total_solutions
    OBVIOUS
  <2>3. ~Search!Attacked
    BY <1>1, <2>1 DEF SearchIInv
  <2>4. SearchTotals(<<>>, t)
    BY <2>1, <2>2, <2>3 DEF SearchIInv
  <2>5. t = 0
    <3>1. <<>> \in Seq(SearchNodes)
      OBVIOUS
    <3>. QED
      BY <2>4, <3>1, SearchTotalNone, SearchTotalUnique
  <2>6. total_solutions = Cardinality(SearchPlacements)
    BY <1>1, <1>4, <2>2, <2>5 DEF SearchTypes
  <2>7. SearchPlaced(depth)' = SearchPlaced(depth)
    BY <1>2, <2>1, SearchSameNodes DEF SearchPlaced
  <2>8. SearchTypes'
    BY <1>1, <1>2, <1>3, <2>1, <2>7 DEF SearchTypes
  <2>. QED
    BY <1>3, <2>1, <2>2, <2>3, <2>4, <2>6, <2>8 DEF SearchIInv
<1>9. CASE UNCHANGED Search!searchVars
  <2>1. UNCHANGED <<depth, jobs, total_solutions, output>>
    BY <1>9 DEF Search!searchVars
  <2>2. SearchPlaced(depth)' = SearchPlaced(depth)
    BY <1>2, <2>1, SearchSameNodes DEF SearchPlaced
  <2>3. SearchTypes'
    BY <1>1, <1>2, <1>3, <2>1, <2>2 DEF SearchTypes
  <2>. QED
    BY <1>3, <2>1, <2>3 DEF SearchIInv
<1>. QED
  BY <1>5, <1>6, <1>7, <1>8, <1>9 DEF Search!Next

LEMMA SearchHolds == SearchIInv => Search!PlacementsCounted
BY SearchCounts DEF SearchIInv, Search!PlacementsCounted, SearchPlacements

LEMMA SearchTyped == SearchIInv => Search!TypeOK
BY DEF SearchIInv, SearchTypes, Search!TypeOK

----------------------------------------------------------------------------
(* Island.cpp: the lines and the grids. *)

LEMMA CrosswordCounts == \A S : Crossword!Cardinality(S) = Cardinality(S)
BY DEF Crossword!Cardinality, Cardinality

\* The lengths of islands and their first cells, from the left.
CrossIsClue(c) == c \in Seq(Nat \ {0})
CrossStarts(s, c) ==
  /\ s \in [1 .. Len(c) -> Nat]
  /\ \A i \in 1 .. Len(c) - 1 : s[i] + c[i] < s[i + 1]
CrossFilled(s, c) == UNION {Crossword!Interval(s[i], c[i]) : i \in 1 .. Len(c)}

LEMMA CrossClueIs ==
  ASSUME NEW c, CrossIsClue(c)
  PROVE  /\ Len(c) \in Nat
         /\ \A i \in 1 .. Len(c) : c[i] \in Nat /\ c[i] >= 1
         /\ c = [i \in 1 .. Len(c) |-> c[i]]
BY DEF CrossIsClue

LEMMA CrossIncreasing ==
  ASSUME NEW c, CrossIsClue(c), NEW s, CrossStarts(s, c),
         NEW i \in 1 .. Len(c), NEW j \in 1 .. Len(c), i < j
  PROVE  s[i] + c[i] < s[j]
<1>1. PICK m \in Nat : m = Len(c)
  BY DEF CrossIsClue
<1>2. /\ \A k \in 1 .. m : s[k] \in Nat /\ c[k] \in Nat /\ c[k] >= 1
      /\ \A k \in 1 .. m - 1 : s[k] + c[k] < s[k + 1]
  BY <1>1, CrossClueIs DEF CrossStarts
<1>. DEFINE S == {k \in 0 .. m - i - 1 : s[i] + c[i] < s[i + k + 1]}
<1>3. 0 \in S
  BY <1>1, <1>2
<1>4. ASSUME NEW k \in 1 .. m - i - 1, k - 1 \in S
      PROVE  k \in S
  <2>1. s[i] + c[i] < s[i + k]
    BY <1>4
  <2>2. i + k \in 1 .. m - 1
    BY <1>1
  <2>3. s[i + k] + c[i + k] < s[i + k + 1] /\ s[i + k] \in Nat /\ c[i + k] >= 1
        /\ s[i + k + 1] \in Nat /\ c[i + k] \in Nat
    BY <1>2, <2>2
  <2>. QED
    BY <1>1, <1>2, <2>1, <2>3
<1>5. 0 .. m - i - 1 \subseteq S
  <2>1. m - i - 1 \in Nat
    BY <1>1
  <2>. HIDE DEF S
  <2>. QED
    BY <1>3, <1>4, <2>1, UpTo
<1>6. j - i - 1 \in 0 .. m - i - 1 /\ i + (j - i - 1) + 1 = j
  BY <1>1
<1>7. j - i - 1 \in S
  <2>. HIDE DEF S
  <2>. QED
    BY <1>5, <1>6
<1>. QED
  BY <1>6, <1>7

LEMMA CrossFilledIs ==
  ASSUME NEW c, CrossIsClue(c), NEW s, CrossStarts(s, c), NEW k
  PROVE  k \in CrossFilled(s, c) <=>
           k \in Nat /\ \E i \in 1 .. Len(c) : s[i] <= k /\ k < s[i] + c[i]
<1>1. \A i \in 1 .. Len(c) : s[i] \in Nat /\ c[i] \in Nat
  BY CrossClueIs DEF CrossStarts
<1>2. k \in CrossFilled(s, c) <=> \E i \in 1 .. Len(c) : k \in s[i] .. s[i] + c[i] - 1
  BY DEF CrossFilled, Crossword!Interval
<1>. QED
  BY <1>1, <1>2

\* The first and last cells of the islands.
LEMMA CrossEdgesAre ==
  ASSUME NEW c, CrossIsClue(c), NEW s, CrossStarts(s, c)
  PROVE  /\ Crossword!FirstCells(CrossFilled(s, c)) = {s[i] : i \in 1 .. Len(c)}
         /\ Crossword!LastCells(CrossFilled(s, c)) = {s[i] + c[i] - 1 : i \in 1 .. Len(c)}
<1>1. \A i \in 1 .. Len(c) : s[i] \in Nat /\ c[i] \in Nat /\ c[i] >= 1
  BY CrossClueIs DEF CrossStarts
<1>2. \A i, j \in 1 .. Len(c) : i < j => s[i] + c[i] < s[j]
  BY CrossIncreasing
<1>3. PICK l : l = CrossFilled(s, c)
  OBVIOUS
<1>4. \A k : k \in l <=> k \in Nat /\ \E i \in 1 .. Len(c) : s[i] <= k /\ k < s[i] + c[i]
  BY <1>3, CrossFilledIs
<1>5. Len(c) \in Nat
  BY DEF CrossIsClue
<1>6. ASSUME NEW k \in l, k - 1 \notin l
      PROVE  \E i \in 1 .. Len(c) : k = s[i]
  <2>1. PICK i \in 1 .. Len(c) : k \in Nat /\ s[i] <= k /\ k < s[i] + c[i]
    BY <1>4
  <2>2. ~ (s[i] <= k - 1)
    <3>1. CASE s[i] <= k - 1
      <4>1. k - 1 \in Nat /\ k - 1 < s[i] + c[i]
        BY <1>1, <2>1, <3>1
      <4>. QED
        BY <1>4, <1>6, <3>1, <4>1
    <3>. QED
      BY <3>1
  <2>. QED
    BY <1>1, <2>1, <2>2
<1>7. ASSUME NEW i \in 1 .. Len(c)
      PROVE  s[i] \in l /\ s[i] - 1 \notin l
  <2>1. s[i] \in l
    BY <1>1, <1>4
  <2>2. ASSUME s[i] - 1 \in l
        PROVE  FALSE
    <3>1. PICK j \in 1 .. Len(c) : s[j] <= s[i] - 1 /\ s[i] - 1 < s[j] + c[j]
      BY <1>4, <2>2
    <3>2. s[i] \in Nat /\ s[j] \in Nat /\ c[i] \in Nat /\ c[j] \in Nat
      BY <1>1, <3>1
    <3>3. (i < j => s[i] + c[i] < s[j]) /\ (j < i => s[j] + c[j] < s[i])
      BY <1>2, <3>1
    <3>4. i < j \/ i = j \/ j < i
      BY <3>1
    <3>. QED
      BY <3>1, <3>2, <3>3, <3>4
  <2>. QED
    BY <2>1, <2>2
<1>8. ASSUME NEW k \in l, k + 1 \notin l
      PROVE  \E i \in 1 .. Len(c) : k = s[i] + c[i] - 1
  <2>1. PICK i \in 1 .. Len(c) : k \in Nat /\ s[i] <= k /\ k < s[i] + c[i]
    BY <1>4
  <2>2. s[i] \in Nat /\ c[i] \in Nat
    BY <1>1
  <2>3. ~ (k + 1 < s[i] + c[i])
    <3>1. CASE k + 1 < s[i] + c[i]
      <4>1. k + 1 \in Nat /\ s[i] <= k + 1
        BY <2>1, <2>2
      <4>. QED
        BY <1>4, <1>8, <3>1, <4>1
    <3>. QED
      BY <3>1
  <2>. QED
    BY <2>1, <2>2, <2>3
<1>9. ASSUME NEW i \in 1 .. Len(c)
      PROVE  s[i] + c[i] - 1 \in l /\ (s[i] + c[i] - 1) + 1 \notin l
  <2>1. s[i] + c[i] - 1 \in l
    <3>1. s[i] \in Nat /\ c[i] \in Nat /\ c[i] >= 1
      BY <1>1
    <3>2. s[i] + c[i] - 1 \in Nat /\ s[i] <= s[i] + c[i] - 1 /\ s[i] + c[i] - 1 < s[i] + c[i]
      BY <3>1
    <3>. QED
      BY <1>4, <3>2
  <2>2. ASSUME s[i] + c[i] \in l
        PROVE  FALSE
    <3>1. PICK j \in 1 .. Len(c) : s[j] <= s[i] + c[i] /\ s[i] + c[i] < s[j] + c[j]
      BY <1>4, <2>2
    <3>2. i < j
      BY <1>1, <1>2, <3>1
    <3>. QED
      BY <1>1, <1>2, <3>1, <3>2
  <2>3. (s[i] + c[i] - 1) + 1 = s[i] + c[i]
    BY <1>1
  <2>. QED
    BY <2>1, <2>2, <2>3
<1>10. Crossword!FirstCells(l) = {s[i] : i \in 1 .. Len(c)}
  BY <1>6, <1>7 DEF Crossword!FirstCells
<1>11. Crossword!LastCells(l) = {s[i] + c[i] - 1 : i \in 1 .. Len(c)}
  BY <1>8, <1>9 DEF Crossword!LastCells
<1>. QED
  BY <1>3, <1>10, <1>11

LEMMA CrossRightmostIs ==
  ASSUME NEW S \in SUBSET Int, NEW k \in S, \A m \in S : m <= k
  PROVE  Crossword!Rightmost(S) = k
<1>1. \A x \in S : (\A m \in S : m <= x) => x = k
  OBVIOUS
<1>. QED
  BY <1>1 DEF Crossword!Rightmost

LEMMA CrossFirstOfIs ==
  ASSUME NEW c, CrossIsClue(c), NEW s, CrossStarts(s, c), NEW i \in 1 .. Len(c)
  PROVE  Crossword!FirstOf(CrossFilled(s, c), s[i] + c[i] - 1) = s[i]
<1>1. \A j \in 1 .. Len(c) : s[j] \in Nat /\ c[j] \in Nat /\ c[j] >= 1
  BY CrossClueIs DEF CrossStarts
<1>2. \A j, k \in 1 .. Len(c) : j < k => s[j] + c[j] < s[k]
  BY CrossIncreasing
<1>3. PICK S : S = {k \in Crossword!FirstCells(CrossFilled(s, c)) : k <= s[i] + c[i] - 1}
  OBVIOUS
<1>4. S \in SUBSET Int
  BY <1>1, <1>3, CrossEdgesAre
<1>5. s[i] \in S
  BY <1>1, <1>3, CrossEdgesAre
<1>6. ASSUME NEW m \in S
      PROVE  m <= s[i]
  <2>1. PICK j \in 1 .. Len(c) : m = s[j] /\ s[j] <= s[i] + c[i] - 1
    BY <1>3, CrossEdgesAre
  <2>2. ~ (i < j)
    BY <1>1, <1>2, <2>1
  <2>3. j = i \/ j < i
    BY <2>2
  <2>. QED
    BY <1>1, <1>2, <2>1, <2>3
<1>7. Crossword!Rightmost(S) = s[i]
  BY <1>4, <1>5, <1>6, CrossRightmostIs
<1>. QED
  BY <1>3, <1>7 DEF Crossword!FirstOf

\* The number of islands that end where one does or before.
LEMMA CrossRanksAre ==
  ASSUME NEW c, CrossIsClue(c), NEW s, CrossStarts(s, c), NEW i \in 0 .. Len(c), NEW to \in Int,
         i = 0 => to < 0, i > 0 => to = s[i] + c[i] - 1
  PROVE  Cardinality({m \in Crossword!LastCells(CrossFilled(s, c)) : m <= to}) = i
<1>1. \A j \in 1 .. Len(c) : s[j] \in Nat /\ c[j] \in Nat /\ c[j] >= 1
  BY CrossClueIs DEF CrossStarts
<1>2. \A j, k \in 1 .. Len(c) : j < k => s[j] + c[j] < s[k]
  BY CrossIncreasing
<1>3. PICK S : S = {m \in Crossword!LastCells(CrossFilled(s, c)) : m <= to}
  OBVIOUS
<1>4. PICK f : f = [j \in 1 .. i |-> s[j] + c[j] - 1]
  OBVIOUS
<1>5. ASSUME NEW j \in 1 .. i
      PROVE  j \in 1 .. Len(c) /\ f[j] = s[j] + c[j] - 1 /\ f[j] \in S
  <2>1. j \in 1 .. Len(c) /\ i \in 1 .. Len(c)
    OBVIOUS
  <2>2. f[j] = s[j] + c[j] - 1
    BY <1>4
  <2>3. s[j] + c[j] - 1 <= to
    <3>1. s[i] \in Nat /\ c[i] \in Nat /\ s[j] \in Nat /\ c[j] \in Nat /\ to = s[i] + c[i] - 1
      BY <1>1, <2>1
    <3>2. j < i => s[j] + c[j] < s[i]
      BY <1>2, <2>1
    <3>. QED
      BY <3>1, <3>2
  <2>. QED
    BY <1>3, <2>1, <2>2, <2>3, CrossEdgesAre
<1>6. ASSUME NEW j \in 1 .. i, NEW k \in 1 .. i, f[j] = f[k]
      PROVE  j = k
  <2>1. j \in 1 .. Len(c) /\ k \in 1 .. Len(c) /\ s[j] + c[j] - 1 = s[k] + c[k] - 1
    BY <1>5, <1>6
  <2>2. /\ s[j] \in Nat /\ c[j] \in Nat /\ c[j] >= 1
        /\ s[k] \in Nat /\ c[k] \in Nat /\ c[k] >= 1
    BY <1>1, <2>1
  <2>3. /\ j < k => s[j] + c[j] < s[k]
        /\ k < j => s[k] + c[k] < s[j]
    BY <1>2, <2>1
  <2>4. j < k \/ k < j \/ j = k
    BY <2>1
  <2>. QED
    BY <2>1, <2>2, <2>3, <2>4, SMTT(30)
<1>7. ASSUME NEW m \in S
      PROVE  \E j \in 1 .. i : f[j] = m
  <2>1. PICK j \in 1 .. Len(c) : m = s[j] + c[j] - 1 /\ m <= to
    BY <1>3, CrossEdgesAre
  <2>2. j <= i
    <3>1. CASE i = 0
      BY <1>1, <2>1, <3>1
    <3>2. CASE i > 0
      <4>1. i \in 1 .. Len(c) /\ to = s[i] + c[i] - 1
        BY <2>1, <3>2
      <4>2. s[i] \in Nat /\ c[i] \in Nat /\ s[j] \in Nat /\ c[j] \in Nat /\ c[j] >= 1
        BY <1>1, <2>1, <4>1
      <4>3. i < j => s[i] + c[i] < s[j]
        BY <1>2, <2>1, <4>1
      <4>4. ~ (i < j)
        BY <2>1, <4>1, <4>2, <4>3, SMTT(30)
      <4>. QED
        BY <2>1, <4>1, <4>4
    <3>. QED
      BY <3>1, <3>2
  <2>. QED
    BY <1>5, <2>1, <2>2
<1>8. f \in Bijection(1 .. i, S)
  BY <1>4, <1>5, <1>6, <1>7 DEF Bijection, Injection, Surjection, IsInjective
<1>9. IsFiniteSet(1 .. i) /\ Cardinality(1 .. i) = i
  BY FS_Interval
<1>10. Cardinality(S) = i
  BY <1>8, <1>9, FS_Bijection DEF ExistsBijection
<1>. QED
  BY <1>3, <1>10

\* The solver counts the lengths of the clue.
LEMMA CrossLengthsAre ==
  ASSUME NEW c, CrossIsClue(c), NEW s, CrossStarts(s, c)
  PROVE  Crossword!Lengths(CrossFilled(s, c)) = c
<1>1. \A j \in 1 .. Len(c) : s[j] \in Nat /\ c[j] \in Nat /\ c[j] >= 1
  BY CrossClueIs DEF CrossStarts
<1>2. PICK l : l = CrossFilled(s, c)
  OBVIOUS
<1>3. PICK E : E = Crossword!LastCells(l)
  OBVIOUS
<1>4. E = {s[j] + c[j] - 1 : j \in 1 .. Len(c)}
  BY <1>2, <1>3, CrossEdgesAre
<1>5. ASSUME NEW j \in 1 .. Len(c)
      PROVE  Crossword!Cardinality({m \in E : m <= s[j] + c[j] - 1}) = j
  <2>1. PICK to : to = s[j] + c[j] - 1
    OBVIOUS
  <2>2. Crossword!Cardinality({m \in E : m <= to}) = j
    <3>1. PICK R : R = {m \in E : m <= to}
      OBVIOUS
    <3>2. to \in Nat
      BY <1>1, <2>1
    <3>3. Cardinality({m \in E : m <= to}) = j
      BY <1>2, <1>3, <2>1, <3>2, CrossRanksAre
    <3>4. Cardinality(R) = j
      BY <3>1, <3>3
    <3>. QED
      BY <3>1, <3>4, CrosswordCounts
  <2>. QED
    BY <2>1, <2>2
<1>6. Crossword!Cardinality(E) = Len(c)
  <2>1. CASE Len(c) = 0
    <3>1. E = {}
      BY <1>4, <2>1
    <3>. QED
      BY <2>1, <3>1, FS_EmptySet, CrosswordCounts
  <2>2. CASE Len(c) # 0
    <3>1. Len(c) \in 1 .. Len(c)
      BY <2>2 DEF CrossIsClue
    <3>2. ASSUME NEW m \in E
          PROVE  m <= s[Len(c)] + c[Len(c)] - 1
      <4>1. PICK j \in 1 .. Len(c) : m = s[j] + c[j] - 1
        BY <1>4
      <4>2. j < Len(c) => s[j] + c[j] < s[Len(c)]
        BY <3>1, CrossIncreasing
      <4>3. /\ s[j] \in Nat /\ c[j] \in Nat /\ s[Len(c)] \in Nat /\ c[Len(c)] \in Nat
            /\ c[Len(c)] >= 1 /\ (j < Len(c) \/ j = Len(c))
        BY <1>1, <3>1, CrossClueIs
      <4>. QED
        BY <4>1, <4>2, <4>3
    <3>3. E = {m \in E : m <= s[Len(c)] + c[Len(c)] - 1}
      BY <3>2
    <3>. QED
      BY <1>5, <3>1, <3>3
  <2>. QED
    BY <2>1, <2>2
<1>. DEFINE last(i) == CHOOSE k \in E : Crossword!Cardinality({m \in E : m <= k}) = i
<1>7. ASSUME NEW i \in 1 .. Len(c)
      PROVE  last(i) = s[i] + c[i] - 1
  <2>1. s[i] + c[i] - 1 \in E /\ Crossword!Cardinality({m \in E : m <= s[i] + c[i] - 1}) = i
    BY <1>4, <1>5
  <2>2. last(i) \in E /\ Crossword!Cardinality({m \in E : m <= last(i)}) = i
    BY <2>1
  <2>3. PICK j \in 1 .. Len(c) : last(i) = s[j] + c[j] - 1
    <3>. HIDE DEF last
    <3>. QED
      BY <1>4, <2>2
  <2>4. j = i
    BY <1>5, <2>2, <2>3
  <2>. QED
    BY <2>3, <2>4
<1>. HIDE DEF last
<1>8. ASSUME NEW i \in 1 .. Len(c)
      PROVE  last(i) - Crossword!FirstOf(l, last(i)) + 1 = c[i]
  <2>1. Crossword!FirstOf(l, last(i)) = s[i]
    BY <1>2, <1>7, CrossFirstOfIs
  <2>. QED
    BY <1>1, <1>7, <2>1
<1>9. Crossword!Lengths(l) = [i \in 1 .. Len(c) |-> last(i) - Crossword!FirstOf(l, last(i)) + 1]
  BY <1>3, <1>6 DEF Crossword!Lengths, last
<1>10. c = [i \in 1 .. Len(c) |-> c[i]]
  BY CrossClueIs
<1>11. [i \in 1 .. Len(c) |-> last(i) - Crossword!FirstOf(l, last(i)) + 1] = [i \in 1 .. Len(c) |-> c[i]]
  BY <1>8
<1>. QED
  BY <1>2, <1>9, <1>10, <1>11

\* Every finite line is made of islands.
LEMMA CrossIslands ==
  ASSUME NEW b \in Nat, NEW l \in SUBSET (0 .. b - 1)
  PROVE  \E c, s : CrossIsClue(c) /\ CrossStarts(s, c) /\ l = CrossFilled(s, c)
<1>. DEFINE Made(g) == \E c, s : CrossIsClue(c) /\ CrossStarts(s, c) /\ g = CrossFilled(s, c)
            S == {k \in Nat : \A g \in SUBSET (0 .. k - 1) : Made(g)}
<1>1. 0 \in S
  <2>1. PICK c : c = <<>>
    OBVIOUS
  <2>2. PICK s : s = <<>>
    OBVIOUS
  <2>3. CrossIsClue(c) /\ Len(c) = 0
    BY <2>1 DEF CrossIsClue
  <2>4. CrossStarts(s, c)
    BY <2>2, <2>3 DEF CrossStarts
  <2>5. CrossFilled(s, c) = {}
    BY <2>3, <2>4, CrossFilledIs
  <2>6. Made({})
    BY <2>3, <2>4, <2>5
  <2>7. \A g \in SUBSET (0 .. 0 - 1) : g = {}
    OBVIOUS
  <2>. QED
    BY <2>6, <2>7
<1>2. ASSUME NEW k \in Nat, k \in S
      PROVE  k + 1 \in S
  <2>. SUFFICES ASSUME NEW g \in SUBSET (0 .. k) PROVE Made(g)
    OBVIOUS
  <2>1. g \ {k} \in SUBSET (0 .. k - 1)
    OBVIOUS
  <2>2. PICK c, s : CrossIsClue(c) /\ CrossStarts(s, c) /\ g \ {k} = CrossFilled(s, c)
    BY <1>2, <2>1
  <2>3. PICK m \in Nat : m = Len(c)
    BY <2>2, CrossClueIs
  <2>4. /\ \A i \in 1 .. m : s[i] \in Nat /\ c[i] \in Nat /\ c[i] >= 1
        /\ \A i \in 1 .. m - 1 : s[i] + c[i] < s[i + 1]
    BY <2>2, <2>3, CrossClueIs DEF CrossStarts
  <2>5. \A q : q \in g \ {k} <=> q \in Nat /\ \E i \in 1 .. m : s[i] <= q /\ q < s[i] + c[i]
    BY <2>2, <2>3, CrossFilledIs
  <2>6. CASE k \notin g
    <3>1. g = g \ {k}
      BY <2>6
    <3>. QED
      BY <2>2, <3>1
  <2>7. ASSUME NEW i \in 1 .. m
        PROVE  s[i] + c[i] <= k
    <3>1. s[i] \in Nat /\ c[i] \in Nat /\ c[i] >= 1
      BY <2>4
    <3>2. s[i] + c[i] - 1 \in Nat /\ s[i] <= s[i] + c[i] - 1 /\ s[i] + c[i] - 1 < s[i] + c[i]
      BY <3>1
    <3>3. s[i] + c[i] - 1 \in g \ {k}
      BY <2>5, <3>2
    <3>4. s[i] + c[i] - 1 \in 0 .. k - 1
      BY <2>1, <3>3
    <3>. QED
      BY <3>1, <3>4
  <2>8. CASE k \in g /\ m > 0 /\ s[m] + c[m] = k
    <3>1. m \in 1 .. m
      BY <2>8
    <3>2. PICK d : d = [c EXCEPT ![m] = c[m] + 1]
      OBVIOUS
    <3>3. CrossIsClue(d) /\ Len(d) = m /\ d[m] = c[m] + 1 /\ \A i \in 1 .. m - 1 : d[i] = c[i]
      BY <2>2, <2>3, <2>4, <3>1, <3>2 DEF CrossIsClue
    <3>4. CrossStarts(s, d)
      BY <2>2, <2>3, <2>4, <3>3 DEF CrossStarts
    <3>5. ASSUME NEW q
          PROVE  q \in g <=> q \in Nat /\ \E i \in 1 .. m : s[i] <= q /\ q < s[i] + d[i]
      <4>1. CASE q = k
        <5>1. q \in Nat /\ s[m] <= q /\ q < s[m] + d[m]
          BY <2>4, <2>8, <3>1, <3>3, <4>1
        <5>. QED
          BY <2>8, <3>1, <4>1, <5>1
      <4>2. CASE q # k
        <5>1. ASSUME q \in Nat, NEW i \in 1 .. m
              PROVE  q < s[i] + d[i] <=> q < s[i] + c[i]
          <6>1. CASE i = m
            <7>1. s[m] \in Nat /\ c[m] \in Nat
              BY <2>4, <3>1
            <7>. QED
              BY <2>8, <3>3, <4>2, <5>1, <6>1, <7>1
          <6>2. CASE i # m
            BY <3>3, <6>2
          <6>. QED
            BY <6>1, <6>2
        <5>2. q \in g <=> q \in g \ {k}
          BY <4>2
        <5>. QED
          BY <2>5, <5>1, <5>2
      <4>. QED
        BY <4>1, <4>2
    <3>6. g = CrossFilled(s, d)
      BY <3>3, <3>4, <3>5, CrossFilledIs
    <3>. QED
      BY <3>3, <3>4, <3>6
  <2>9. CASE k \in g /\ (m > 0 => s[m] + c[m] # k)
    <3>1. PICK d : d = Append(c, 1)
      OBVIOUS
    <3>2. /\ CrossIsClue(d) /\ Len(d) = m + 1 /\ d[m + 1] = 1
          /\ \A i \in 1 .. m : d[i] = c[i]
      BY <2>2, <2>3, <3>1 DEF CrossIsClue
    <3>3. PICK t : t = [i \in 1 .. m + 1 |-> IF i = m + 1 THEN k ELSE s[i]]
      OBVIOUS
    <3>4. t[m + 1] = k /\ \A i \in 1 .. m : t[i] = s[i]
      BY <3>3
    <3>5. CrossStarts(t, d)
      <4>1. t \in [1 .. Len(d) -> Nat]
        BY <2>4, <3>2, <3>3
      <4>2. ASSUME NEW i \in 1 .. m
            PROVE  t[i] + d[i] < t[i + 1]
        <5>1. CASE i = m
          <6>1. s[m] + c[m] <= k /\ s[m] + c[m] # k /\ s[m] \in Nat /\ c[m] \in Nat
            BY <2>4, <2>7, <2>9, <5>1
          <6>. QED
            BY <3>2, <3>4, <5>1, <6>1
        <5>2. CASE i # m
          <6>1. i \in 1 .. m - 1 /\ i + 1 \in 1 .. m
            BY <5>2
          <6>. QED
            BY <2>4, <3>2, <3>4, <6>1
        <5>. QED
          BY <5>1, <5>2
      <4>3. 1 .. Len(d) - 1 = 1 .. m
        BY <3>2
      <4>. QED
        BY <4>1, <4>2, <4>3 DEF CrossStarts
    <3>6. ASSUME NEW q
          PROVE  q \in g <=> q \in Nat /\ \E i \in 1 .. m + 1 : t[i] <= q /\ q < t[i] + d[i]
      <4>1. CASE q = k
        <5>1. q \in Nat /\ t[m + 1] <= q /\ q < t[m + 1] + d[m + 1] /\ m + 1 \in 1 .. m + 1
          BY <3>2, <3>4, <4>1
        <5>. QED
          BY <2>9, <4>1, <5>1
      <4>2. CASE q # k
        <5>1. ASSUME q \in Nat
              PROVE  ~ (t[m + 1] <= q /\ q < t[m + 1] + d[m + 1])
          BY <3>2, <3>4, <4>2, <5>1
        <5>2. \A i \in 1 .. m + 1 : i = m + 1 \/ (i \in 1 .. m /\ t[i] = s[i] /\ d[i] = c[i])
          BY <3>2, <3>4
        <5>3. \A i \in 1 .. m : i \in 1 .. m + 1 /\ t[i] = s[i] /\ d[i] = c[i]
          BY <3>2, <3>4
        <5>4. q \in g <=> q \in g \ {k}
          BY <4>2
        <5>5. q \in Nat => ((\E i \in 1 .. m + 1 : t[i] <= q /\ q < t[i] + d[i])
                              <=> \E i \in 1 .. m : s[i] <= q /\ q < s[i] + c[i])
          BY <5>1, <5>2, <5>3
        <5>. QED
          BY <2>5, <5>4, <5>5
      <4>. QED
        BY <4>1, <4>2
    <3>7. g = CrossFilled(t, d)
      BY <3>2, <3>5, <3>6, CrossFilledIs
    <3>. QED
      BY <3>2, <3>5, <3>7
  <2>. QED
    BY <2>6, <2>8, <2>9
<1>3. Nat \subseteq S
  <2>. HIDE DEF S
  <2>. QED
    BY <1>1, <1>2, Induction
<1>. QED
  BY <1>3

\* A puzzle has a square of cells.
CrossIsSize == Crossword!n \in Nat \ {0}

LEMMA CrossRightIs ==
  ASSUME CrossIsSize, NEW c, CrossIsClue(c), NEW l \in SUBSET Crossword!Cells
  PROVE  Crossword!Right(l, c) <=> \E s : CrossStarts(s, c) /\ l = CrossFilled(s, c)
<1>1. ASSUME Crossword!Right(l, c)
      PROVE  \E s : CrossStarts(s, c) /\ l = CrossFilled(s, c)
  <2>1. PICK s \in [1 .. Len(c) -> Crossword!Cells] :
              /\ \A i \in 1 .. Len(c) - 1 : s[i] + c[i] < s[i + 1]
              /\ l = UNION {Crossword!Interval(s[i], c[i]) : i \in 1 .. Len(c)}
    BY <1>1 DEF Crossword!Right
  <2>2. CrossStarts(s, c)
    BY <2>1 DEF CrossStarts, Crossword!Cells, CrossIsSize
  <2>. QED
    BY <2>1, <2>2 DEF CrossFilled
<1>2. ASSUME NEW s, CrossStarts(s, c), l = CrossFilled(s, c)
      PROVE  Crossword!Right(l, c)
  <2>1. ASSUME NEW i \in 1 .. Len(c)
        PROVE  s[i] \in Crossword!Cells
    <3>1. s[i] \in Nat /\ c[i] \in Nat /\ c[i] >= 1
      BY <1>2, CrossClueIs DEF CrossStarts
    <3>2. s[i] \in CrossFilled(s, c)
      BY <1>2, <3>1, CrossFilledIs
    <3>. QED
      BY <1>2, <3>2
  <2>2. s \in [1 .. Len(c) -> Crossword!Cells]
    BY <1>2, <2>1 DEF CrossStarts
  <2>. QED
    BY <1>2, <2>2 DEF Crossword!Right, CrossStarts, CrossFilled
<1>. QED
  BY <1>1, <1>2

\* What the solver counts is what a line has to be.
LEMMA CrossCheckedIs ==
  ASSUME CrossIsSize, NEW c, CrossIsClue(c), NEW l \in SUBSET Crossword!Cells
  PROVE  Crossword!total_line_checking(l, c) <=> Crossword!Right(l, c)
<1>1. Crossword!n \in Nat /\ l \in SUBSET (0 .. Crossword!n - 1)
  BY DEF CrossIsSize, Crossword!Cells
<1>2. PICK d, s : CrossIsClue(d) /\ CrossStarts(s, d) /\ l = CrossFilled(s, d)
  BY <1>1, CrossIslands
<1>3. Crossword!Lengths(l) = d
  BY <1>2, CrossLengthsAre
<1>4. ASSUME Crossword!Lengths(l) = c
      PROVE  Crossword!Right(l, c)
  BY <1>2, <1>3, <1>4, CrossRightIs
<1>5. ASSUME Crossword!Right(l, c)
      PROVE  Crossword!Lengths(l) = c
  BY <1>5, CrossRightIs, CrossLengthsAre
<1>. QED
  BY <1>4, <1>5 DEF Crossword!total_line_checking

\* What is placed of a column that will be right passes the check of a part.
LEMMA CrossPartPasses ==
  ASSUME CrossIsSize, NEW c, CrossIsClue(c), NEW l \in SUBSET Crossword!Cells,
      Crossword!Right(l, c), NEW r \in Nat
  PROVE  Crossword!line_cheking({k \in l : k <= r}, c)
<1>1. PICK s : CrossStarts(s, c) /\ l = CrossFilled(s, c)
  BY CrossRightIs
<1>2. PICK m \in Nat : m = Len(c)
  BY CrossClueIs
<1>3. /\ \A i \in 1 .. m : s[i] \in Nat /\ c[i] \in Nat /\ c[i] >= 1
      /\ \A i \in 1 .. m - 1 : s[i] + c[i] < s[i + 1]
  BY <1>1, <1>2, CrossClueIs DEF CrossStarts
<1>4. \A i, j \in 1 .. m : i < j => s[i] + c[i] < s[j]
  BY <1>1, <1>2, CrossIncreasing
<1>5. PICK p \in 0 .. m : \A i \in 1 .. m : s[i] <= r <=> i <= p
  <2>1. PICK T : T = {i \in 1 .. m + 1 : i = m + 1 \/ s[i] > r}
    OBVIOUS
  <2>2. T \in SUBSET Nat /\ m + 1 \in T
    BY <2>1
  <2>3. PICK k \in T : \A i \in T : k <= i
    BY <2>2, LeastElement
  <2>4. k - 1 \in 0 .. m /\ k \in 1 .. m + 1
    BY <2>1
  <2>5. ASSUME NEW i \in 1 .. m
        PROVE  s[i] <= r <=> i <= k - 1
    <3>1. s[i] \in Nat /\ c[i] \in Nat
      BY <1>3
    <3>2. ASSUME i <= k - 1
          PROVE  s[i] <= r
      <4>1. i \notin T
        BY <2>3, <2>4, <3>2
      <4>. QED
        BY <2>1, <3>1, <4>1
    <3>3. ASSUME i > k - 1
          PROVE  s[i] > r
      <4>1. k \in 1 .. m /\ k <= i
        BY <2>4, <3>3
      <4>2. s[k] > r /\ s[k] \in Nat /\ c[k] \in Nat
        BY <1>3, <2>1, <2>3, <4>1
      <4>3. k < i => s[k] + c[k] < s[i]
        BY <1>4, <4>1
      <4>. QED
        BY <3>1, <4>1, <4>2, <4>3
    <3>. QED
      BY <2>4, <3>1, <3>2, <3>3
  <2>. QED
    BY <2>4, <2>5
<1>6. PICK d : d = [i \in 1 .. p |-> IF s[i] + c[i] <= r + 1 THEN c[i] ELSE r + 1 - s[i]]
  OBVIOUS
<1>7. ASSUME NEW i \in 1 .. p
      PROVE  /\ i \in 1 .. m /\ d[i] \in Nat /\ d[i] >= 1 /\ d[i] <= c[i]
             /\ i < p => d[i] = c[i]
             /\ s[i] <= r
             /\ \A k \in Nat : k < s[i] + d[i] <=> k < s[i] + c[i] /\ k <= r
  <2>1. i \in 1 .. m
    OBVIOUS
  <2>2. s[i] \in Nat /\ c[i] \in Nat /\ c[i] >= 1 /\ s[i] <= r
    BY <1>3, <1>5, <2>1
  <2>3. d[i] = IF s[i] + c[i] <= r + 1 THEN c[i] ELSE r + 1 - s[i]
    BY <1>6
  <2>4. i < p => d[i] = c[i]
    <3>1. ASSUME i < p
          PROVE  s[i] + c[i] <= r
      <4>1. p \in 1 .. m /\ s[p] <= r /\ s[p] \in Nat /\ s[i] + c[i] < s[p]
        BY <1>3, <1>4, <1>5, <2>1, <3>1
      <4>. QED
        BY <2>2, <4>1
    <3>. QED
      BY <2>2, <2>3, <3>1
  <2>5. \A k \in Nat : k < s[i] + d[i] <=> k < s[i] + c[i] /\ k <= r
    BY <2>2, <2>3
  <2>6. d[i] \in Nat /\ d[i] >= 1 /\ d[i] <= c[i]
    BY <2>2, <2>3
  <2>. QED
    BY <2>1, <2>2, <2>4, <2>5, <2>6
<1>8. CrossIsClue(d) /\ Len(d) = p
  <2>1. \A i \in 1 .. p : d[i] \in Nat \ {0}
    BY <1>7
  <2>2. d \in [1 .. p -> Nat \ {0}]
    BY <1>6, <2>1
  <2>. QED
    BY <2>2 DEF CrossIsClue
<1>9. PICK t : t = [i \in 1 .. p |-> s[i]]
  OBVIOUS
<1>10. \A i \in 1 .. p : t[i] = s[i]
  BY <1>9
<1>11. CrossStarts(t, d)
  <2>1. t \in [1 .. Len(d) -> Nat]
    BY <1>3, <1>8, <1>9
  <2>2. ASSUME NEW i \in 1 .. Len(d) - 1
        PROVE  t[i] + d[i] < t[i + 1]
    <3>1. i \in 1 .. p /\ i + 1 \in 1 .. p /\ i < p /\ i \in 1 .. m - 1
      BY <1>8
    <3>. QED
      BY <1>3, <1>7, <1>10, <3>1
  <2>. QED
    BY <2>1, <2>2 DEF CrossStarts
<1>12. ASSUME NEW k
       PROVE  k \in {q \in l : q <= r} <=> k \in CrossFilled(t, d)
  <2>1. k \in l <=> k \in Nat /\ \E i \in 1 .. m : s[i] <= k /\ k < s[i] + c[i]
    BY <1>1, <1>2, CrossFilledIs
  <2>2. k \in CrossFilled(t, d) <=> k \in Nat /\ \E i \in 1 .. p : t[i] <= k /\ k < t[i] + d[i]
    BY <1>8, <1>11, CrossFilledIs
  <2>3. ASSUME k \in Nat, k <= r, NEW i \in 1 .. m, s[i] <= k /\ k < s[i] + c[i]
        PROVE  \E j \in 1 .. p : t[j] <= k /\ k < t[j] + d[j]
    <3>1. s[i] <= r
      BY <1>3, <2>3
    <3>2. i \in 1 .. p
      BY <1>5, <3>1
    <3>3. t[i] <= k /\ k < t[i] + d[i]
      BY <1>7, <1>10, <2>3, <3>2
    <3>. QED
      BY <3>2, <3>3
  <2>4. ASSUME k \in Nat, NEW j \in 1 .. p, t[j] <= k /\ k < t[j] + d[j]
        PROVE  k <= r /\ j \in 1 .. m /\ s[j] <= k /\ k < s[j] + c[j]
    BY <1>7, <1>10, <2>4
  <2>. QED
    BY <2>1, <2>2, <2>3, <2>4
<1>13. {k \in l : k <= r} = CrossFilled(t, d)
  BY <1>12
<1>14. Crossword!Lengths({k \in l : k <= r}) = d
  BY <1>8, <1>11, <1>13, CrossLengthsAre
<1>15. DOMAIN d = 1 .. p
  BY <1>6
<1>16. Len(d) <= Len(c) /\ \A i \in DOMAIN d : d[i] <= c[i] /\ (i < Len(d) => d[i] = c[i])
  BY <1>2, <1>7, <1>8, <1>15
<1>. QED
  BY <1>14, <1>16 DEF Crossword!line_cheking

----------------------------------------------------------------------------
(* The order in which a row is tried: the line comes first that has the first cell in
   which two lines differ. *)

CrossBefore(l, m) ==
  \E k \in l : k \notin m /\ \A q \in Nat : q < k => (q \in l <=> q \in m)

LEMMA CrossNotBefore ==
  ASSUME NEW l \in SUBSET Nat, NEW m \in SUBSET Nat, CrossBefore(l, m)
  PROVE  l # m /\ ~ CrossBefore(m, l)
<1>1. PICK k \in l : k \notin m /\ \A q \in Nat : q < k => (q \in l <=> q \in m)
  BY DEF CrossBefore
<1>2. ASSUME CrossBefore(m, l)
      PROVE  FALSE
  <2>1. PICK j \in m : j \notin l /\ \A q \in Nat : q < j => (q \in m <=> q \in l)
    BY <1>2 DEF CrossBefore
  <2>2. j \in Nat /\ k \in Nat
    OBVIOUS
  <2>3. ~ (j < k) /\ ~ (k < j) /\ j # k
    BY <1>1, <2>1, <2>2
  <2>. QED
    BY <2>2, <2>3
<1>. QED
  BY <1>1, <1>2

LEMMA CrossBeforeThat ==
  ASSUME NEW l \in SUBSET Nat, NEW m \in SUBSET Nat, NEW g \in SUBSET Nat,
         CrossBefore(l, m), CrossBefore(m, g)
  PROVE  CrossBefore(l, g)
<1>1. PICK k \in l : k \notin m /\ \A q \in Nat : q < k => (q \in l <=> q \in m)
  BY DEF CrossBefore
<1>2. PICK j \in m : j \notin g /\ \A q \in Nat : q < j => (q \in m <=> q \in g)
  BY DEF CrossBefore
<1>3. j \in Nat /\ k \in Nat /\ j # k
  BY <1>1
<1>4. CASE j < k
  <2>1. j \in l /\ \A q \in Nat : q < j => (q \in l <=> q \in g)
    BY <1>1, <1>2, <1>3, <1>4
  <2>. QED
    BY <1>2, <2>1 DEF CrossBefore
<1>5. CASE k < j
  <2>1. k \notin g /\ \A q \in Nat : q < k => (q \in l <=> q \in g)
    BY <1>1, <1>2, <1>3, <1>5
  <2>. QED
    BY <2>1 DEF CrossBefore
<1>. QED
  BY <1>3, <1>4, <1>5

\* The first island that is not where it is decides.
LEMMA CrossFirstDecides ==
  ASSUME NEW c, CrossIsClue(c), NEW s, CrossStarts(s, c), NEW u, CrossStarts(u, c),
         NEW j \in 1 .. Len(c), \A i \in 1 .. Len(c) : i < j => s[i] = u[i],
         s[j] < u[j]
  PROVE  CrossBefore(CrossFilled(s, c), CrossFilled(u, c))
<1>1. PICK m \in Nat : m = Len(c)
  BY CrossClueIs
<1>2. \A i \in 1 .. m : s[i] \in Nat /\ u[i] \in Nat /\ c[i] \in Nat /\ c[i] >= 1
  BY <1>1, CrossClueIs DEF CrossStarts
<1>3. \A i \in 1 .. m : /\ j < i => s[j] + c[j] < s[i] /\ u[j] + c[j] < u[i]
                        /\ i < j => s[i] + c[i] < s[j]
  BY <1>1, CrossIncreasing
<1>4. /\ \A k : k \in CrossFilled(s, c)
           <=> k \in Nat /\ \E i \in 1 .. m : s[i] <= k /\ k < s[i] + c[i]
      /\ \A k : k \in CrossFilled(u, c)
           <=> k \in Nat /\ \E i \in 1 .. m : u[i] <= k /\ k < u[i] + c[i]
  BY <1>1, CrossFilledIs
<1>5. j \in 1 .. m /\ s[j] \in Nat /\ u[j] \in Nat /\ c[j] \in Nat /\ c[j] >= 1
  BY <1>1, <1>2
<1>6. s[j] \in CrossFilled(s, c)
  BY <1>4, <1>5
<1>7. s[j] \notin CrossFilled(u, c)
  <2>1. ASSUME NEW i \in 1 .. m, u[i] <= s[j], s[j] < u[i] + c[i]
        PROVE  FALSE
    <3>1. u[i] \in Nat /\ c[i] \in Nat /\ s[i] \in Nat
      BY <1>2
    <3>2. CASE i < j
      <4>1. s[i] = u[i] /\ s[i] + c[i] < s[j]
        BY <1>1, <1>3, <3>2
      <4>. QED
        BY <1>5, <2>1, <3>1, <4>1
    <3>3. CASE i = j
      BY <1>5, <2>1, <3>3
    <3>4. CASE j < i
      <4>1. u[j] + c[j] < u[i]
        BY <1>3, <3>4
      <4>. QED
        BY <1>5, <2>1, <3>1, <4>1
    <3>. QED
      BY <1>5, <3>2, <3>3, <3>4
  <2>. QED
    BY <1>4, <2>1
<1>8. ASSUME NEW q \in Nat, q < s[j], NEW i \in 1 .. m
      PROVE  s[i] <= q /\ q < s[i] + c[i] <=> u[i] <= q /\ q < u[i] + c[i]
  <2>1. u[i] \in Nat /\ c[i] \in Nat /\ s[i] \in Nat
    BY <1>2
  <2>2. CASE i < j
    BY <1>1, <2>2
  <2>3. CASE i = j
    BY <1>5, <1>8, <2>3
  <2>4. CASE j < i
    <3>1. s[j] + c[j] < s[i] /\ u[j] + c[j] < u[i]
      BY <1>3, <2>4
    <3>2. q < s[i] /\ q < u[i]
      BY <1>5, <1>8, <2>1, <3>1, SMTT(30)
    <3>. QED
      BY <2>1, <3>2
  <2>. QED
    BY <1>5, <2>2, <2>3, <2>4
<1>9. \A q \in Nat : q < s[j] => (q \in CrossFilled(s, c) <=> q \in CrossFilled(u, c))
  BY <1>4, <1>8
<1>. QED
  BY <1>6, <1>7, <1>9 DEF CrossBefore

LEMMA CrossFilledInNat ==
  ASSUME NEW c, CrossIsClue(c), NEW s, CrossStarts(s, c)
  PROVE  CrossFilled(s, c) \in SUBSET Nat
BY CrossFilledIs

\* The first island that differs.
LEMMA CrossFirstDiffers ==
  ASSUME NEW c, CrossIsClue(c), NEW s, CrossStarts(s, c), NEW u, CrossStarts(u, c), s # u
  PROVE  \E j \in 1 .. Len(c) :
           s[j] # u[j] /\ \A i \in 1 .. Len(c) : i < j => s[i] = u[i]
<1>1. PICK T : T = {i \in 1 .. Len(c) : s[i] # u[i]}
  OBVIOUS
<1>2. s \in [1 .. Len(c) -> Nat] /\ u \in [1 .. Len(c) -> Nat]
  BY DEF CrossStarts
<1>3. T # {} /\ T \in SUBSET Nat
  BY <1>1, <1>2
<1>4. PICK j \in T : \A i \in T : j <= i
  BY <1>3, LeastElement
<1>5. ASSUME NEW i \in 1 .. Len(c), i < j
      PROVE  s[i] = u[i]
  <2>1. j \in Nat
    BY <1>3
  <2>2. i \notin T
    BY <1>4, <1>5, <2>1
  <2>. QED
    BY <1>1, <2>2
<1>. QED
  BY <1>1, <1>4, <1>5

LEMMA CrossBeforeDecides ==
  ASSUME NEW c, CrossIsClue(c), NEW s, CrossStarts(s, c), NEW u, CrossStarts(u, c),
         CrossBefore(CrossFilled(s, c), CrossFilled(u, c))
  PROVE  \E j \in 1 .. Len(c) :
           s[j] < u[j] /\ \A i \in 1 .. Len(c) : i < j => s[i] = u[i]
<1>1. /\ CrossFilled(s, c) # CrossFilled(u, c)
      /\ ~ CrossBefore(CrossFilled(u, c), CrossFilled(s, c))
  BY CrossFilledInNat, CrossNotBefore
<1>2. s # u
  BY <1>1
<1>3. PICK j \in 1 .. Len(c) : s[j] # u[j] /\ \A i \in 1 .. Len(c) : i < j => s[i] = u[i]
  BY <1>2, CrossFirstDiffers
<1>4. ~ (u[j] < s[j])
  BY <1>1, <1>3, CrossFirstDecides
<1>5. s[j] \in Nat /\ u[j] \in Nat
  BY DEF CrossStarts
<1>. QED
  BY <1>3, <1>4, <1>5

\* Islands that are nowhere further to the right.
LEMMA CrossLeftIsFirst ==
  ASSUME NEW c, CrossIsClue(c), NEW s, CrossStarts(s, c), NEW u, CrossStarts(u, c),
         \A i \in 1 .. Len(c) : s[i] <= u[i]
  PROVE  CrossFilled(s, c) = CrossFilled(u, c) \/ CrossBefore(CrossFilled(s, c), CrossFilled(u, c))
<1>1. CASE s = u
  BY <1>1
<1>2. CASE s # u
  <2>1. PICK j \in 1 .. Len(c) : s[j] # u[j] /\ \A i \in 1 .. Len(c) : i < j => s[i] = u[i]
    BY <1>2, CrossFirstDiffers
  <2>2. s[j] \in Nat /\ u[j] \in Nat /\ s[j] <= u[j]
    BY DEF CrossStarts
  <2>3. s[j] < u[j]
    BY <2>1, <2>2
  <2>. QED
    BY <2>1, <2>3, CrossFirstDecides
<1>. QED
  BY <1>1, <1>2

----------------------------------------------------------------------------
(* The line that is tried next. *)

\* The islands from one on stand as far to the left as it allows.
CrossTight(t, c, i) == \A k \in i .. Len(c) - 1 : t[k + 1] = t[k] + c[k] + 1

LEMMA CrossTightIsLeast ==
  ASSUME NEW c, CrossIsClue(c), NEW t, CrossStarts(t, c), NEW u, CrossStarts(u, c),
         NEW i \in 1 .. Len(c), CrossTight(t, c, i), t[i] <= u[i]
  PROVE  \A k \in i .. Len(c) : t[k] <= u[k]
<1>1. PICK m \in Nat : m = Len(c)
  BY CrossClueIs
<1>2. \A k \in 1 .. m : t[k] \in Nat /\ u[k] \in Nat /\ c[k] \in Nat
  BY <1>1, CrossClueIs DEF CrossStarts
<1>. DEFINE S == {k \in 0 .. m - i : t[i + k] <= u[i + k]}
<1>3. 0 \in S
  BY <1>1
<1>4. ASSUME NEW k \in 1 .. m - i, k - 1 \in S
      PROVE  k \in S
  <2>1. t[i + k - 1] <= u[i + k - 1]
    BY <1>4
  <2>2. i + k - 1 \in i .. m - 1 /\ i + k - 1 \in 1 .. m - 1 /\ (i + k - 1) + 1 = i + k
    BY <1>1
  <2>3. t[i + k] = t[i + k - 1] + c[i + k - 1] + 1
    BY <1>1, <2>2 DEF CrossTight
  <2>4. u[i + k - 1] + c[i + k - 1] < u[i + k]
    BY <1>1, <2>2 DEF CrossStarts
  <2>5. i + k - 1 \in 1 .. m /\ i + k \in 1 .. m
    BY <1>1
  <2>6. /\ t[i + k - 1] \in Nat /\ u[i + k - 1] \in Nat /\ c[i + k - 1] \in Nat
        /\ t[i + k] \in Nat /\ u[i + k] \in Nat
    BY <1>2, <2>5
  <2>. QED
    BY <2>1, <2>3, <2>4, <2>6, SMTT(30)
<1>5. 0 .. m - i \subseteq S
  <2>1. m - i \in Nat
    BY <1>1
  <2>. HIDE DEF S
  <2>. QED
    BY <1>3, <1>4, <2>1, UpTo
<1>6. ASSUME NEW k \in i .. Len(c)
      PROVE  t[k] <= u[k]
  <2>1. k - i \in 0 .. m - i /\ i + (k - i) = k
    BY <1>1
  <2>2. k - i \in S
    <3>. HIDE DEF S
    <3>. QED
      BY <1>5, <2>1
  <2>. QED
    BY <2>1, <2>2
<1>. QED
  BY <1>6

\* The islands of a clue from a cell on.
LEMMA CrossLeftmostIs ==
  ASSUME NEW c, CrossIsClue(c), NEW from \in Nat
  PROVE  \E t : /\ CrossStarts(t, c) /\ Crossword!Leftmost(c, from) = CrossFilled(t, c)
                /\ Len(c) > 0 => t[1] = from
                /\ CrossTight(t, c, 1)
<1>1. PICK m \in Nat : m = Len(c)
  BY CrossClueIs
<1>2. \A i \in 1 .. m : c[i] \in Nat /\ c[i] >= 1
  BY <1>1, CrossClueIs
<1>. DEFINE Def(f) ==
       f = [i \in 1 .. m |-> IF i = 1 THEN from ELSE f[i - 1] + c[i - 1] + 1]
<1>3. PICK step : step = [p \in (1 .. m) \X Nat |->
                            IF p[1] = 1 THEN from ELSE p[2] + c[p[1] - 1] + 1]
  OBVIOUS
<1>4. step \in [(1 .. m) \X Nat -> Nat]
  <2>1. ASSUME NEW p \in (1 .. m) \X Nat
        PROVE  (IF p[1] = 1 THEN from ELSE p[2] + c[p[1] - 1] + 1) \in Nat
    <3>1. p[1] \in 1 .. m /\ p[2] \in Nat
      OBVIOUS
    <3>2. CASE p[1] = 1
      BY <3>2
    <3>3. CASE p[1] # 1
      <4>1. p[1] - 1 \in 1 .. m
        BY <3>1, <3>3
      <4>. QED
        BY <1>2, <3>1, <3>3, <4>1
    <3>. QED
      BY <3>2, <3>3
  <2>. QED
    BY <1>3, <2>1
<1>5. PICK g : Recurs(g, m, Nat, from, step)
  BY <1>4, Recursion
<1>6. /\ \A k \in 0 .. m : g[k] \in Nat
      /\ \A k \in 1 .. m : g[k] = step[<<k, g[k - 1]>>]
  BY <1>5 DEF Recurs
<1>7. ASSUME NEW k \in 1 .. m
      PROVE  g[k] = IF k = 1 THEN from ELSE g[k - 1] + c[k - 1] + 1
  <2>1. k - 1 \in 0 .. m
    OBVIOUS
  <2>2. <<k, g[k - 1]>> \in (1 .. m) \X Nat
    BY <1>6, <2>1
  <2>. QED
    BY <1>3, <1>6, <2>2
<1>8. PICK h : h = [k \in 1 .. m |-> g[k]]
  OBVIOUS
<1>9. Def(h)
  <2>1. ASSUME NEW k \in 1 .. m
        PROVE  g[k] = IF k = 1 THEN from ELSE h[k - 1] + c[k - 1] + 1
    <3>1. CASE k = 1
      BY <1>7, <3>1
    <3>2. CASE k # 1
      <4>1. k - 1 \in 1 .. m
        BY <3>2
      <4>2. h[k - 1] = g[k - 1]
        BY <1>8, <4>1
      <4>. QED
        BY <1>7, <3>2, <4>2
    <3>. QED
      BY <3>1, <3>2
  <2>. QED
    BY <1>8, <2>1
<1>10. PICK t : t = CHOOSE f : Def(f)
  OBVIOUS
<1>11. Def(t)
  BY <1>9, <1>10
<1>12. Crossword!Leftmost(c, from) = CrossFilled(t, c)
  BY <1>1, <1>10 DEF Crossword!Leftmost, CrossFilled
<1>13. \A k \in 1 .. m : t[k] = IF k = 1 THEN from ELSE t[k - 1] + c[k - 1] + 1
  BY <1>11
<1>14. \A k \in 1 .. m - 1 : t[k + 1] = t[k] + c[k] + 1
  <2>1. ASSUME NEW k \in 1 .. m - 1
        PROVE  t[k + 1] = t[k] + c[k] + 1
    <3>1. k + 1 \in 1 .. m /\ (k + 1) - 1 = k /\ k + 1 # 1
      OBVIOUS
    <3>2. t[k + 1] = IF k + 1 = 1 THEN from ELSE t[(k + 1) - 1] + c[(k + 1) - 1] + 1
      BY <1>13, <3>1
    <3>. QED
      BY <3>1, <3>2
  <2>. QED
    BY <2>1
<1>15. m > 0 => t[1] = from
  BY <1>13
<1>16. \A k \in 1 .. m : t[k] \in Nat
  <2>. DEFINE S == {k \in 0 .. m : k > 0 => t[k] \in Nat}
  <2>1. 0 \in S
    OBVIOUS
  <2>2. ASSUME NEW k \in 1 .. m, k - 1 \in S
        PROVE  k \in S
    <3>1. CASE k = 1
      BY <1>15, <3>1
    <3>2. CASE k # 1
      <4>1. k - 1 \in 1 .. m /\ t[k - 1] \in Nat
        BY <2>2, <3>2
      <4>2. t[k] = t[k - 1] + c[k - 1] + 1
        BY <1>13, <3>2
      <4>. QED
        BY <1>2, <4>1, <4>2
    <3>. QED
      BY <3>1, <3>2
  <2>3. 0 .. m \subseteq S
    <3>. HIDE DEF S
    <3>. QED
      BY <2>1, <2>2, UpTo
  <2>4. \A k \in 1 .. m : k \in 0 .. m /\ k > 0
    OBVIOUS
  <2>. QED
    BY <2>3, <2>4
<1>17. t \in [1 .. m -> Nat]
  BY <1>11, <1>16
<1>18. CrossStarts(t, c)
  <2>1. \A k \in 1 .. m - 1 : t[k] + c[k] < t[k + 1]
    <3>1. ASSUME NEW k \in 1 .. m - 1
          PROVE  t[k] + c[k] < t[k + 1]
      <4>1. k \in 1 .. m /\ t[k] \in Nat /\ c[k] \in Nat
        BY <1>2, <1>16
      <4>. QED
        BY <1>14, <4>1
    <3>. QED
      BY <3>1
  <2>. QED
    BY <1>1, <1>17, <2>1 DEF CrossStarts
<1>. QED
  BY <1>1, <1>12, <1>14, <1>15, <1>18 DEF CrossTight

LEMMA CrossGreatestElement ==
  ASSUME NEW b \in Nat, NEW S \in SUBSET (0 .. b), S # {}
  PROVE  \E k \in S : \A m \in S : m <= k
<1>1. PICK T : T = {x \in 0 .. b : b - x \in S}
  OBVIOUS
<1>2. \A k \in S : b - k \in T /\ k \in Nat
  <2>1. ASSUME NEW k \in S
        PROVE  b - k \in T /\ k \in Nat
    <3>1. k \in 0 .. b /\ b - k \in 0 .. b /\ b - (b - k) = k
      OBVIOUS
    <3>. QED
      BY <1>1, <3>1
  <2>. QED
    BY <2>1
<1>3. T # {} /\ T \in SUBSET Nat
  <2>1. T \in SUBSET Nat
    BY <1>1
  <2>2. PICK k \in S : TRUE
    OBVIOUS
  <2>. QED
    BY <1>2, <2>1, <2>2
<1>4. PICK x \in T : \A y \in T : x <= y
  BY <1>3, LeastElement
<1>5. x \in Nat /\ b - x \in S
  BY <1>1, <1>3
<1>6. ASSUME NEW m \in S
      PROVE  m <= b - x
  <2>1. x <= b - m
    BY <1>2, <1>4
  <2>. QED
    BY <1>2, <1>5, <2>1
<1>. QED
  BY <1>5, <1>6

\* Islands that are nowhere further to the right than others that fit.
LEMMA CrossFitsToo ==
  ASSUME CrossIsSize, NEW c, CrossIsClue(c), NEW t, CrossStarts(t, c), NEW u, CrossStarts(u, c),
         CrossFilled(u, c) \in SUBSET Crossword!Cells, \A i \in 1 .. Len(c) : t[i] <= u[i]
  PROVE  CrossFilled(t, c) \in SUBSET Crossword!Cells
<1>1. ASSUME NEW k \in CrossFilled(t, c)
      PROVE  k \in Crossword!Cells
  <2>1. PICK i \in 1 .. Len(c) : k \in Nat /\ t[i] <= k /\ k < t[i] + c[i]
    BY <1>1, CrossFilledIs
  <2>2. t[i] \in Nat /\ u[i] \in Nat /\ c[i] \in Nat /\ c[i] >= 1 /\ t[i] <= u[i]
    BY CrossClueIs DEF CrossStarts
  <2>3. u[i] + c[i] - 1 \in Nat /\ u[i] <= u[i] + c[i] - 1 /\ u[i] + c[i] - 1 < u[i] + c[i]
    BY <2>2
  <2>4. u[i] + c[i] - 1 \in Crossword!Cells
    BY <2>3, CrossFilledIs
  <2>. QED
    BY <2>1, <2>2, <2>4 DEF Crossword!Cells, CrossIsSize
<1>. QED
  BY <1>1

\* The line that a row begins with comes before all others.
LEMMA CrossFirstLine ==
  ASSUME CrossIsSize, NEW c, CrossIsClue(c), NEW u, CrossStarts(u, c),
      CrossFilled(u, c) \in SUBSET Crossword!Cells
  PROVE  /\ Crossword!Leftmost(c, 0) \in SUBSET Crossword!Cells /\ Crossword!Right(Crossword!Leftmost(c, 0), c)
         /\ \A m \in SUBSET Crossword!Cells :
              Crossword!Right(m, c)
                  => m = Crossword!Leftmost(c, 0) \/ CrossBefore(Crossword!Leftmost(c, 0), m)
<1>1. PICK t : /\ CrossStarts(t, c) /\ Crossword!Leftmost(c, 0) = CrossFilled(t, c)
               /\ Len(c) > 0 => t[1] = 0
               /\ CrossTight(t, c, 1)
  BY CrossLeftmostIs
<1>2. ASSUME NEW v, CrossStarts(v, c)
      PROVE  \A i \in 1 .. Len(c) : t[i] <= v[i]
  <2>1. CASE Len(c) = 0
    BY <2>1
  <2>2. CASE Len(c) # 0
    <3>1. Len(c) \in Nat
      BY CrossClueIs
    <3>2. 1 \in 1 .. Len(c) /\ t[1] = 0
      BY <1>1, <2>2, <3>1
    <3>3. v[1] \in Nat
      BY <1>2, <3>2 DEF CrossStarts
    <3>. QED
      BY <1>1, <1>2, <3>2, <3>3, CrossTightIsLeast
  <2>. QED
    BY <2>1, <2>2
<1>3. CrossFilled(t, c) \in SUBSET Crossword!Cells
  BY <1>1, <1>2, CrossFitsToo
<1>4. ASSUME NEW m \in SUBSET Crossword!Cells, Crossword!Right(m, c)
      PROVE  m = CrossFilled(t, c) \/ CrossBefore(CrossFilled(t, c), m)
  <2>1. PICK v : CrossStarts(v, c) /\ m = CrossFilled(v, c)
    BY <1>4, CrossRightIs
  <2>. QED
    BY <1>1, <1>2, <2>1, CrossLeftIsFirst
<1>. QED
  BY <1>1, <1>3, <1>4, CrossRightIs

\* An island that moves by a cell.
LEMMA CrossMovedIs ==
  ASSUME CrossIsSize, NEW c, CrossIsClue(c), NEW s, CrossStarts(s, c),
      CrossFilled(s, c) \in SUBSET Crossword!Cells,
         NEW i \in 1 .. Len(c), s[i] + c[i] < Crossword!n, s[i] + c[i] + 1 \notin CrossFilled(s, c)
  PROVE  \E u : /\ CrossStarts(u, c) /\ CrossFilled(u, c) \in SUBSET Crossword!Cells
                /\ CrossFilled(u, c) = Crossword!sdvig_island_right_to_one_kletka(CrossFilled(s, c), s[i] + c[i] - 1)
                /\ u[i] = s[i] + 1 /\ \A k \in 1 .. Len(c) : k # i => u[k] = s[k]
<1>1. PICK m \in Nat : m = Len(c)
  BY CrossClueIs
<1>2. \A k \in 1 .. m : s[k] \in Nat /\ c[k] \in Nat /\ c[k] >= 1
  BY <1>1, CrossClueIs DEF CrossStarts
<1>3. PICK u : u = [s EXCEPT ![i] = s[i] + 1]
  OBVIOUS
<1>4. u[i] = s[i] + 1 /\ \A k \in 1 .. m : k # i => u[k] = s[k]
  BY <1>1, <1>3 DEF CrossStarts
<1>5. i \in 1 .. m /\ s[i] \in Nat /\ c[i] \in Nat /\ c[i] >= 1 /\ s[i] + 1 \in Nat
  BY <1>1, <1>2
<1>6. \A k : k \in CrossFilled(s, c) <=> k \in Nat /\ \E j \in 1 .. m : s[j] <= k /\ k < s[j] + c[j]
  BY <1>1, CrossFilledIs
<1>7. CrossStarts(u, c)
  <2>1. u \in [1 .. m -> Nat]
    BY <1>1, <1>3, <1>5 DEF CrossStarts
  <2>2. ASSUME NEW k \in 1 .. m - 1
        PROVE  u[k] + c[k] < u[k + 1]
    <3>1. k \in 1 .. m /\ k + 1 \in 1 .. m /\ k + 1 # k
      OBVIOUS
    <3>2. s[k] + c[k] < s[k + 1]
      BY <1>1 DEF CrossStarts
    <3>3. s[k] \in Nat /\ c[k] \in Nat /\ s[k + 1] \in Nat /\ c[k + 1] \in Nat /\ c[k + 1] >= 1
      BY <1>2, <3>1
    <3>4. CASE k = i
      <4>1. s[i + 1] # s[i] + c[i] + 1
        <5>1. CASE s[i + 1] = s[i] + c[i] + 1
          <6>1. s[i + 1] \in CrossFilled(s, c)
            BY <1>6, <3>1, <3>3, <3>4, SMTT(30)
          <6>. QED
            BY <5>1, <6>1
        <5>. QED
          BY <5>1
      <4>2. u[k] = s[i] + 1 /\ u[k + 1] = s[i + 1]
        BY <1>4, <3>1, <3>4
      <4>. QED
        BY <3>2, <3>3, <3>4, <4>1, <4>2, SMTT(30)
    <3>5. CASE k + 1 = i
      <4>1. u[k] = s[k] /\ u[k + 1] = s[k + 1] + 1
        BY <1>4, <3>1, <3>5
      <4>. QED
        BY <3>2, <3>3, <4>1
    <3>6. CASE k # i /\ k + 1 # i
      BY <1>4, <3>1, <3>2, <3>6
    <3>. QED
      BY <3>4, <3>5, <3>6
  <2>. QED
    BY <1>1, <2>1, <2>2 DEF CrossStarts
<1>8. \A k : k \in CrossFilled(u, c) <=> k \in Nat /\ \E j \in 1 .. m : u[j] <= k /\ k < u[j] + c[j]
  BY <1>1, <1>7, CrossFilledIs
<1>9. PICK moved : moved = (CrossFilled(s, c) \ {s[i]}) \cup {s[i] + c[i]}
  OBVIOUS
<1>10. moved = Crossword!sdvig_island_right_to_one_kletka(CrossFilled(s, c), s[i] + c[i] - 1)
  <2>1. Crossword!FirstOf(CrossFilled(s, c), s[i] + c[i] - 1) = s[i]
    BY CrossFirstOfIs
  <2>2. (s[i] + c[i] - 1) + 1 = s[i] + c[i]
    BY <1>5
  <2>. QED
    BY <1>9, <2>1, <2>2 DEF Crossword!sdvig_island_right_to_one_kletka
<1>11. ASSUME NEW k \in Nat
       PROVE  k \in CrossFilled(u, c) <=> k \in moved
  <2>1. CASE k = s[i]
    <3>1. ASSUME NEW j \in 1 .. m, u[j] <= k, k < u[j] + c[j]
          PROVE  FALSE
      <4>1. CASE j = i
        BY <1>4, <1>5, <2>1, <3>1, <4>1
      <4>2. CASE j # i
        <5>1. /\ u[j] = s[j] /\ s[j] \in Nat /\ c[j] \in Nat
              /\ j < i => s[j] + c[j] < s[i]
              /\ i < j => s[i] + c[i] < s[j]
          BY <1>1, <1>2, <1>4, <4>2, CrossIncreasing
        <5>. QED
          BY <1>5, <2>1, <3>1, <4>2, <5>1
      <4>. QED
        BY <4>1, <4>2
    <3>2. k \notin CrossFilled(u, c)
      BY <1>8, <3>1
    <3>3. k \notin moved
      BY <1>5, <1>9, <2>1
    <3>. QED
      BY <3>2, <3>3
  <2>2. CASE k = s[i] + c[i]
    <3>1. u[i] <= k /\ k < u[i] + c[i]
      BY <1>4, <1>5, <2>2
    <3>. QED
      BY <1>5, <1>8, <1>9, <2>2, <3>1
  <2>3. CASE k # s[i] /\ k # s[i] + c[i]
    <3>1. ASSUME NEW j \in 1 .. m
          PROVE  u[j] <= k /\ k < u[j] + c[j] <=> s[j] <= k /\ k < s[j] + c[j]
      <4>1. CASE j = i
        BY <1>4, <1>5, <2>3, <4>1, SMTT(30)
      <4>2. CASE j # i
        BY <1>4, <4>2
      <4>. QED
        BY <4>1, <4>2
    <3>2. k \in CrossFilled(u, c) <=> k \in CrossFilled(s, c)
      BY <1>6, <1>8, <3>1
    <3>. QED
      BY <1>9, <2>3, <3>2
  <2>. QED
    BY <2>1, <2>2, <2>3
<1>12. CrossFilled(u, c) = moved
  <2>1. moved \in SUBSET Nat
    BY <1>5, <1>6, <1>9
  <2>2. CrossFilled(u, c) \in SUBSET Nat
    BY <1>8
  <2>. QED
    BY <1>11, <2>1, <2>2
<1>13. moved \in SUBSET Crossword!Cells
  BY <1>5, <1>9 DEF Crossword!Cells, CrossIsSize
<1>. QED
  BY <1>1, <1>4, <1>7, <1>10, <1>12, <1>13

\* The islands behind one that are packed behind it.
LEMMA CrossPackedIs ==
  ASSUME NEW c, CrossIsClue(c), NEW s, CrossStarts(s, c), NEW i \in 1 .. Len(c)
  PROVE  \E t : /\ CrossStarts(t, c) /\ Crossword!all_to_left(CrossFilled(s, c), s[i] + c[i] - 1, c) = CrossFilled(t, c)
                /\ \A k \in 1 .. i : t[k] = s[k]
                /\ CrossTight(t, c, i)
<1>1. PICK m \in Nat : m = Len(c)
  BY CrossClueIs
<1>2. \A k \in 1 .. m : s[k] \in Nat /\ c[k] \in Nat /\ c[k] >= 1
  BY <1>1, CrossClueIs DEF CrossStarts
<1>3. i \in 1 .. m /\ s[i] \in Nat /\ c[i] \in Nat /\ c[i] >= 1
  BY <1>1, <1>2
<1>4. PICK to \in Nat : to = s[i] + c[i] - 1
  BY <1>3
<1>5. Crossword!Cardinality({k \in Crossword!LastCells(CrossFilled(s, c)) : k <= to}) = i
  BY <1>3, <1>4, CrossRanksAre, CrosswordCounts
<1>6. PICK d : d = SubSeq(c, i + 1, Len(c))
  OBVIOUS
<1>7. CrossIsClue(d) /\ Len(d) = m - i /\ \A k \in 1 .. m - i : d[k] = c[i + k]
  <2>1. c \in Seq(Nat \ {0}) /\ i + 1 \in 1 .. m + 1 /\ m \in 0 .. m
    BY <1>1, <1>3 DEF CrossIsClue
  <2>2. d \in Seq(Nat \ {0})
    BY <1>1, <1>6, <2>1
  <2>3. Len(d) = m - i
    BY <1>1, <1>3, <1>6, <2>1
  <2>4. \A k \in 1 .. m - i : d[k] = c[i + k]
    BY <1>1, <1>3, <1>6, <2>1, <2>3
  <2>. QED
    BY <2>2, <2>3, <2>4 DEF CrossIsClue
<1>8. PICK w : /\ CrossStarts(w, d) /\ Crossword!Leftmost(d, to + 2) = CrossFilled(w, d)
               /\ Len(d) > 0 => w[1] = to + 2
               /\ CrossTight(w, d, 1)
  <2>1. to + 2 \in Nat
    OBVIOUS
  <2>. QED
    BY <1>7, <2>1, CrossLeftmostIs
<1>9. \A k \in 1 .. m - i : w[k] \in Nat
  BY <1>7, <1>8 DEF CrossStarts
<1>10. PICK t : t = [k \in 1 .. m |-> IF k <= i THEN s[k] ELSE w[k - i]]
  OBVIOUS
<1>11. /\ \A k \in 1 .. i : t[k] = s[k]
       /\ \A k \in 1 .. m - i : t[i + k] = w[k]
  <2>1. ASSUME NEW k \in 1 .. m - i
        PROVE  t[i + k] = w[k]
    <3>1. i + k \in 1 .. m /\ ~ (i + k <= i) /\ (i + k) - i = k
      BY <1>3
    <3>. QED
      BY <1>10, <3>1
  <2>2. ASSUME NEW k \in 1 .. i
        PROVE  t[k] = s[k]
    <3>1. k \in 1 .. m /\ k <= i
      BY <1>3
    <3>. QED
      BY <1>10, <3>1
  <2>. QED
    BY <2>1, <2>2
<1>12. \A k \in 1 .. m : t[k] \in Nat
  <2>1. ASSUME NEW k \in 1 .. m
        PROVE  t[k] \in Nat
    <3>1. CASE k <= i
      BY <1>2, <1>11, <3>1
    <3>2. CASE k > i
      <4>1. k - i \in 1 .. m - i /\ i + (k - i) = k
        BY <1>3, <3>2
      <4>. QED
        BY <1>9, <1>11, <4>1
    <3>. QED
      BY <1>3, <3>1, <3>2
  <2>. QED
    BY <2>1
<1>13. ASSUME NEW k \in i .. m - 1
       PROVE  t[k + 1] = t[k] + c[k] + 1
  <2>1. CASE k = i
    <3>1. 1 \in 1 .. m - i /\ Len(d) > 0
      BY <1>3, <1>7, <2>1
    <3>2. t[i + 1] = to + 2 /\ t[i] = s[i]
      BY <1>3, <1>8, <1>11, <3>1
    <3>. QED
      BY <1>3, <1>4, <2>1, <3>2
  <2>2. CASE k # i
    <3>1. k - i \in 1 .. m - i - 1 /\ k - i \in 1 .. m - i /\ (k - i) + 1 \in 1 .. m - i
          /\ i + (k - i) = k /\ i + ((k - i) + 1) = k + 1
      BY <1>3, <2>2
    <3>2. t[k] = w[k - i] /\ t[k + 1] = w[(k - i) + 1] /\ d[k - i] = c[k]
      BY <1>7, <1>11, <3>1
    <3>3. w[(k - i) + 1] = w[k - i] + d[k - i] + 1
      BY <1>7, <1>8, <3>1 DEF CrossTight
    <3>. QED
      BY <3>2, <3>3
  <2>. QED
    BY <2>1, <2>2
<1>14. CrossStarts(t, c)
  <2>1. t \in [1 .. m -> Nat]
    BY <1>10, <1>12
  <2>2. ASSUME NEW k \in 1 .. m - 1
        PROVE  t[k] + c[k] < t[k + 1]
    <3>1. k \in 1 .. m /\ k + 1 \in 1 .. m
      OBVIOUS
    <3>2. CASE k < i
      <4>1. k \in 1 .. i /\ k + 1 \in 1 .. i
        BY <1>3, <3>2
      <4>2. s[k] + c[k] < s[k + 1]
        BY <1>1 DEF CrossStarts
      <4>. QED
        BY <1>11, <4>1, <4>2
    <3>3. CASE k >= i
      <4>1. t[k + 1] = t[k] + c[k] + 1
        BY <1>3, <1>13, <3>3
      <4>2. t[k] \in Nat /\ c[k] \in Nat
        BY <1>2, <1>12, <3>1
      <4>. QED
        BY <4>1, <4>2
    <3>. QED
      BY <1>3, <3>2, <3>3
  <2>. QED
    BY <1>1, <2>1, <2>2 DEF CrossStarts
<1>15. ASSUME NEW q
       PROVE  q \in CrossFilled(t, c)
           <=> q \in {k \in CrossFilled(s, c) : k <= to} \cup CrossFilled(w, d)
  <2>1. q \in CrossFilled(t, c) <=> q \in Nat /\ \E j \in 1 .. m : t[j] <= q /\ q < t[j] + c[j]
    BY <1>1, <1>14, CrossFilledIs
  <2>2. q \in CrossFilled(s, c) <=> q \in Nat /\ \E j \in 1 .. m : s[j] <= q /\ q < s[j] + c[j]
    BY <1>1, CrossFilledIs
  <2>3. q \in CrossFilled(w, d) <=> q \in Nat /\ \E j \in 1 .. m - i : w[j] <= q /\ q < w[j] + d[j]
    BY <1>7, <1>8, CrossFilledIs
  <2>4. ASSUME q \in Nat, NEW j \in 1 .. m, t[j] <= q, q < t[j] + c[j]
        PROVE  (q <= to /\ s[j] <= q /\ q < s[j] + c[j])
                 \/ \E k \in 1 .. m - i : w[k] <= q /\ q < w[k] + d[k]
    <3>1. CASE j <= i
      <4>1. t[j] = s[j] /\ s[j] \in Nat /\ c[j] \in Nat
        BY <1>2, <1>11, <3>1
      <4>2. j < i => s[j] + c[j] < s[i]
        BY <1>1, CrossIncreasing
      <4>3. j < i \/ j = i
        BY <1>3, <3>1
      <4>. QED
        BY <1>3, <1>4, <2>4, <4>1, <4>2, <4>3
    <3>2. CASE j > i
      <4>1. j - i \in 1 .. m - i /\ i + (j - i) = j
        BY <1>3, <3>2
      <4>2. t[j] = w[j - i] /\ d[j - i] = c[j]
        BY <1>7, <1>11, <4>1
      <4>. QED
        BY <2>4, <4>1, <4>2
    <3>. QED
      BY <1>3, <3>1, <3>2
  <2>5. ASSUME q \in Nat, q <= to, NEW j \in 1 .. m, s[j] <= q, q < s[j] + c[j]
        PROVE  t[j] <= q /\ q < t[j] + c[j]
    <3>1. s[j] \in Nat /\ c[j] \in Nat
      BY <1>2
    <3>2. i < j => s[i] + c[i] < s[j]
      BY <1>1, CrossIncreasing
    <3>3. ~ (i < j)
      BY <1>3, <1>4, <2>5, <3>1, <3>2
    <3>4. j \in 1 .. i
      BY <1>3, <3>3
    <3>. QED
      BY <1>11, <2>5, <3>4
  <2>6. ASSUME q \in Nat, NEW k \in 1 .. m - i, w[k] <= q, q < w[k] + d[k]
        PROVE  i + k \in 1 .. m /\ t[i + k] <= q /\ q < t[i + k] + c[i + k]
    BY <1>3, <1>7, <1>11, <2>6
  <2>. QED
    BY <2>1, <2>2, <2>3, <2>4, <2>5, <2>6
<1>16. Crossword!all_to_left(CrossFilled(s, c), to, c) = {k \in CrossFilled(s, c) : k <= to} \cup CrossFilled(w, d)
  BY <1>5, <1>6, <1>8 DEF Crossword!all_to_left
<1>. QED
  BY <1>1, <1>4, <1>11, <1>13, <1>14, <1>15, <1>16 DEF CrossTight

\* Islands that cannot be moved are as far to the right as they can be.
LEMMA CrossStuckIsGreatest ==
  ASSUME CrossIsSize, NEW c, CrossIsClue(c), NEW s, CrossStarts(s, c),
      CrossFilled(s, c) \in SUBSET Crossword!Cells,
         NEW u, CrossStarts(u, c), CrossFilled(u, c) \in SUBSET Crossword!Cells,
         NEW j \in 1 .. Len(c),
         \A k \in j .. Len(c) : s[k] + c[k] - 1 \notin Crossword!Movable(CrossFilled(s, c))
  PROVE  u[j] <= s[j]
<1>1. PICK m \in Nat : m = Len(c)
  BY CrossClueIs
<1>2. \A k \in 1 .. m : s[k] \in Nat /\ u[k] \in Nat /\ c[k] \in Nat /\ c[k] >= 1
  BY <1>1, CrossClueIs DEF CrossStarts
<1>3. \A k : k \in CrossFilled(s, c) <=> k \in Nat /\ \E i \in 1 .. m : s[i] <= k /\ k < s[i] + c[i]
  BY <1>1, CrossFilledIs
<1>4. ASSUME NEW k \in j .. m
      PROVE  s[k] + c[k] < Crossword!n => s[k] + c[k] + 1 \in CrossFilled(s, c)
  <2>1. s[k] \in Nat /\ c[k] \in Nat /\ c[k] >= 1 /\ k \in 1 .. m
    BY <1>1, <1>2
  <2>2. s[k] + c[k] - 1 \in Crossword!LastCells(CrossFilled(s, c))
    BY <1>1, <2>1, CrossEdgesAre
  <2>3. (s[k] + c[k] - 1) + 1 = s[k] + c[k] /\ (s[k] + c[k] - 1) + 2 = s[k] + c[k] + 1
    BY <2>1
  <2>. QED
    BY <1>1, <2>2, <2>3 DEF Crossword!Movable
<1>5. u[m] <= s[m]
  <2>1. m \in 1 .. m /\ m \in j .. m
    BY <1>1
  <2>2. s[m] \in Nat /\ u[m] \in Nat /\ c[m] \in Nat /\ c[m] >= 1
    BY <1>2, <2>1
  <2>3. s[m] + c[m] + 1 \notin CrossFilled(s, c)
    <3>1. ASSUME NEW i \in 1 .. m, s[m] + c[m] + 1 < s[i] + c[i]
          PROVE  FALSE
      <4>1. s[i] \in Nat /\ c[i] \in Nat /\ (i < m => s[i] + c[i] < s[m])
        BY <1>1, <1>2, <2>1, CrossIncreasing
      <4>. QED
        BY <2>2, <3>1, <4>1
    <3>. QED
      BY <1>3, <3>1
  <2>4. ~ (s[m] + c[m] < Crossword!n)
    BY <1>4, <2>1, <2>3
  <2>5. u[m] + c[m] - 1 \in CrossFilled(u, c)
    <3>1. u[m] + c[m] - 1 \in Nat /\ u[m] <= u[m] + c[m] - 1 /\ u[m] + c[m] - 1 < u[m] + c[m]
      BY <2>2
    <3>. QED
      BY <1>1, <2>1, <3>1, CrossFilledIs
  <2>6. u[m] + c[m] - 1 <= Crossword!n - 1 /\ Crossword!n \in Nat
    BY <2>5 DEF Crossword!Cells, CrossIsSize
  <2>. QED
    BY <2>2, <2>4, <2>6
<1>. DEFINE S == {k \in 0 .. m - j : u[m - k] <= s[m - k]}
<1>6. 0 \in S
  BY <1>1, <1>5
<1>7. ASSUME NEW k \in 1 .. m - j, k - 1 \in S
      PROVE  k \in S
  <2>0. m - k \in j .. m - 1
    <3>1. j \in Nat /\ j <= m /\ k \in Nat /\ k >= 1 /\ k <= m - j
      BY <1>1
    <3>. QED
      BY <3>1
  <2>1. PICK i \in j .. m - 1 : i = m - k
    BY <2>0
  <2>2. i \in 1 .. m - 1 /\ i \in 1 .. m /\ i + 1 \in 1 .. m /\ m - (k - 1) = i + 1 /\ i \in j .. m
    BY <1>1, <2>1
  <2>3. u[i + 1] <= s[i + 1]
    BY <1>7, <2>2
  <2>4. s[i] + c[i] < s[i + 1] /\ u[i] + c[i] < u[i + 1]
    BY <1>1, <2>2 DEF CrossStarts
  <2>5. /\ s[i] \in Nat /\ u[i] \in Nat /\ c[i] \in Nat
        /\ s[i + 1] \in Nat /\ u[i + 1] \in Nat /\ c[i + 1] \in Nat /\ c[i + 1] >= 1
    BY <1>2, <2>2
  <2>6. s[i + 1] \in CrossFilled(s, c)
    <3>1. s[i + 1] <= s[i + 1] /\ s[i + 1] < s[i + 1] + c[i + 1]
      BY <2>5
    <3>. QED
      BY <1>3, <2>2, <2>5, <3>1
  <2>7. s[i + 1] < Crossword!n
    BY <2>5, <2>6 DEF Crossword!Cells, CrossIsSize
  <2>8. s[i] + c[i] + 1 \in CrossFilled(s, c)
    <3>1. Crossword!n \in Nat
      BY DEF CrossIsSize
    <3>. QED
      BY <1>4, <2>2, <2>4, <2>5, <2>7, <3>1, SMTT(30)
  <2>9. PICK q \in 1 .. m : s[q] <= s[i] + c[i] + 1 /\ s[i] + c[i] + 1 < s[q] + c[q]
    BY <1>3, <2>8
  <2>10. /\ s[q] \in Nat /\ c[q] \in Nat
         /\ q < i => s[q] + c[q] < s[i]
         /\ i + 1 < q => s[i + 1] + c[i + 1] < s[q]
    BY <1>1, <1>2, <2>2, CrossIncreasing
  <2>11. s[i + 1] <= s[i] + c[i] + 1
    <3>1. q < i \/ q = i \/ q = i + 1 \/ i + 1 < q
      BY <2>2
    <3>2. ~ (q < i) /\ q # i
      <4>1. PICK a \in Nat : a = s[i]
        BY <2>5
      <4>2. PICK b \in Nat : b = c[i]
        BY <2>5
      <4>3. PICK d \in Nat : d = s[q] + c[q]
        BY <2>10
      <4>4. a + b + 1 < d /\ (q < i => d < a) /\ (q = i => d = a + b)
        BY <2>9, <2>10, <4>1, <4>2, <4>3
      <4>. QED
        BY <4>4
    <3>3. CASE q = i + 1
      BY <2>9, <3>3
    <3>4. CASE i + 1 < q
      <4>1. s[i + 1] + c[i + 1] < s[q] /\ s[q] \in Nat
        BY <2>10, <3>4
      <4>3. s[q] <= s[i] + c[i] + 1
        BY <2>9
      <4>4. PICK a \in Nat : a = s[i + 1]
        BY <2>5
      <4>5. PICK b \in Nat : b = c[i + 1]
        BY <2>5
      <4>6. PICK d \in Nat : d = s[q]
        BY <2>10
      <4>7. PICK e \in Nat : e = s[i] + c[i] + 1
        BY <2>5
      <4>8. a + b < d /\ d <= e
        BY <4>1, <4>3, <4>4, <4>5, <4>6, <4>7
      <4>9. a <= e
        BY <4>8
      <4>. QED
        BY <4>4, <4>7, <4>9
    <3>. QED
      BY <3>1, <3>2, <3>3, <3>4
  <2>12. u[i] <= s[i]
    <3>1. PICK a \in Nat : a = u[i + 1]
      BY <2>5
    <3>2. PICK b \in Nat : b = s[i + 1]
      BY <2>5
    <3>3. u[i] + c[i] < a /\ a <= b /\ b <= s[i] + c[i] + 1
      BY <2>3, <2>4, <2>11, <3>1, <3>2
    <3>4. u[i] \in Nat /\ s[i] \in Nat /\ c[i] \in Nat
      BY <2>5
    <3>. QED
      BY <3>3, <3>4
  <2>. QED
    BY <2>1, <2>12
<1>8. 0 .. m - j \subseteq S
  <2>1. m - j \in Nat
    BY <1>1
  <2>. HIDE DEF S
  <2>. QED
    BY <1>6, <1>7, <2>1, UpTo
<1>9. m - j \in 0 .. m - j /\ m - (m - j) = j
  BY <1>1
<1>10. m - j \in S
  <2>. HIDE DEF S
  <2>. QED
    BY <1>8, <1>9
<1>. QED
  BY <1>9, <1>10

\* The solver ends with the last line of a row.
LEMMA CrossLastLine ==
  ASSUME CrossIsSize, NEW c, CrossIsClue(c), NEW l \in SUBSET Crossword!Cells,
      Crossword!Right(l, c), Crossword!end_of_perebor(l),
         NEW m \in SUBSET Crossword!Cells, Crossword!Right(m, c)
  PROVE  ~ CrossBefore(l, m)
<1>1. PICK s : CrossStarts(s, c) /\ l = CrossFilled(s, c)
  BY CrossRightIs
<1>2. PICK u : CrossStarts(u, c) /\ m = CrossFilled(u, c)
  BY CrossRightIs
<1>3. ASSUME CrossBefore(l, m)
      PROVE  FALSE
  <2>1. PICK j \in 1 .. Len(c) : s[j] < u[j] /\ \A i \in 1 .. Len(c) : i < j => s[i] = u[i]
    BY <1>1, <1>2, <1>3, CrossBeforeDecides
  <2>2. u[j] <= s[j]
    BY <1>1, <1>2, CrossStuckIsGreatest DEF Crossword!end_of_perebor
  <2>3. u[j] \in Nat /\ s[j] \in Nat
    BY <1>1, <1>2 DEF CrossStarts
  <2>. QED
    BY <2>1, <2>2, <2>3
<1>. QED
  BY <1>3

\* What the loop of trytry makes of a line.
CrossFollowing(l, c) ==
  LET last == Crossword!island_seeker_to_right_step(l)
  IN Crossword!all_to_left(Crossword!sdvig_island_right_to_one_kletka(l, last), last + 1, c)

\* It is the next line: no right one is between.
LEMMA CrossNextLine ==
  ASSUME CrossIsSize, NEW c, CrossIsClue(c), NEW l \in SUBSET Crossword!Cells,
      Crossword!Right(l, c), ~ Crossword!end_of_perebor(l)
  PROVE  /\ CrossFollowing(l, c) \in SUBSET Crossword!Cells /\ Crossword!Right(CrossFollowing(l, c), c)
         /\ CrossBefore(l, CrossFollowing(l, c))
         /\ \A m \in SUBSET Crossword!Cells : Crossword!Right(m, c) /\ CrossBefore(l, m) =>
              m = CrossFollowing(l, c) \/ CrossBefore(CrossFollowing(l, c), m)
<1>1. PICK s : CrossStarts(s, c) /\ l = CrossFilled(s, c)
  BY CrossRightIs
<1>0. Crossword!Movable(l) \in SUBSET (0 .. Crossword!n - 1)
  <2>1. Crossword!Movable(l) \in SUBSET Crossword!LastCells(l) /\ Crossword!LastCells(l) \in SUBSET l
    BY DEF Crossword!Movable, Crossword!LastCells
  <2>. QED
    BY <2>1 DEF Crossword!Cells
<1>2. PICK last \in Crossword!Movable(l) : \A k \in Crossword!Movable(l) : k <= last
  <2>1. Crossword!n - 1 \in Nat /\ Crossword!Movable(l) # {}
    BY DEF Crossword!end_of_perebor, CrossIsSize
  <2>. QED
    BY <1>0, <2>1, CrossGreatestElement
<1>3. Crossword!island_seeker_to_right_step(l) = last
  <2>1. Crossword!Movable(l) \in SUBSET Int
    BY <1>0
  <2>. QED
    BY <1>2, <2>1, CrossRightmostIs DEF Crossword!island_seeker_to_right_step
<1>4. last \in Crossword!LastCells(l) /\ last + 1 < Crossword!n /\ last + 2 \notin l
  BY <1>2 DEF Crossword!Movable
<1>5. PICK i \in 1 .. Len(c) : last = s[i] + c[i] - 1
  BY <1>1, <1>4, CrossEdgesAre
<1>6. s[i] \in Nat /\ c[i] \in Nat /\ c[i] >= 1
  BY <1>1, CrossClueIs DEF CrossStarts
<1>7. last + 1 = s[i] + c[i] /\ last + 2 = s[i] + c[i] + 1
  BY <1>5, <1>6
<1>8. PICK v : /\ CrossStarts(v, c) /\ CrossFilled(v, c) \in SUBSET Crossword!Cells
               /\ CrossFilled(v, c) = Crossword!sdvig_island_right_to_one_kletka(l, last)
               /\ v[i] = s[i] + 1 /\ \A k \in 1 .. Len(c) : k # i => v[k] = s[k]
  BY <1>1, <1>4, <1>5, <1>7, CrossMovedIs
<1>9. last + 1 = v[i] + c[i] - 1
  BY <1>6, <1>7, <1>8
<1>10. PICK t : /\ CrossStarts(t, c) /\ Crossword!all_to_left(CrossFilled(v, c), v[i] + c[i] - 1, c) = CrossFilled(t, c)
                /\ \A k \in 1 .. i : t[k] = v[k]
                /\ CrossTight(t, c, i)
  BY <1>8, CrossPackedIs
<1>11. CrossFollowing(l, c) = CrossFilled(t, c)
  BY <1>3, <1>8, <1>9, <1>10 DEF CrossFollowing
<1>12. Len(c) \in Nat
  BY CrossClueIs
<1>13. i \in 1 .. i /\ t[i] = s[i] + 1 /\ \A k \in 1 .. Len(c) : k < i => t[k] = s[k]
  BY <1>8, <1>10
<1>14. ASSUME NEW u, CrossStarts(u, c), t[i] <= u[i], \A k \in 1 .. Len(c) : k < i => t[k] <= u[k]
       PROVE  \A k \in 1 .. Len(c) : t[k] <= u[k]
  <2>1. \A k \in i .. Len(c) : t[k] <= u[k]
    BY <1>10, <1>14, CrossTightIsLeast
  <2>2. \A k \in 1 .. Len(c) : k < i \/ k \in i .. Len(c)
    BY <1>12
  <2>. QED
    BY <1>14, <2>1, <2>2
<1>15. CrossFilled(t, c) \in SUBSET Crossword!Cells
  <2>1. \A k \in 1 .. Len(c) : k < i => t[k] <= v[k]
    <3>1. ASSUME NEW k \in 1 .. Len(c), k < i
          PROVE  t[k] <= v[k]
      <4>1. t[k] = s[k] /\ v[k] = s[k] /\ s[k] \in Nat
        BY <1>1, <1>8, <1>13, <3>1 DEF CrossStarts
      <4>. QED
        BY <4>1
    <3>. QED
      BY <3>1
  <2>2. t[i] <= v[i]
    BY <1>6, <1>8, <1>13
  <2>. QED
    BY <1>8, <1>10, <1>14, <2>1, <2>2, CrossFitsToo
<1>16. CrossBefore(l, CrossFilled(t, c))
  <2>1. s[i] < t[i]
    BY <1>6, <1>13
  <2>. QED
    BY <1>1, <1>10, <1>13, <2>1, CrossFirstDecides
<1>17. ASSUME NEW m \in SUBSET Crossword!Cells, Crossword!Right(m, c), CrossBefore(l, m)
       PROVE  m = CrossFilled(t, c) \/ CrossBefore(CrossFilled(t, c), m)
  <2>1. PICK u : CrossStarts(u, c) /\ m = CrossFilled(u, c)
    BY <1>17, CrossRightIs
  <2>2. PICK j \in 1 .. Len(c) : s[j] < u[j] /\ \A k \in 1 .. Len(c) : k < j => s[k] = u[k]
    BY <1>1, <1>17, <2>1, CrossBeforeDecides
  <2>3. \A k \in 1 .. Len(c) : s[k] \in Nat /\ u[k] \in Nat /\ t[k] \in Nat /\ c[k] \in Nat /\ c[k] >= 1
    BY <1>1, <1>10, <2>1, CrossClueIs DEF CrossStarts
  <2>4. CASE j < i
    <3>1. t[j] < u[j]
      BY <1>13, <2>2, <2>4
    <3>2. \A k \in 1 .. Len(c) : k < j => t[k] = u[k]
      BY <1>13, <2>2, <2>4
    <3>. QED
      BY <1>10, <2>1, <3>1, <3>2, CrossFirstDecides
  <2>5. CASE j = i
    <3>1. t[i] <= u[i]
      BY <1>6, <1>13, <2>2, <2>3, <2>5
    <3>2. \A k \in 1 .. Len(c) : k < i => t[k] <= u[k]
      BY <1>13, <2>2, <2>3, <2>5
    <3>. QED
      BY <1>10, <1>14, <2>1, <3>1, <3>2, CrossLeftIsFirst
  <2>6. CASE i < j
    <3>1. ASSUME NEW k \in j .. Len(c)
          PROVE  s[k] + c[k] - 1 \notin Crossword!Movable(CrossFilled(s, c))
      <4>1. k \in 1 .. Len(c) /\ i < k
        BY <1>12, <2>6
      <4>2. s[i] + c[i] < s[k] /\ s[k] \in Nat /\ c[k] \in Nat /\ c[k] >= 1
        BY <1>1, <2>3, <4>1, CrossIncreasing
      <4>3. ~ (s[k] + c[k] - 1 <= last)
        BY <1>5, <1>6, <4>2, SMTT(30)
      <4>. QED
        BY <1>1, <1>2, <4>3
    <3>2. u[j] <= s[j]
      BY <1>1, <1>17, <2>1, <3>1, CrossStuckIsGreatest
    <3>. QED
      BY <2>2, <2>3, <3>2
  <2>. QED
    BY <2>4, <2>5, <2>6
<1>. QED
  BY <1>10, <1>11, <1>15, <1>16, <1>17, CrossRightIs

----------------------------------------------------------------------------
(* The search with return: the invariant. *)

CrossFit(x) == {l \in SUBSET Crossword!Cells : Crossword!Right(l, puzzle.rows[x])}

CrossSolution(f) ==
  /\ f \in [Crossword!Cells -> SUBSET Crossword!Cells] /\ \A x \in Crossword!Cells : f[x] \in CrossFit(x)
  /\ \A y \in Crossword!Cells : Crossword!Right(Crossword!Column(f, y), puzzle.columns[y])

\* Grids with the same rows above one.
CrossAgree(f, g, x) == \A k \in Crossword!Cells : k < x => f[k] = g[k]

CrossUnstarted == at = "try" /\ fresh

\* A grid that the search has passed, in the order of the lines, and one that it will
\* come to.
CrossPast(f) ==
  \E x \in Crossword!Cells :
    /\ CrossAgree(f, field, x)
    /\ \/ x < row /\ CrossBefore(f[x], field[x])
       \/ x = row /\ ~ CrossUnstarted /\ (f[x] = line \/ CrossBefore(f[x], line))

CrossAhead(f) ==
  \E x \in Crossword!Cells :
    /\ CrossAgree(f, field, x)
    /\ \/ x < row /\ CrossBefore(field[x], f[x])
       \/ x = row /\ (CrossUnstarted \/ CrossBefore(line, f[x]))

CrossTypes ==
  /\ puzzle \in Puzzles
  /\ field \in [Crossword!Cells -> SUBSET Crossword!Cells] /\ line \in SUBSET Crossword!Cells
  /\ row \in Crossword!Cells
  /\ at \in {"try", "test", "done"} /\ fresh \in BOOLEAN
  /\ printed \in Seq([Crossword!Cells -> SUBSET Crossword!Cells])

\* The rows above are right ones, those below are empty.
CrossRows ==
  /\ \A x \in Crossword!Cells : (x < row => field[x] \in CrossFit(x)) /\ (x > row => field[x] = {})
  /\ at = "try" /\ fresh => line = {}
  /\ at = "try" /\ ~ fresh => line \in CrossFit(row) /\ ~ Crossword!end_of_perebor(line)
  /\ at = "test" => line \in CrossFit(row)

CrossPrinted ==
  /\ \A i \in DOMAIN printed : CrossSolution(printed[i]) /\ (at = "done" \/ CrossPast(printed[i]))
  /\ \A i, j \in DOMAIN printed : printed[i] = printed[j] => i = j

CrossComplete ==
  \A f : CrossSolution(f)
      => (at # "done" /\ CrossAhead(f)) \/ \E i \in DOMAIN printed : printed[i] = f

CrossIInv == CrossTypes /\ CrossRows /\ CrossPrinted /\ CrossComplete

LEMMA CrossPuzzleIs ==
  ASSUME puzzle \in Puzzles
  PROVE  /\ CrossIsSize /\ Crossword!Cells \in SUBSET Nat /\ 0 \in Crossword!Cells
         /\ \A x \in Crossword!Cells : /\ CrossIsClue(puzzle.rows[x]) /\ CrossIsClue(puzzle.columns[x])
                             /\ \E u : CrossStarts(u, puzzle.rows[x])
                                         /\ CrossFilled(u, puzzle.rows[x]) \in SUBSET Crossword!Cells
<1>1. IsPuzzle(puzzle)
  BY PuzzlesAssumption DEF PuzzlesAssumption
<1>2. Crossword!n \in 1 .. 6 /\ Crossword!Cells = 0 .. Crossword!n - 1
  BY <1>1 DEF IsPuzzle, Crossword!n, Crossword!Cells
<1>3. CrossIsSize
  BY <1>2 DEF CrossIsSize
<1>4. ASSUME NEW x \in Crossword!Cells
      PROVE  /\ CrossIsClue(puzzle.rows[x]) /\ CrossIsClue(puzzle.columns[x])
             /\ \E u : CrossStarts(u, puzzle.rows[x])
                         /\ CrossFilled(u, puzzle.rows[x]) \in SUBSET Crossword!Cells
  <2>1. /\ puzzle.columns \in [0 .. Crossword!n - 1 -> Seq(Nat \ {0})]
        /\ puzzle.rows \in [0 .. Crossword!n - 1 -> Seq(Nat \ {0})]
    BY <1>1 DEF IsPuzzle, Crossword!n
  <2>2. CrossIsClue(puzzle.rows[x]) /\ CrossIsClue(puzzle.columns[x])
    BY <1>2, <2>1 DEF CrossIsClue
  <2>3. PICK c : c = puzzle.rows[x]
    OBVIOUS
  <2>4. CrossIsClue(c) /\ DOMAIN c = 1 .. Len(c)
    BY <2>2, <2>3 DEF CrossIsClue
  <2>5. PICK u \in [DOMAIN c -> 0 .. Crossword!n - 1] :
               \A i \in DOMAIN c : /\ u[i] + c[i] <= Crossword!n
                                   /\ i > 1 => u[i - 1] + c[i - 1] < u[i]
    BY <1>1, <1>2, <2>3 DEF IsPuzzle, Crossword!n
  <2>6. PICK m \in Nat : m = Len(c)
    BY <2>4, CrossClueIs
  <2>7. CrossStarts(u, c)
    <3>1. u \in [1 .. Len(c) -> Nat]
      BY <1>2, <2>4, <2>5
    <3>2. ASSUME NEW i \in 1 .. m - 1
          PROVE  u[i] + c[i] < u[i + 1]
      <4>1. i + 1 \in DOMAIN c /\ i + 1 > 1 /\ (i + 1) - 1 = i
        BY <2>4, <2>6
      <4>2. u[(i + 1) - 1] + c[(i + 1) - 1] < u[i + 1]
        BY <2>5, <4>1
      <4>. QED
        BY <4>1, <4>2
    <3>. QED
      BY <2>6, <3>1, <3>2 DEF CrossStarts
  <2>8. ASSUME NEW k \in CrossFilled(u, c)
        PROVE  k \in Crossword!Cells
    <3>1. PICK i \in 1 .. Len(c) : k \in Nat /\ u[i] <= k /\ k < u[i] + c[i]
      BY <2>4, <2>7, CrossFilledIs
    <3>2. u[i] + c[i] <= Crossword!n /\ u[i] \in Nat /\ c[i] \in Nat
      BY <2>4, <2>5, <2>7, CrossClueIs DEF CrossStarts
    <3>. QED
      BY <1>2, <3>1, <3>2
  <2>. QED
    BY <2>2, <2>3, <2>7, <2>8
<1>. QED
  BY <1>2, <1>3, <1>4

LEMMA CrossNoIslands ==
  ASSUME CrossIsSize, NEW l \in SUBSET Crossword!Cells, Crossword!Right(l, <<>>)
  PROVE  l = {} /\ Crossword!end_of_perebor(l)
<1>1. CrossIsClue(<<>>) /\ Len(<<>>) = 0
  BY DEF CrossIsClue
<1>2. PICK s : CrossStarts(s, <<>>) /\ l = CrossFilled(s, <<>>)
  BY <1>1, CrossRightIs
<1>3. l = {}
  BY <1>1, <1>2, CrossFilledIs
<1>. QED
  BY <1>3 DEF Crossword!end_of_perebor, Crossword!Movable, Crossword!LastCells

\* What the loop tries is the next line of the row.
LEMMA CrossTriedIs ==
  ASSUME CrossIInv, at = "try"
  PROVE  /\ Crossword!Tried \in CrossFit(row)
         /\ ~ fresh => CrossBefore(line, Crossword!Tried)
         /\ \A m \in CrossFit(row) : fresh \/ CrossBefore(line, m)
              => m = Crossword!Tried \/ CrossBefore(Crossword!Tried, m)
<1>1. CrossTypes /\ CrossRows
  BY DEF CrossIInv
<1>2. CrossIsSize /\ row \in Crossword!Cells
  BY <1>1, CrossPuzzleIs DEF CrossTypes
<1>3. PICK c : c = puzzle.rows[row]
  OBVIOUS
<1>4. CrossIsClue(c) /\ \E u : CrossStarts(u, c) /\ CrossFilled(u, c) \in SUBSET Crossword!Cells
  BY <1>1, <1>2, <1>3, CrossPuzzleIs DEF CrossTypes
<1>5. \A l : l \in CrossFit(row) <=> l \in SUBSET Crossword!Cells /\ Crossword!Right(l, c)
  BY <1>3 DEF CrossFit
<1>6. CASE c = <<>>
  <2>1. ~ fresh => line \in CrossFit(row) /\ ~ Crossword!end_of_perebor(line)
    BY <1>1 DEF CrossRows
  <2>2. fresh /\ line = {}
    BY <1>1, <1>2, <1>5, <1>6, <2>1, CrossNoIslands DEF CrossRows, CrossTypes
  <2>3. Crossword!Tried = {}
    BY <1>3, <1>6, <2>2 DEF Crossword!Tried
  <2>4. \A m \in CrossFit(row) : m = {}
    BY <1>2, <1>5, <1>6, CrossNoIslands
  <2>5. {} \in CrossFit(row)
    <3>1. PICK u : CrossStarts(u, c) /\ CrossFilled(u, c) \in SUBSET Crossword!Cells
      BY <1>4
    <3>2. Crossword!Right(CrossFilled(u, c), c)
      BY <1>2, <1>4, <3>1, CrossRightIs
    <3>. QED
      BY <1>5, <2>4, <3>1, <3>2
  <2>. QED
    BY <2>2, <2>3, <2>4, <2>5
<1>7. CASE c # <<>> /\ fresh
  <2>1. Crossword!Tried = Crossword!Leftmost(c, 0)
    BY <1>3, <1>7 DEF Crossword!Tried
  <2>. QED
    BY <1>2, <1>4, <1>5, <1>7, <2>1, CrossFirstLine
<1>8. CASE c # <<>> /\ ~ fresh
  <2>1. Crossword!Tried = CrossFollowing(line, c)
    BY <1>3, <1>8 DEF Crossword!Tried, CrossFollowing
  <2>2. line \in SUBSET Crossword!Cells /\ Crossword!Right(line, c) /\ ~ Crossword!end_of_perebor(line)
    BY <1>1, <1>5, <1>8 DEF CrossRows
  <2>3. /\ CrossFollowing(line, c) \in SUBSET Crossword!Cells
        /\ Crossword!Right(CrossFollowing(line, c), c)
        /\ CrossBefore(line, CrossFollowing(line, c))
        /\ \A m \in SUBSET Crossword!Cells : Crossword!Right(m, c) /\ CrossBefore(line, m) =>
             m = CrossFollowing(line, c) \/ CrossBefore(CrossFollowing(line, c), m)
    BY <1>2, <1>4, <2>2, CrossNextLine
  <2>. QED
    BY <1>5, <1>8, <2>1, <2>3
<1>. QED
  BY <1>6, <1>7, <1>8

LEMMA CrossWithTriedIs ==
  ASSUME CrossIInv, at = "try"
  PROVE  /\ Crossword!WithTried \in [Crossword!Cells -> SUBSET Crossword!Cells] /\ Crossword!WithTried[row] = Crossword!Tried
         /\ \A x \in Crossword!Cells : x # row => Crossword!WithTried[x] = field[x]
BY CrossTriedIs DEF CrossIInv, CrossTypes, Crossword!WithTried, CrossFit

\* A solution that begins with what is placed passes the checks.
LEMMA CrossNotDropped ==
  ASSUME CrossIInv, at = "try", NEW f, CrossSolution(f), CrossAgree(f, field, row),
      f[row] = Crossword!Tried
  PROVE  /\ Crossword!field_checking(Crossword!WithTried)
         /\ row = Crossword!n - 1
              => f = Crossword!WithTried /\ Crossword!total_check_field(Crossword!WithTried)
<1>1. /\ CrossIsSize /\ row \in Crossword!Cells /\ Crossword!Cells \in SUBSET Nat
      /\ \A x \in Crossword!Cells : CrossIsClue(puzzle.columns[x])
  BY CrossPuzzleIs DEF CrossIInv, CrossTypes
<1>2. /\ Crossword!WithTried \in [Crossword!Cells -> SUBSET Crossword!Cells]
      /\ Crossword!WithTried[row] = Crossword!Tried
      /\ \A x \in Crossword!Cells : x # row => Crossword!WithTried[x] = field[x]
  BY CrossWithTriedIs
<1>3. \A x \in Crossword!Cells : x > row => field[x] = {}
  BY DEF CrossIInv, CrossRows
<1>4. ASSUME NEW x \in Crossword!Cells
      PROVE  /\ x <= row => Crossword!WithTried[x] = f[x]
             /\ x > row => Crossword!WithTried[x] = {}
  <2>1. x \in Nat /\ row \in Nat
    BY <1>1
  <2>2. CASE x < row
    BY <1>2, <2>1, <2>2 DEF CrossAgree
  <2>3. CASE x = row
    BY <1>2, <2>1, <2>3
  <2>4. CASE x > row
    BY <1>2, <1>3, <2>1, <2>4
  <2>. QED
    BY <2>1, <2>2, <2>3, <2>4
<1>5. ASSUME NEW y \in Crossword!Cells
      PROVE  Crossword!line_cheking(Crossword!Column(Crossword!WithTried, y), puzzle.columns[y])
  <2>1. Crossword!Column(Crossword!WithTried, y) = {k \in Crossword!Column(f, y) : k <= row}
    <3>1. ASSUME NEW x \in Crossword!Cells
          PROVE  y \in Crossword!WithTried[x] <=> y \in f[x] /\ x <= row
      <4>1. x \in Nat /\ row \in Nat
        BY <1>1
      <4>. QED
        BY <1>4, <4>1
    <3>. QED
      BY <3>1 DEF Crossword!Column
  <2>2. Crossword!Column(f, y) \in SUBSET Crossword!Cells /\ Crossword!Right(Crossword!Column(f, y), puzzle.columns[y])
    BY DEF CrossSolution, Crossword!Column
  <2>. QED
    BY <1>1, <2>1, <2>2, CrossPartPasses
<1>6. ASSUME row = Crossword!n - 1
      PROVE  f = Crossword!WithTried /\ Crossword!total_check_field(Crossword!WithTried)
  <2>1. \A x \in Crossword!Cells : x <= row
    BY <1>6 DEF Crossword!Cells
  <2>2. f = Crossword!WithTried
    <3>1. f \in [Crossword!Cells -> SUBSET Crossword!Cells]
      BY DEF CrossSolution
    <3>. QED
      BY <1>2, <1>4, <2>1, <3>1
  <2>3. ASSUME NEW y \in Crossword!Cells
        PROVE  Crossword!total_line_checking(Crossword!Column(Crossword!WithTried, y), puzzle.columns[y])
    <3>1. Crossword!Column(f, y) \in SUBSET Crossword!Cells /\ Crossword!Right(Crossword!Column(f, y), puzzle.columns[y])
      BY DEF CrossSolution, Crossword!Column
    <3>. QED
      BY <1>1, <2>2, <3>1, CrossCheckedIs
  <2>. QED
    BY <2>2, <2>3 DEF Crossword!total_check_field
<1>. QED
  BY <1>5, <1>6 DEF Crossword!field_checking

\* What win prints is a solution.
LEMMA CrossWinIsSolution ==
  ASSUME CrossIInv, at = "try", row = Crossword!n - 1,
      Crossword!total_check_field(Crossword!WithTried)
  PROVE  CrossSolution(Crossword!WithTried)
<1>1. /\ CrossIsSize /\ row \in Crossword!Cells /\ Crossword!Cells \in SUBSET Nat
      /\ \A x \in Crossword!Cells : CrossIsClue(puzzle.columns[x])
  BY CrossPuzzleIs DEF CrossIInv, CrossTypes
<1>2. /\ Crossword!WithTried \in [Crossword!Cells -> SUBSET Crossword!Cells]
      /\ Crossword!WithTried[row] = Crossword!Tried
      /\ \A x \in Crossword!Cells : x # row => Crossword!WithTried[x] = field[x]
  BY CrossWithTriedIs
<1>3. ASSUME NEW x \in Crossword!Cells
      PROVE  Crossword!WithTried[x] \in CrossFit(x)
  <2>1. CASE x = row
    BY <1>2, <2>1, CrossTriedIs
  <2>2. CASE x # row
    <3>1. x < row
      BY <1>1, <2>2 DEF Crossword!Cells, CrossIsSize
    <3>. QED
      BY <1>2, <2>2, <3>1 DEF CrossIInv, CrossRows
  <2>. QED
    BY <2>1, <2>2
<1>4. ASSUME NEW y \in Crossword!Cells
      PROVE  Crossword!Right(Crossword!Column(Crossword!WithTried, y), puzzle.columns[y])
  <2>1. Crossword!Column(Crossword!WithTried, y) \in SUBSET Crossword!Cells
    BY DEF Crossword!Column
  <2>2. Crossword!total_line_checking(Crossword!Column(Crossword!WithTried, y), puzzle.columns[y])
    BY DEF Crossword!total_check_field
  <2>. QED
    BY <1>1, <2>1, <2>2, CrossCheckedIs
<1>. QED
  BY <1>2, <1>3, <1>4 DEF CrossSolution

----------------------------------------------------------------------------
(* The search with return: its steps. *)

LEMMA CrossSamePuzzle ==
  ASSUME puzzle' = puzzle
  PROVE  /\ Crossword!n' = Crossword!n /\ Crossword!Cells' = Crossword!Cells
         /\ \A x : CrossFit(x)' = CrossFit(x)
         /\ \A f : CrossSolution(f)' <=> CrossSolution(f)
         /\ \A l : Crossword!end_of_perebor(l)' <=> Crossword!end_of_perebor(l)
         /\ \A f, g, x : CrossAgree(f, g, x)' <=> CrossAgree(f, g, x)
<1>1. Crossword!n' = Crossword!n
  BY DEF Crossword!n
<1>2. Crossword!Cells' = Crossword!Cells
  BY <1>1 DEF Crossword!Cells
<1>3. \A l, c : Crossword!Right(l, c)' <=> Crossword!Right(l, c)
  BY <1>2 DEF Crossword!Right, Crossword!Interval
<1>4. \A f, y : Crossword!Column(f, y)' = Crossword!Column(f, y)
  BY <1>2 DEF Crossword!Column
<1>5. \A x : CrossFit(x)' = CrossFit(x)
  BY <1>2, <1>3 DEF CrossFit
<1>6. \A f : CrossSolution(f)' <=> CrossSolution(f)
  BY <1>2, <1>3, <1>4, <1>5 DEF CrossSolution
<1>7. \A l : Crossword!end_of_perebor(l)' <=> Crossword!end_of_perebor(l)
  BY <1>1 DEF Crossword!end_of_perebor, Crossword!Movable, Crossword!LastCells
<1>8. \A f, g, x : CrossAgree(f, g, x)' <=> CrossAgree(f, g, x)
  BY <1>2 DEF CrossAgree
<1>. QED
  BY <1>1, <1>2, <1>5, <1>6, <1>7, <1>8

\* Where what is passed and what is ahead stand to the line that is tried.
LEMMA CrossPastTried ==
  ASSUME CrossIInv, at = "try", NEW f, CrossSolution(f), CrossPast(f)
  PROVE  \E x \in Crossword!Cells :
           /\ CrossAgree(f, field, x)
           /\ \/ x < row /\ CrossBefore(f[x], field[x])
              \/ x = row /\ CrossBefore(f[x], Crossword!Tried)
<1>1. PICK x \in Crossword!Cells :
            /\ CrossAgree(f, field, x)
            /\ \/ x < row /\ CrossBefore(f[x], field[x])
               \/ x = row /\ ~ CrossUnstarted /\ (f[x] = line \/ CrossBefore(f[x], line))
  BY DEF CrossPast
<1>2. CASE x = row /\ ~ CrossUnstarted /\ (f[x] = line \/ CrossBefore(f[x], line))
  <2>1. CrossBefore(line, Crossword!Tried)
    BY <1>2, CrossTriedIs DEF CrossUnstarted
  <2>2. f[x] \in SUBSET Nat /\ line \in SUBSET Nat /\ Crossword!Tried \in SUBSET Nat
    BY CrossTriedIs, CrossPuzzleIs DEF CrossIInv, CrossTypes, CrossSolution, CrossFit
  <2>3. CrossBefore(f[x], Crossword!Tried)
    BY <1>2, <2>1, <2>2, CrossBeforeThat
  <2>. QED
    BY <1>1, <1>2, <2>3
<1>. QED
  BY <1>1, <1>2

LEMMA CrossAheadTried ==
  ASSUME CrossIInv, at = "try", NEW f, CrossSolution(f), CrossAhead(f)
  PROVE  \E x \in Crossword!Cells :
           /\ CrossAgree(f, field, x)
           /\ \/ x < row /\ CrossBefore(field[x], f[x])
              \/ x = row /\ (f[x] = Crossword!Tried \/ CrossBefore(Crossword!Tried, f[x]))
<1>1. PICK x \in Crossword!Cells :
            /\ CrossAgree(f, field, x)
            /\ \/ x < row /\ CrossBefore(field[x], f[x])
               \/ x = row /\ (CrossUnstarted \/ CrossBefore(line, f[x]))
  BY DEF CrossAhead
<1>2. CASE x = row /\ (CrossUnstarted \/ CrossBefore(line, f[x]))
  <2>1. f[row] \in CrossFit(row)
    BY <1>2 DEF CrossSolution
  <2>2. f[row] = Crossword!Tried \/ CrossBefore(Crossword!Tried, f[row])
    BY <1>2, <2>1, CrossTriedIs DEF CrossUnstarted
  <2>. QED
    BY <1>1, <1>2, <2>2
<1>. QED
  BY <1>1, <1>2

LEMMA CrossInitIInv == Crossword!Init => CrossIInv
<1>. SUFFICES ASSUME Crossword!Init PROVE CrossIInv
  OBVIOUS
<1>1. /\ puzzle \in Puzzles /\ field = [x \in Crossword!Cells |-> {}] /\ line = {} /\ row = 0
      /\ at = "try" /\ fresh = TRUE /\ printed = <<>>
  BY DEF Crossword!Init
<1>2. 0 \in Crossword!Cells /\ Crossword!Cells \in SUBSET Nat
  BY <1>1, CrossPuzzleIs
<1>3. CrossTypes
  BY <1>1, <1>2 DEF CrossTypes
<1>4. CrossRows
  BY <1>1, <1>2 DEF CrossRows
<1>5. CrossPrinted
  BY <1>1 DEF CrossPrinted
<1>6. ASSUME NEW f
      PROVE  CrossAhead(f)
  <2>1. \A k \in Crossword!Cells : ~ (k < 0)
    BY <1>2
  <2>2. CrossAgree(f, field, 0)
    BY <2>1 DEF CrossAgree
  <2>. QED
    BY <1>1, <1>2, <2>2 DEF CrossAhead, CrossUnstarted
<1>7. CrossComplete
  BY <1>1, <1>6 DEF CrossComplete
<1>. QED
  BY <1>3, <1>4, <1>5, <1>7 DEF CrossIInv

\* A step that prints nothing and does not end the search keeps Printed and Complete if
\* what was passed is passed still, and what was ahead is so still.
LEMMA CrossNothingPrinted ==
  ASSUME CrossIInv, puzzle' = puzzle, printed' = printed, at # "done", at' # "done",
         \A f : CrossSolution(f) /\ CrossPast(f) => CrossPast(f)',
         \A f : CrossSolution(f) /\ CrossAhead(f) => CrossAhead(f)'
  PROVE  CrossPrinted' /\ CrossComplete'
<1>1. \A f : CrossSolution(f)' <=> CrossSolution(f)
  BY CrossSamePuzzle
<1>2. CrossPrinted'
  BY <1>1 DEF CrossIInv, CrossPrinted
<1>3. CrossComplete'
  BY <1>1 DEF CrossIInv, CrossComplete
<1>. QED
  BY <1>2, <1>3

\* Where a grid stands after a step.
LEMMA CrossPastAfter ==
  ASSUME puzzle' = puzzle, NEW f, NEW x \in Crossword!Cells, CrossAgree(f, field', x),
         \/ x < row' /\ CrossBefore(f[x], field'[x])
         \/ x = row' /\ ~ CrossUnstarted' /\ (f[x] = line' \/ CrossBefore(f[x], line'))
  PROVE  CrossPast(f)'
<1>1. Crossword!Cells' = Crossword!Cells
  BY CrossSamePuzzle
<1>2. CrossAgree(f, field, x)' <=> CrossAgree(f, field', x)
  BY <1>1 DEF CrossAgree
<1>3. /\ CrossBefore(f[x], field[x])' <=> CrossBefore(f[x], field'[x])
      /\ CrossBefore(f[x], line)' <=> CrossBefore(f[x], line')
  BY DEF CrossBefore
<1>. QED
  BY <1>1, <1>2, <1>3 DEF CrossPast

LEMMA CrossAheadAfter ==
  ASSUME puzzle' = puzzle, NEW f, NEW x \in Crossword!Cells, CrossAgree(f, field', x),
         \/ x < row' /\ CrossBefore(field'[x], f[x])
         \/ x = row' /\ (CrossUnstarted' \/ CrossBefore(line', f[x]))
  PROVE  CrossAhead(f)'
<1>1. Crossword!Cells' = Crossword!Cells
  BY CrossSamePuzzle
<1>2. CrossAgree(f, field, x)' <=> CrossAgree(f, field', x)
  BY <1>1 DEF CrossAgree
<1>3. /\ CrossBefore(field[x], f[x])' <=> CrossBefore(field'[x], f[x])
      /\ CrossBefore(line, f[x])' <=> CrossBefore(line', f[x])
  BY DEF CrossBefore
<1>. QED
  BY <1>1, <1>2, <1>3 DEF CrossAhead

\* Above the row of the search the field does not change.
LEMMA CrossAgreeStill ==
  ASSUME row \in Crossword!Cells, Crossword!Cells \in SUBSET Nat, NEW g,
      \A k \in Crossword!Cells : k # row => g[k] = field[k],
         NEW f, NEW x \in Crossword!Cells, x <= row
  PROVE  CrossAgree(f, field, x) <=> CrossAgree(f, g, x)
<1>1. ASSUME NEW k \in Crossword!Cells, k < x
      PROVE  g[k] = field[k]
  <2>1. k \in Nat /\ x \in Nat /\ row \in Nat
    OBVIOUS
  <2>2. k # row
    BY <1>1, <2>1
  <2>. QED
    BY <2>2
<1>. QED
  BY <1>1 DEF CrossAgree

LEMMA CrossDeeperIInv == CrossIInv /\ Crossword!Deeper => CrossIInv'
<1>. SUFFICES ASSUME CrossIInv, Crossword!Deeper PROVE CrossIInv'
  OBVIOUS
<1>1. /\ at = "try" /\ row < Crossword!n - 1
      /\ field' = Crossword!WithTried /\ line' = {} /\ row' = row + 1 /\ fresh' = TRUE
      /\ puzzle' = puzzle /\ at' = at /\ printed' = printed
  BY DEF Crossword!Deeper
<1>2. /\ CrossTypes /\ CrossRows /\ CrossIsSize /\ row \in Crossword!Cells
      /\ Crossword!Cells \in SUBSET Nat
  BY CrossPuzzleIs DEF CrossIInv, CrossTypes
<1>3. /\ Crossword!WithTried \in [Crossword!Cells -> SUBSET Crossword!Cells]
      /\ Crossword!WithTried[row] = Crossword!Tried
      /\ \A x \in Crossword!Cells : x # row => Crossword!WithTried[x] = field[x]
  BY <1>1, CrossWithTriedIs
<1>4. /\ Crossword!n' = Crossword!n /\ Crossword!Cells' = Crossword!Cells /\ \A x : CrossFit(x)' = CrossFit(x)
  BY <1>1, CrossSamePuzzle
<1>5. row + 1 \in Crossword!Cells /\ row \in Nat
  BY <1>1, <1>2 DEF Crossword!Cells, CrossIsSize
<1>6. CrossTypes'
  BY <1>1, <1>2, <1>3, <1>4, <1>5 DEF CrossTypes
<1>7. CrossRows'
  <2>1. ASSUME NEW x \in Crossword!Cells
        PROVE  /\ x < row + 1 => Crossword!WithTried[x] \in CrossFit(x)
               /\ x > row + 1 => Crossword!WithTried[x] = {}
    <3>1. x \in Nat
      BY <1>2
    <3>2. CASE x < row
      BY <1>2, <1>3, <1>5, <3>1, <3>2 DEF CrossRows
    <3>3. CASE x = row
      BY <1>1, <1>3, <1>5, <3>3, CrossTriedIs
    <3>4. CASE x > row
      BY <1>2, <1>3, <1>5, <3>1, <3>4 DEF CrossRows
    <3>. QED
      BY <1>5, <3>1, <3>2, <3>3, <3>4
  <2>. QED
    BY <1>1, <1>4, <2>1 DEF CrossRows
<1>8. \A k \in Crossword!Cells : k # row => field'[k] = field[k]
  BY <1>1, <1>3
<1>9. ASSUME NEW f, CrossSolution(f), CrossPast(f)
      PROVE  CrossPast(f)'
  <2>1. PICK x \in Crossword!Cells :
            /\ CrossAgree(f, field, x)
            /\ \/ x < row /\ CrossBefore(f[x], field[x])
               \/ x = row /\ CrossBefore(f[x], Crossword!Tried)
    BY <1>1, <1>9, CrossPastTried
  <2>2. x \in Nat /\ x <= row /\ x < row + 1
    BY <1>2, <1>5, <2>1
  <2>3. CrossAgree(f, field', x)
    BY <1>2, <1>8, <2>1, <2>2, CrossAgreeStill
  <2>4. CrossBefore(f[x], Crossword!WithTried[x])
    BY <1>3, <1>5, <2>1, <2>2
  <2>. QED
    BY <1>1, <2>2, <2>3, <2>4, CrossPastAfter
<1>10. ASSUME NEW f, CrossSolution(f), CrossAhead(f)
       PROVE  CrossAhead(f)'
  <2>1. PICK x \in Crossword!Cells :
            /\ CrossAgree(f, field, x)
            /\ \/ x < row /\ CrossBefore(field[x], f[x])
               \/ x = row /\ (f[x] = Crossword!Tried \/ CrossBefore(Crossword!Tried, f[x]))
    BY <1>1, <1>10, CrossAheadTried
  <2>2. x \in Nat /\ x <= row /\ x < row + 1
    BY <1>2, <1>5, <2>1
  <2>3. CrossAgree(f, field', x)
    BY <1>2, <1>8, <2>1, <2>2, CrossAgreeStill
  <2>4. CASE x = row /\ f[x] = Crossword!Tried
    <3>1. ASSUME NEW k \in Crossword!Cells, k < row + 1
          PROVE  f[k] = field'[k]
      <4>1. k \in Nat
        BY <1>2
      <4>2. CASE k = row
        BY <1>1, <1>3, <2>4, <4>2
      <4>3. CASE k < row
        BY <2>3, <2>4, <4>3 DEF CrossAgree
      <4>. QED
        BY <1>5, <3>1, <4>1, <4>2, <4>3
    <3>2. PICK z \in Crossword!Cells : z = row + 1
      BY <1>5
    <3>3. CrossAgree(f, field', z)
      BY <3>1, <3>2 DEF CrossAgree
    <3>4. CrossUnstarted' /\ z = row'
      BY <1>1, <3>2 DEF CrossUnstarted
    <3>. QED
      BY <1>1, <3>3, <3>4, CrossAheadAfter
  <2>5. CASE ~ (x = row /\ f[x] = Crossword!Tried)
    <3>1. CrossBefore(Crossword!WithTried[x], f[x])
      BY <1>3, <1>5, <2>1, <2>2, <2>5
    <3>. QED
      BY <1>1, <2>2, <2>3, <3>1, CrossAheadAfter
  <2>. QED
    BY <2>4, <2>5
<1>11. CrossPrinted' /\ CrossComplete'
  BY <1>1, <1>9, <1>10, CrossNothingPrinted
<1>. QED
  BY <1>6, <1>7, <1>11 DEF CrossIInv

LEMMA CrossFailIInv == CrossIInv /\ Crossword!Fail => CrossIInv'
<1>. SUFFICES ASSUME CrossIInv, Crossword!Fail PROVE CrossIInv'
  OBVIOUS
<1>1. /\ at = "try" /\ field' = Crossword!WithTried /\ line' = Crossword!Tried /\ at' = "test"
      /\ puzzle' = puzzle /\ row' = row /\ fresh' = fresh /\ printed' = printed
      /\ ~ Crossword!field_checking(Crossword!WithTried) \/ (row = Crossword!n - 1 /\ ~ Crossword!total_check_field(Crossword!WithTried))
  BY DEF Crossword!Fail
<1>2. /\ CrossTypes /\ CrossRows /\ CrossIsSize /\ row \in Crossword!Cells
      /\ Crossword!Cells \in SUBSET Nat
  BY CrossPuzzleIs DEF CrossIInv, CrossTypes
<1>3. /\ Crossword!WithTried \in [Crossword!Cells -> SUBSET Crossword!Cells]
      /\ Crossword!WithTried[row] = Crossword!Tried
      /\ \A x \in Crossword!Cells : x # row => Crossword!WithTried[x] = field[x]
  BY <1>1, CrossWithTriedIs
<1>4. Crossword!n' = Crossword!n /\ Crossword!Cells' = Crossword!Cells /\ \A x : CrossFit(x)' = CrossFit(x)
  BY <1>1, CrossSamePuzzle
<1>5. Crossword!Tried \in CrossFit(row) /\ Crossword!Tried \in SUBSET Crossword!Cells
  BY <1>1, CrossTriedIs DEF CrossFit
<1>6. CrossTypes'
  BY <1>1, <1>2, <1>3, <1>4, <1>5 DEF CrossTypes
<1>7. CrossRows'
  <2>1. ASSUME NEW x \in Crossword!Cells
        PROVE  /\ x < row => Crossword!WithTried[x] \in CrossFit(x)
               /\ x > row => Crossword!WithTried[x] = {}
    <3>1. x \in Nat /\ row \in Nat
      BY <1>2
    <3>2. x < row \/ x > row => x # row
      BY <3>1
    <3>. QED
      BY <1>2, <1>3, <3>2 DEF CrossRows
  <2>2. Crossword!Tried \in CrossFit(row)'
    BY <1>1, <1>4, <1>5
  <2>3. \A x \in Crossword!Cells : (x < row' => field'[x] \in CrossFit(x)') /\ (x > row' => field'[x] = {})
    BY <1>1, <1>4, <2>1
  <2>. QED
    BY <1>1, <1>4, <2>2, <2>3 DEF CrossRows
<1>8. \A k \in Crossword!Cells : k # row => field'[k] = field[k]
  BY <1>1, <1>3
<1>9. ~ CrossUnstarted'
  BY <1>1 DEF CrossUnstarted
<1>10. ASSUME NEW f, CrossSolution(f), CrossPast(f)
       PROVE  CrossPast(f)'
  <2>1. PICK x \in Crossword!Cells :
            /\ CrossAgree(f, field, x)
            /\ \/ x < row /\ CrossBefore(f[x], field[x])
               \/ x = row /\ CrossBefore(f[x], Crossword!Tried)
    BY <1>1, <1>10, CrossPastTried
  <2>2. x \in Nat /\ row \in Nat /\ x <= row /\ (x < row => x # row)
    BY <1>2, <2>1
  <2>3. CrossAgree(f, field', x)
    BY <1>2, <1>8, <2>1, <2>2, CrossAgreeStill
  <2>4. x < row => field'[x] = field[x]
    BY <1>8, <2>2
  <2>. QED
    BY <1>1, <1>9, <2>1, <2>3, <2>4, CrossPastAfter
<1>11. ASSUME NEW f, CrossSolution(f), CrossAhead(f)
       PROVE  CrossAhead(f)'
  <2>1. PICK x \in Crossword!Cells :
            /\ CrossAgree(f, field, x)
            /\ \/ x < row /\ CrossBefore(field[x], f[x])
               \/ x = row /\ (f[x] = Crossword!Tried \/ CrossBefore(Crossword!Tried, f[x]))
    BY <1>1, <1>11, CrossAheadTried
  <2>2. x \in Nat /\ row \in Nat /\ x <= row /\ (x < row => x # row)
    BY <1>2, <2>1
  <2>3. CrossAgree(f, field', x)
    BY <1>2, <1>8, <2>1, <2>2, CrossAgreeStill
  <2>4. x < row => field'[x] = field[x]
    BY <1>8, <2>2
  <2>5. ~ (x = row /\ f[x] = Crossword!Tried)
    BY <1>1, <1>11, <2>1, CrossNotDropped
  <2>. QED
    BY <1>1, <2>1, <2>3, <2>4, <2>5, CrossAheadAfter
<1>12. CrossPrinted' /\ CrossComplete'
  BY <1>1, <1>10, <1>11, CrossNothingPrinted
<1>. QED
  BY <1>6, <1>7, <1>12 DEF CrossIInv

LEMMA CrossWinIInv == CrossIInv /\ Crossword!win => CrossIInv'
<1>. SUFFICES ASSUME CrossIInv, Crossword!win PROVE CrossIInv'
  OBVIOUS
<1>1. /\ at = "try" /\ field' = [field EXCEPT ![row] = {}] /\ line' = Crossword!Tried
      /\ at' = "test"
      /\ puzzle' = puzzle /\ row' = row /\ fresh' = fresh
      /\ printed' = Append(printed, Crossword!WithTried)
      /\ row = Crossword!n - 1 /\ Crossword!total_check_field(Crossword!WithTried)
  BY DEF Crossword!win
<1>2. /\ CrossTypes /\ CrossRows /\ CrossIsSize /\ row \in Crossword!Cells
      /\ Crossword!Cells \in SUBSET Nat
      /\ field \in [Crossword!Cells -> SUBSET Crossword!Cells]
  BY CrossPuzzleIs DEF CrossIInv, CrossTypes
<1>3. /\ Crossword!WithTried \in [Crossword!Cells -> SUBSET Crossword!Cells]
      /\ Crossword!WithTried[row] = Crossword!Tried
      /\ \A x \in Crossword!Cells : x # row => Crossword!WithTried[x] = field[x]
  BY <1>1, CrossWithTriedIs
<1>4. /\ Crossword!n' = Crossword!n /\ Crossword!Cells' = Crossword!Cells /\ \A x : CrossFit(x)' = CrossFit(x)
      /\ \A f : CrossSolution(f)' <=> CrossSolution(f)
  BY <1>1, CrossSamePuzzle
<1>5. Crossword!Tried \in CrossFit(row) /\ Crossword!Tried \in SUBSET Crossword!Cells
  BY <1>1, CrossTriedIs DEF CrossFit
<1>6. field' \in [Crossword!Cells -> SUBSET Crossword!Cells] /\ \A k \in Crossword!Cells : k # row
        => field'[k] = field[k]
  BY <1>1, <1>2
<1>7. CrossTypes'
  <2>1. printed' \in Seq([Crossword!Cells -> SUBSET Crossword!Cells])
    <3>1. printed \in Seq([Crossword!Cells -> SUBSET Crossword!Cells])
      BY <1>2 DEF CrossTypes
    <3>. QED
      BY <1>1, <1>3, <3>1
  <2>. QED
    BY <1>1, <1>2, <1>4, <1>5, <1>6, <2>1 DEF CrossTypes
<1>8. CrossRows'
  <2>1. ASSUME NEW x \in Crossword!Cells
        PROVE  /\ x < row => field'[x] \in CrossFit(x)
               /\ x > row => field'[x] = {}
    <3>1. x \in Nat /\ row \in Nat
      BY <1>2
    <3>2. x < row \/ x > row => x # row
      BY <3>1
    <3>. QED
      BY <1>2, <1>6, <3>2 DEF CrossRows
  <2>2. Crossword!Tried \in CrossFit(row)'
    BY <1>1, <1>4, <1>5
  <2>3. \A x \in Crossword!Cells : (x < row' => field'[x] \in CrossFit(x)') /\ (x > row' => field'[x] = {})
    BY <1>1, <1>4, <2>1
  <2>. QED
    BY <1>1, <1>4, <2>2, <2>3 DEF CrossRows
<1>9. ~ CrossUnstarted'
  BY <1>1 DEF CrossUnstarted
<1>10. ASSUME NEW f, CrossSolution(f), CrossPast(f)
       PROVE  CrossPast(f)' /\ f # Crossword!WithTried
  <2>1. PICK x \in Crossword!Cells :
            /\ CrossAgree(f, field, x)
            /\ \/ x < row /\ CrossBefore(f[x], field[x])
               \/ x = row /\ CrossBefore(f[x], Crossword!Tried)
    BY <1>1, <1>10, CrossPastTried
  <2>2. x \in Nat /\ row \in Nat /\ x <= row /\ (x < row => x # row)
    BY <1>2, <2>1
  <2>3. CrossAgree(f, field', x)
    BY <1>2, <1>6, <2>1, <2>2, CrossAgreeStill
  <2>4. x < row => field'[x] = field[x] /\ Crossword!WithTried[x] = field[x]
    BY <1>3, <1>6, <2>2
  <2>5. f[x] \in SUBSET Nat /\ field[x] \in SUBSET Nat /\ Crossword!Tried \in SUBSET Nat
    BY <1>2, <1>5, <1>10 DEF CrossSolution
  <2>6. f[x] # Crossword!WithTried[x]
    BY <1>3, <2>1, <2>4, <2>5, CrossNotBefore
  <2>7. CrossPast(f)'
    BY <1>1, <1>9, <2>1, <2>3, <2>4, CrossPastAfter
  <2>. QED
    BY <2>6, <2>7
<1>11. ASSUME NEW f, CrossSolution(f), CrossAhead(f)
       PROVE  CrossAhead(f)' \/ f = Crossword!WithTried
  <2>1. PICK x \in Crossword!Cells :
            /\ CrossAgree(f, field, x)
            /\ \/ x < row /\ CrossBefore(field[x], f[x])
               \/ x = row /\ (f[x] = Crossword!Tried \/ CrossBefore(Crossword!Tried, f[x]))
    BY <1>1, <1>11, CrossAheadTried
  <2>2. x \in Nat /\ row \in Nat /\ x <= row /\ (x < row => x # row)
    BY <1>2, <2>1
  <2>3. CrossAgree(f, field', x)
    BY <1>2, <1>6, <2>1, <2>2, CrossAgreeStill
  <2>4. x < row => field'[x] = field[x]
    BY <1>6, <2>2
  <2>5. x = row /\ f[x] = Crossword!Tried => f = Crossword!WithTried
    BY <1>1, <1>11, <2>1, CrossNotDropped
  <2>. QED
    BY <1>1, <2>1, <2>3, <2>4, <2>5, CrossAheadAfter
<1>12. PICK g : g = Crossword!WithTried
  OBVIOUS
<1>13. CrossSolution(g) /\ CrossPast(g)'
  <2>1. CrossSolution(g)
    BY <1>1, <1>12, CrossWinIsSolution
  <2>2. \A k \in Crossword!Cells : k < row => k # row
    BY <1>2
  <2>3. CrossAgree(g, field', row)
    BY <1>3, <1>6, <1>12, <2>2 DEF CrossAgree
  <2>4. PICK z \in Crossword!Cells : z = row
    BY <1>2
  <2>5. CrossAgree(g, field', z) /\ z = row' /\ g[z] = line'
    BY <1>1, <1>3, <1>12, <2>3, <2>4
  <2>. QED
    BY <1>1, <1>9, <2>1, <2>5, CrossPastAfter
<1>14. PICK m \in Nat : m = Len(printed)
  BY <1>2 DEF CrossTypes
<1>15. /\ DOMAIN printed = 1 .. m /\ DOMAIN printed' = 1 .. m + 1
       /\ printed'[m + 1] = g /\ \A i \in 1 .. m : printed'[i] = printed[i]
  BY <1>1, <1>2, <1>12, <1>14 DEF CrossTypes
<1>16. \A i \in 1 .. m : CrossSolution(printed[i]) /\ CrossPast(printed[i])
  BY <1>1, <1>15 DEF CrossIInv, CrossPrinted
<1>17. ASSUME NEW i \in 1 .. m + 1
       PROVE  \E f : f = printed'[i] /\ CrossSolution(f) /\ CrossPast(f)' /\ (i <= m => f # g)
  <2>1. CASE i \in 1 .. m
    <3>1. PICK f : f = printed[i]
      OBVIOUS
    <3>2. CrossSolution(f) /\ CrossPast(f)
      BY <1>16, <2>1, <3>1
    <3>3. CrossPast(f)' /\ f # g
      BY <1>10, <1>12, <3>2
    <3>. QED
      BY <1>15, <2>1, <3>1, <3>2, <3>3
  <2>2. CASE i = m + 1
    <3>1. ~ (i <= m)
      BY <2>2
    <3>. QED
      BY <1>13, <1>15, <2>2, <3>1
  <2>3. i \in 1 .. m \/ i = m + 1
    OBVIOUS
  <2>. QED
    BY <2>1, <2>2, <2>3
<1>18. CrossPrinted'
  <2>1. ASSUME NEW i \in DOMAIN printed'
        PROVE  CrossSolution(printed[i])' /\ CrossPast(printed[i])'
    <3>1. PICK f : f = printed'[i] /\ CrossSolution(f) /\ CrossPast(f)'
      BY <1>15, <1>17
    <3>2. CrossSolution(f)'
      BY <1>4, <3>1
    <3>. QED
      BY <3>1, <3>2
  <2>2. ASSUME NEW i \in DOMAIN printed', NEW j \in DOMAIN printed', printed'[i] = printed'[j]
        PROVE  i = j
    <3>1. i \in 1 .. m + 1 /\ j \in 1 .. m + 1
      BY <1>15
    <3>2. /\ i <= m => printed'[i] # g
          /\ j <= m => printed'[j] # g
      BY <1>17, <3>1
    <3>3. /\ i \in 1 .. m \/ i = m + 1
          /\ j \in 1 .. m \/ j = m + 1
      BY <3>1
    <3>4. CASE i \in 1 .. m /\ j \in 1 .. m
      <4>1. printed[i] = printed[j]
        BY <1>15, <2>2, <3>4
      <4>. QED
        BY <1>15, <3>4, <4>1 DEF CrossIInv, CrossPrinted
    <3>5. CASE i = m + 1
      <4>1. ~ (j <= m)
        BY <1>15, <2>2, <3>2, <3>5
      <4>. QED
        BY <3>3, <3>5, <4>1
    <3>6. CASE j = m + 1
      <4>1. ~ (i <= m)
        BY <1>15, <2>2, <3>2, <3>6
      <4>. QED
        BY <3>3, <3>6, <4>1
    <3>. QED
      BY <3>3, <3>4, <3>5, <3>6
  <2>. QED
    BY <2>1, <2>2 DEF CrossPrinted
<1>19. ASSUME NEW f, CrossSolution(f)
       PROVE  CrossAhead(f)' \/ \E i \in DOMAIN printed' : printed'[i] = f
  <2>1. CASE CrossAhead(f)
    <3>1. m + 1 \in DOMAIN printed'
      BY <1>15
    <3>. QED
      BY <1>11, <1>12, <1>15, <1>19, <2>1, <3>1
  <2>2. CASE ~ CrossAhead(f)
    <3>1. PICK i \in DOMAIN printed : printed[i] = f
      BY <1>1, <1>19, <2>2 DEF CrossIInv, CrossComplete
    <3>2. i \in 1 .. m /\ i \in 1 .. m + 1
      BY <1>15
    <3>. QED
      BY <1>15, <3>1, <3>2
  <2>. QED
    BY <2>1, <2>2
<1>20. CrossComplete'
  BY <1>1, <1>4, <1>19 DEF CrossComplete
<1>. QED
  BY <1>7, <1>8, <1>18, <1>20 DEF CrossIInv

LEMMA CrossAgainIInv == CrossIInv /\ Crossword!Again => CrossIInv'
<1>. SUFFICES ASSUME CrossIInv, Crossword!Again PROVE CrossIInv'
  OBVIOUS
<1>1. /\ at = "test" /\ ~ Crossword!end_of_perebor(line) /\ at' = "try" /\ fresh' = FALSE
      /\ puzzle' = puzzle /\ field' = field /\ line' = line /\ row' = row
      /\ printed' = printed
  BY DEF Crossword!Again
<1>2. CrossTypes /\ CrossRows
  BY DEF CrossIInv
<1>3. /\ Crossword!n' = Crossword!n /\ Crossword!Cells' = Crossword!Cells /\ \A x : CrossFit(x)' = CrossFit(x)
      /\ \A l : Crossword!end_of_perebor(l)' <=> Crossword!end_of_perebor(l)
  BY <1>1, CrossSamePuzzle
<1>4. CrossTypes'
  BY <1>1, <1>2, <1>3 DEF CrossTypes
<1>5. CrossRows'
  <2>1. line' \in CrossFit(row)' /\ ~ Crossword!end_of_perebor(line)'
    <3>1. line \in CrossFit(row)
      BY <1>1, <1>2 DEF CrossRows
    <3>2. PICK x : x = row
      OBVIOUS
    <3>3. line' \in CrossFit(x)'
      BY <1>1, <1>3, <3>1, <3>2
    <3>4. PICK l : l = line
      OBVIOUS
    <3>5. ~ Crossword!end_of_perebor(l)'
      BY <1>1, <1>3, <3>4
    <3>. QED
      BY <1>1, <3>2, <3>3, <3>4, <3>5
  <2>2. \A x \in Crossword!Cells : (x < row => field[x] \in CrossFit(x)) /\ (x > row => field[x] = {})
    BY <1>2 DEF CrossRows
  <2>. QED
    BY <1>1, <1>3, <2>1, <2>2 DEF CrossRows
<1>6. ~ CrossUnstarted /\ ~ CrossUnstarted'
  BY <1>1 DEF CrossUnstarted
<1>7. ASSUME NEW f, CrossPast(f)
      PROVE  CrossPast(f)'
  BY <1>1, <1>6, <1>7, CrossPastAfter DEF CrossPast
<1>8. ASSUME NEW f, CrossAhead(f)
      PROVE  CrossAhead(f)'
  BY <1>1, <1>6, <1>8, CrossAheadAfter DEF CrossAhead
<1>9. CrossPrinted' /\ CrossComplete'
  BY <1>1, <1>7, <1>8, CrossNothingPrinted
<1>. QED
  BY <1>4, <1>5, <1>9 DEF CrossIInv

LEMMA CrossReturnIInv == CrossIInv /\ Crossword!Return => CrossIInv'
<1>. SUFFICES ASSUME CrossIInv, Crossword!Return PROVE CrossIInv'
  OBVIOUS
<1>1. /\ at = "test" /\ Crossword!end_of_perebor(line)
      /\ field' = [field EXCEPT ![row] = {}]
      /\ \/ row = 0 /\ at' = "done" /\ line' = line /\ row' = row
         \/ row # 0 /\ line' = field[row - 1] /\ row' = row - 1 /\ at' = at
      /\ puzzle' = puzzle /\ fresh' = fresh /\ printed' = printed
  BY DEF Crossword!Return
<1>2. /\ CrossTypes /\ CrossRows /\ CrossIsSize /\ row \in Crossword!Cells
      /\ Crossword!Cells \in SUBSET Nat
      /\ field \in [Crossword!Cells -> SUBSET Crossword!Cells]
  BY CrossPuzzleIs DEF CrossIInv, CrossTypes
<1>3. /\ Crossword!n' = Crossword!n /\ Crossword!Cells' = Crossword!Cells /\ \A x : CrossFit(x)' = CrossFit(x)
      /\ \A f : CrossSolution(f)' <=> CrossSolution(f)
  BY <1>1, CrossSamePuzzle
<1>4. field' \in [Crossword!Cells -> SUBSET Crossword!Cells] /\ field'[row] = {}
      /\ \A k \in Crossword!Cells : k # row => field'[k] = field[k]
  BY <1>1, <1>2
\* No solution is left that goes on in the row that is erased.
<1>5. ASSUME NEW f, CrossSolution(f)
      PROVE  ~ CrossBefore(line, f[row])
  <2>1. PICK c : c = puzzle.rows[row]
    OBVIOUS
  <2>2. f[row] \in CrossFit(row) /\ line \in CrossFit(row)
    BY <1>1, <1>2, <1>5 DEF CrossSolution, CrossRows
  <2>3. /\ f[row] \in SUBSET Crossword!Cells /\ Crossword!Right(f[row], c)
        /\ line \in SUBSET Crossword!Cells /\ Crossword!Right(line, c)
    BY <2>1, <2>2 DEF CrossFit
  <2>4. CrossIsClue(c)
    BY <1>2, <2>1, CrossPuzzleIs DEF CrossTypes
  <2>. QED
    BY <1>1, <1>2, <2>3, <2>4, CrossLastLine
<1>6. ~ CrossUnstarted /\ ~ CrossUnstarted'
  BY <1>1 DEF CrossUnstarted
<1>7. CASE row = 0
  <2>1. at' = "done" /\ line' = line /\ row' = row
    BY <1>1, <1>7
  <2>2. CrossTypes'
    BY <1>1, <1>2, <1>3, <1>4, <2>1 DEF CrossTypes
  <2>3. \A x \in Crossword!Cells : (x < row => field'[x] \in CrossFit(x)) /\ (x > row => field'[x] = {})
    <3>1. ASSUME NEW x \in Crossword!Cells
          PROVE  ~ (x < row) /\ (x > row => x # row)
      <4>1. x \in Nat
        BY <1>2
      <4>. QED
        BY <1>7, <4>1
    <3>. QED
      BY <1>2, <1>4, <3>1 DEF CrossRows
  <2>4. CrossRows'
    BY <1>3, <2>1, <2>3 DEF CrossRows
  <2>5. CrossPrinted'
    BY <1>1, <1>3, <2>1 DEF CrossIInv, CrossPrinted
  <2>6. ASSUME NEW f, CrossSolution(f)
        PROVE  ~ CrossAhead(f)
    <3>1. ASSUME NEW x \in Crossword!Cells
          PROVE  ~ (x < row)
      <4>1. x \in Nat
        BY <1>2
      <4>. QED
        BY <1>7, <4>1
    <3>. QED
      BY <1>5, <1>6, <2>6, <3>1 DEF CrossAhead
  <2>7. CrossComplete'
    BY <1>1, <1>3, <2>6 DEF CrossIInv, CrossComplete
  <2>. QED
    BY <2>2, <2>4, <2>5, <2>7 DEF CrossIInv
<1>8. CASE row # 0
  <2>0. row - 1 \in Crossword!Cells
    BY <1>2, <1>8 DEF Crossword!Cells, CrossIsSize
  <2>1. PICK z \in Crossword!Cells : z = row - 1
    BY <2>0
  <2>2. at' = "test" /\ line' = field[z] /\ row' = z
    BY <1>1, <1>8, <2>1
  <2>3. z \in Nat /\ row \in Nat /\ z < row /\ z # row /\ row = z + 1
    BY <1>2, <2>1
  <2>4. field[z] \in CrossFit(z) /\ field[z] \in SUBSET Crossword!Cells
    BY <1>2, <2>3 DEF CrossRows
  <2>5. CrossTypes'
    BY <1>1, <1>2, <1>3, <1>4, <2>2, <2>4 DEF CrossTypes
  <2>6. CrossRows'
    <3>1. ASSUME NEW x \in Crossword!Cells
          PROVE  /\ x < z => field'[x] \in CrossFit(x)
                 /\ x > z => field'[x] = {}
      <4>1. x \in Nat
        BY <1>2
      <4>2. CASE x < z
        <5>1. x < row /\ x # row
          BY <2>3, <4>1, <4>2
        <5>2. field'[x] \in CrossFit(x)
          BY <1>2, <1>4, <5>1 DEF CrossRows
        <5>. QED
          BY <2>3, <4>1, <4>2, <5>2
      <4>3. CASE x = row
        BY <1>4, <2>3, <4>3
      <4>4. CASE x > row
        <5>1. x # row /\ x > z
          BY <2>3, <4>1, <4>4
        <5>2. field'[x] = {}
          BY <1>2, <1>4, <4>4, <5>1 DEF CrossRows
        <5>. QED
          BY <2>3, <4>1, <5>1, <5>2
      <4>5. x < z \/ x = z \/ x = row \/ x > row
        BY <2>3, <4>1
      <4>6. x = z => ~ (x < z) /\ ~ (x > z)
        BY <2>3
      <4>. QED
        BY <4>2, <4>3, <4>4, <4>5, <4>6
    <3>2. line' \in CrossFit(z)'
      BY <1>3, <2>2, <2>4
    <3>3. \A x \in Crossword!Cells : (x < row' => field'[x] \in CrossFit(x)') /\ (x > row' => field'[x] = {})
      BY <1>3, <2>2, <3>1
    <3>. QED
      BY <1>3, <2>2, <3>2, <3>3 DEF CrossRows
  <2>7. ASSUME NEW f, NEW x \in Crossword!Cells, CrossAgree(f, field, x), x < row
        PROVE  CrossAgree(f, field', x) /\ field'[x] = field[x] /\ (x < z \/ x = z)
    <3>1. x \in Nat /\ x <= row /\ x # row /\ (x < z \/ x = z)
      BY <1>2, <2>3, <2>7
    <3>2. CrossAgree(f, field', x)
      BY <1>2, <1>4, <2>7, <3>1, CrossAgreeStill
    <3>. QED
      BY <1>4, <3>1, <3>2
  <2>8. ASSUME NEW f, CrossAgree(f, field, row)
        PROVE  CrossAgree(f, field, z) /\ f[z] = line'
    <3>1. ASSUME NEW k \in Crossword!Cells, k < z
          PROVE  f[k] = field[k]
      <4>1. k \in Nat /\ k < row
        BY <1>2, <2>3, <3>1
      <4>. QED
        BY <2>8, <4>1 DEF CrossAgree
    <3>. QED
      BY <2>2, <2>3, <2>8, <3>1 DEF CrossAgree
  <2>9. ASSUME NEW f, CrossSolution(f), CrossPast(f)
        PROVE  CrossPast(f)'
    <3>1. PICK x \in Crossword!Cells :
              /\ CrossAgree(f, field, x)
              /\ \/ x < row /\ CrossBefore(f[x], field[x])
                 \/ x = row /\ (f[x] = line \/ CrossBefore(f[x], line))
      BY <2>9 DEF CrossPast
    <3>2. CASE x < row /\ CrossBefore(f[x], field[x])
      <4>1. CrossAgree(f, field', x) /\ field'[x] = field[x] /\ (x < z \/ x = z)
        BY <2>7, <3>1, <3>2
      <4>. QED
        BY <1>1, <1>6, <2>2, <3>2, <4>1, CrossPastAfter
    <3>3. CASE x = row
      <4>1. CrossAgree(f, field, z) /\ f[z] = line'
        BY <2>8, <3>1, <3>3
      <4>2. CrossAgree(f, field', z)
        BY <2>3, <2>7, <4>1
      <4>. QED
        BY <1>1, <1>6, <2>2, <4>1, <4>2, CrossPastAfter
    <3>. QED
      BY <3>1, <3>2, <3>3
  <2>10. ASSUME NEW f, CrossSolution(f), CrossAhead(f)
         PROVE  CrossAhead(f)'
    <3>1. PICK x \in Crossword!Cells :
              /\ CrossAgree(f, field, x)
              /\ \/ x < row /\ CrossBefore(field[x], f[x])
                 \/ x = row /\ CrossBefore(line, f[x])
      BY <1>6, <2>10 DEF CrossAhead
    <3>2. x < row /\ CrossBefore(field[x], f[x])
      BY <1>5, <2>10, <3>1
    <3>3. CrossAgree(f, field', x) /\ field'[x] = field[x] /\ (x < z \/ x = z)
      BY <2>7, <3>1, <3>2
    <3>. QED
      BY <1>1, <2>2, <3>2, <3>3, CrossAheadAfter
  <2>11. CrossPrinted' /\ CrossComplete'
    BY <1>1, <2>2, <2>9, <2>10, CrossNothingPrinted
  <2>. QED
    BY <2>5, <2>6, <2>11 DEF CrossIInv
<1>. QED
  BY <1>7, <1>8

LEMMA CrossNextIInv == CrossIInv /\ [Crossword!Next]_(Crossword!vars) => CrossIInv'
<1>. SUFFICES ASSUME CrossIInv, [Crossword!Next]_(Crossword!vars) PROVE CrossIInv'
  OBVIOUS
<1>1. CASE Crossword!Next
  BY <1>1, CrossDeeperIInv, CrossWinIInv, CrossFailIInv, CrossAgainIInv, CrossReturnIInv DEF
     Crossword!Next
<1>2. CASE UNCHANGED Crossword!vars
  <2>1. /\ puzzle' = puzzle /\ field' = field /\ line' = line /\ row' = row
        /\ at' = at /\ fresh' = fresh /\ printed' = printed
    BY <1>2 DEF Crossword!vars
  <2>2. /\ Crossword!n' = Crossword!n /\ Crossword!Cells' = Crossword!Cells /\ \A x : CrossFit(x)' = CrossFit(x)
        /\ \A f : CrossSolution(f)' <=> CrossSolution(f)
        /\ \A l : Crossword!end_of_perebor(l)' <=> Crossword!end_of_perebor(l)
    BY <2>1, CrossSamePuzzle
  <2>3. CrossTypes'
    BY <2>1, <2>2 DEF CrossIInv, CrossTypes
  <2>4. CrossRows'
    <3>1. PICK x, l : x = row /\ l = line
      OBVIOUS
    <3>2. CrossFit(x)' = CrossFit(x) /\ (Crossword!end_of_perebor(l)' <=> Crossword!end_of_perebor(l))
      BY <2>2
    <3>3. CrossFit(row)' = CrossFit(row) /\ (Crossword!end_of_perebor(line)' <=> Crossword!end_of_perebor(line))
      BY <2>1, <3>1, <3>2
    <3>4. \A k \in Crossword!Cells : (k < row => field[k] \in CrossFit(k)) /\ (k > row => field[k] = {})
      BY DEF CrossIInv, CrossRows
    <3>5. \A k \in Crossword!Cells : (k < row' => field'[k] \in CrossFit(k)') /\ (k > row' => field'[k] = {})
      BY <2>1, <2>2, <3>4
    <3>. QED
      BY <2>1, <2>2, <3>3, <3>5 DEF CrossIInv, CrossRows
  <2>5. CrossUnstarted' <=> CrossUnstarted
    BY <2>1 DEF CrossUnstarted
  <2>6. ASSUME NEW f
        PROVE  (CrossPast(f) => CrossPast(f)') /\ (CrossAhead(f) => CrossAhead(f)')
    BY <2>1, <2>5, CrossPastAfter, CrossAheadAfter DEF CrossPast, CrossAhead
  <2>7. CrossPrinted'
    BY <2>1, <2>2, <2>6 DEF CrossIInv, CrossPrinted
  <2>8. CrossComplete'
    BY <2>1, <2>2, <2>6 DEF CrossIInv, CrossComplete
  <2>. QED
    BY <2>3, <2>4, <2>7, <2>8 DEF CrossIInv
<1>. QED
  BY <1>1, <1>2

LEMMA CrossTyped == CrossIInv => Crossword!TypeOK
<1>. SUFFICES ASSUME CrossIInv PROVE Crossword!TypeOK
  OBVIOUS
<1>1. CrossTypes
  BY DEF CrossIInv
<1>2. \A i \in DOMAIN printed : printed[i] \in [Crossword!Cells -> SUBSET Crossword!Cells]
  BY <1>1 DEF CrossTypes
<1>. QED
  BY <1>1, <1>2 DEF CrossTypes, Crossword!TypeOK

LEMMA CrossHolds == CrossIInv => Crossword!SolutionsExact
<1>. SUFFICES ASSUME CrossIInv PROVE Crossword!SolutionsExact
  OBVIOUS
<1>1. /\ \A i \in DOMAIN printed : CrossSolution(printed[i])
      /\ \A i, j \in DOMAIN printed : printed[i] = printed[j] => i = j
  BY DEF CrossIInv, CrossPrinted
<1>. DEFINE Fitting == [x \in Crossword!Cells |-> {l \in SUBSET Crossword!Cells : Crossword!Right(l, puzzle.rows[x])}]
            Solves(f) == /\ \A x \in Crossword!Cells : f[x] \in Fitting[x]
                         /\ \A y \in Crossword!Cells : Crossword!Right(Crossword!Column(f, y), puzzle.columns[y])
<1>2. \A x \in Crossword!Cells : Fitting[x] = CrossFit(x) /\ CrossFit(x) \in SUBSET (SUBSET Crossword!Cells)
  BY DEF CrossFit
<1>3. \A f : CrossSolution(f) => Solves(f)
  BY <1>2 DEF CrossSolution
<1>4. ASSUME at = "done", NEW f \in [Crossword!Cells -> UNION {Fitting[x] : x \in Crossword!Cells}], Solves(f)
      PROVE  \E i \in DOMAIN printed : printed[i] = f
  <2>1. \A x \in Crossword!Cells : f[x] \in CrossFit(x)
    BY <1>2, <1>4
  <2>2. f \in [Crossword!Cells -> SUBSET Crossword!Cells]
    <3>1. \A x \in Crossword!Cells : f[x] \in SUBSET Crossword!Cells
      BY <1>2, <2>1
    <3>. QED
      BY <1>4, <3>1
  <2>3. CrossSolution(f)
    BY <1>4, <2>1, <2>2 DEF CrossSolution
  <2>. QED
    BY <1>4, <2>3 DEF CrossIInv, CrossComplete
<1>. HIDE DEF Fitting, Solves
<1>5. /\ \A i \in DOMAIN printed : Solves(printed[i])
      /\ \A i, j \in DOMAIN printed : printed[i] = printed[j] => i = j
      /\ at = "done" =>
           \A f \in [Crossword!Cells -> UNION {Fitting[x] : x \in Crossword!Cells}] :
             Solves(f) => \E i \in DOMAIN printed : printed[i] = f
  BY <1>1, <1>3, <1>4
<1>. QED
  BY <1>5 DEF Crossword!SolutionsExact, Fitting, Solves

----------------------------------------------------------------------------
(* Удаление комментариев.cpp: the loop. *)

\* The flags that there are.
CommAllFlags ==
  Comments!InComments \cup Comments!InLiterals \cup {"false_symbol", "transfer_str", "transfer_false_symbol", "continue"}

CommFromText(s) == s \in Seq(STRING) /\ \A i \in DOMAIN s : \E k \in DOMAIN text : s[i] = text[k]

CommIInv ==
  /\ text \in CFiles
  /\ pos \in 0 .. Len(text) /\ eof \in BOOLEAN /\ flags \in SUBSET CommAllFlags
  /\ CommFromText(out)

\* What is read, and where it was read.
LEMMA CommReadIs ==
  ASSUME CommIInv
  PROVE  /\ IsCFile(text) /\ text \in Seq(STRING) /\ pos \in Nat /\ Len(text) \in Nat
         /\ Comments!simvol1 = IF pos < Len(text) THEN text[pos + 1] ELSE Comments!Eof
         /\ Comments!simvol2 = IF pos + 1 < Len(text) THEN text[pos + 2] ELSE Comments!Eof
         /\ ~ Comments!AtEnd => pos + 2 <= Len(text)
         /\ Comments!Behind \in 0 .. Len(text) /\ (~ Comments!AtEnd => Comments!Behind = pos + 2)
<1>1. text \in Seq(STRING) /\ IsCFile(text)
  BY CFilesAssumption DEF CommIInv, CFilesAssumption, IsCFile
<1>2. pos \in Nat /\ Len(text) \in Nat /\ pos <= Len(text) /\ pos + 1 + 1 = pos + 2
  BY <1>1 DEF CommIInv
<1>3. /\ Comments!simvol1 = IF pos < Len(text) THEN text[pos + 1] ELSE Comments!Eof
      /\ Comments!simvol2 = IF pos + 1 < Len(text) THEN text[pos + 2] ELSE Comments!Eof
  BY <1>2 DEF Comments!simvol1, Comments!simvol2, Comments!At
<1>4. ~ Comments!AtEnd => pos + 1 < Len(text)
  BY <1>3 DEF Comments!AtEnd
<1>. QED
  BY <1>1, <1>2, <1>3, <1>4 DEF Comments!Behind

LEMMA CommKnownFlags == ASSUME flags \in SUBSET CommAllFlags PROVE Comments!Known \in SUBSET CommAllFlags
BY DEF CommAllFlags, Comments!Known, Comments!check_false_symbol, Comments!check_new_line,
   Comments!check_transfer_str, Comments!Put, Comments!InLiterals, Comments!InComments

LEMMA CommWritten ==
  ASSUME NEW s, CommFromText(s), NEW w, CommFromText(w)
  PROVE  CommFromText(s \o w)
<1>1. /\ s \in Seq(STRING) /\ w \in Seq(STRING) /\ Len(s) \in Nat /\ Len(w) \in Nat
      /\ DOMAIN s = 1 .. Len(s) /\ DOMAIN w = 1 .. Len(w)
  BY DEF CommFromText
<1>2. s \o w \in Seq(STRING) /\ DOMAIN (s \o w) = 1 .. Len(s) + Len(w)
  BY <1>1
<1>3. ASSUME NEW i \in 1 .. Len(s) + Len(w)
      PROVE  \E k \in DOMAIN text : (s \o w)[i] = text[k]
  <2>1. CASE i <= Len(s)
    <3>1. i \in DOMAIN s /\ (s \o w)[i] = s[i]
      BY <1>1, <2>1
    <3>. QED
      BY <3>1 DEF CommFromText
  <2>2. CASE i > Len(s)
    <3>1. i - Len(s) \in DOMAIN w /\ (s \o w)[i] = w[i - Len(s)]
      BY <1>1, <2>2
    <3>. QED
      BY <3>1 DEF CommFromText
  <2>. QED
    BY <1>1, <2>1, <2>2
<1>. QED
  BY <1>2, <1>3 DEF CommFromText

LEMMA CommShortSeqs ==
  ASSUME NEW S, NEW a \in S, NEW b \in S
  PROVE  <<a>> \in Seq(S) /\ <<a, b>> \in Seq(S)
OBVIOUS

\* What an iteration may write.
LEMMA CommSymbols ==
  ASSUME CommIInv
  PROVE  /\ CommFromText(<<>>)
         /\ Comments!simvol1 # Comments!Eof => CommFromText(<<Comments!simvol1>>)
         /\ ~ Comments!AtEnd => CommFromText(<<Comments!simvol1>>) /\ CommFromText(Comments!Pair)
<1>1. /\ text \in Seq(STRING) /\ pos \in Nat /\ Len(text) \in Nat
      /\ Comments!simvol1 = IF pos < Len(text) THEN text[pos + 1] ELSE Comments!Eof
      /\ Comments!simvol2 = IF pos + 1 < Len(text) THEN text[pos + 2] ELSE Comments!Eof
      /\ ~ Comments!AtEnd => pos + 2 <= Len(text)
  BY CommReadIs
<1>2. \A k \in 1 .. Len(text) : text[k] \in STRING /\ k \in DOMAIN text
  BY <1>1
<1>3. CommFromText(<<>>)
  BY DEF CommFromText
<1>4. ASSUME Comments!simvol1 # Comments!Eof \/ ~ Comments!AtEnd
      PROVE  Comments!simvol1 \in STRING /\ \E k \in DOMAIN text : Comments!simvol1 = text[k]
  <2>1. pos + 1 \in 1 .. Len(text) /\ Comments!simvol1 = text[pos + 1]
    BY <1>1, <1>4
  <2>. QED
    BY <1>2, <2>1
<1>5. ASSUME ~ Comments!AtEnd
      PROVE  Comments!simvol2 \in STRING /\ \E k \in DOMAIN text : Comments!simvol2 = text[k]
  <2>1. pos + 2 \in 1 .. Len(text) /\ Comments!simvol2 = text[pos + 2]
    BY <1>1, <1>5
  <2>. QED
    BY <1>2, <2>1
<1>6. ASSUME Comments!simvol1 # Comments!Eof \/ ~ Comments!AtEnd
      PROVE  CommFromText(<<Comments!simvol1>>)
  <2>1. PICK a \in STRING : a = Comments!simvol1 /\ \E k \in DOMAIN text : a = text[k]
    BY <1>4, <1>6
  <2>2. a \in STRING
    OBVIOUS
  <2>3. <<a>> \in Seq(STRING)
    BY <2>2, CommShortSeqs, Zenon
  <2>4. DOMAIN <<a>> = {1} /\ <<a>>[1] = a
    OBVIOUS
  <2>. QED
    BY <2>1, <2>2, <2>3, <2>4 DEF CommFromText
<1>7. ASSUME ~ Comments!AtEnd
      PROVE  CommFromText(Comments!Pair)
  <2>1. PICK a \in STRING : a = Comments!simvol1 /\ \E k \in DOMAIN text : a = text[k]
    BY <1>4, <1>7
  <2>2. PICK b \in STRING : b = Comments!simvol2 /\ \E k \in DOMAIN text : b = text[k]
    BY <1>5, <1>7
  <2>3. a \in STRING /\ b \in STRING
    OBVIOUS
  <2>4. <<a, b>> \in Seq(STRING)
    BY <2>3, CommShortSeqs, Zenon
  <2>5. DOMAIN <<a, b>> = {1, 2} /\ <<a, b>>[1] = a /\ <<a, b>>[2] = b
    OBVIOUS
  <2>. QED
    BY <2>1, <2>2, <2>3, <2>4, <2>5 DEF CommFromText, Comments!Pair
<1>. QED
  BY <1>3, <1>6, <1>7

LEMMA CommEndsWithIInv ==
  ASSUME CommIInv, NEW w, NEW f, NEW to, Comments!EndsWith(w, f, to), f \in SUBSET CommAllFlags,
         ~ Comments!AtEnd => CommFromText(w) /\ to \in 0 .. Len(text)
  PROVE  CommIInv'
<1>1. /\ flags' = f /\ text' = text /\ eof' \in BOOLEAN /\ pos' = IF Comments!AtEnd
           THEN Comments!Behind ELSE to
      /\ out' = out \o (IF ~ Comments!AtEnd THEN w
                        ELSE IF Comments!simvol1 = Comments!Eof \/ Comments!Has(f, Comments!InComments) THEN <<>> ELSE <<Comments!simvol1>>)
  BY DEF Comments!EndsWith, Comments!AtEnd
<1>2. CommFromText(IF ~ Comments!AtEnd THEN w
               ELSE IF Comments!simvol1 = Comments!Eof \/ Comments!Has(f, Comments!InComments)
                   THEN <<>> ELSE <<Comments!simvol1>>)
  BY CommSymbols
<1>3. PICK o : o = out' /\ CommFromText(o)
  BY <1>1, <1>2, CommWritten DEF CommIInv
<1>4. CommFromText(out)'
  BY <1>1, <1>3 DEF CommFromText
<1>5. pos' \in 0 .. Len(text)
  BY <1>1, CommReadIs
<1>. QED
  BY <1>1, <1>4, <1>5 DEF CommIInv

LEMMA CommSeeksIInv ==
  ASSUME CommIInv, NEW f, NEW to, Comments!Seeks(to, f), f \in SUBSET CommAllFlags,
      to \in 0 .. Len(text)
  PROVE  CommIInv'
<1>1. /\ flags' = f /\ text' = text /\ eof' = FALSE /\ pos' = to /\ out' = out
  BY DEF Comments!Seeks
<1>2. CommFromText(out)'
  BY <1>1 DEF CommIInv, CommFromText
<1>. QED
  BY <1>1, <1>2 DEF CommIInv

LEMMA CommInitIInv == Comments!Init => CommIInv
<1>. SUFFICES ASSUME Comments!Init PROVE CommIInv
  OBVIOUS
<1>1. text \in CFiles /\ pos = 0 /\ eof = FALSE /\ flags = {"false_symbol"} /\ out = <<>>
  BY DEF Comments!Init
<1>2. text \in Seq(STRING)
  BY <1>1, CFilesAssumption DEF CFilesAssumption, IsCFile
<1>3. 0 \in 0 .. Len(text)
  BY <1>2
<1>4. CommFromText(<<>>)
  BY DEF CommFromText
<1>. QED
  BY <1>1, <1>3, <1>4 DEF CommIInv, CommAllFlags

LEMMA CommNextIInv == CommIInv /\ [Comments!Next]_(Comments!vars) => CommIInv'
<1>. SUFFICES ASSUME CommIInv, [Comments!Next]_(Comments!vars) PROVE CommIInv'
  OBVIOUS
<1>1. /\ IsCFile(text) /\ text \in Seq(STRING) /\ pos \in Nat /\ Len(text) \in Nat
      /\ Comments!simvol1 = IF pos < Len(text) THEN text[pos + 1] ELSE Comments!Eof
      /\ Comments!simvol2 = IF pos + 1 < Len(text) THEN text[pos + 2] ELSE Comments!Eof
      /\ ~ Comments!AtEnd => pos + 2 <= Len(text)
      /\ Comments!Behind \in 0 .. Len(text) /\ (~ Comments!AtEnd => Comments!Behind = pos + 2)
  BY CommReadIs
<1>2. Comments!Known \in SUBSET CommAllFlags
  BY CommKnownFlags DEF CommIInv
<1>3. /\ CommFromText(<<>>) /\ (~ Comments!AtEnd => CommFromText(<<Comments!simvol1>>) /\ CommFromText(Comments!Pair))
  BY CommSymbols
<1>4. ~ Comments!AtEnd => pos + 1 \in 0 .. Len(text)
  BY <1>1
<1>5. CASE Comments!Linger
  BY <1>1, <1>2, <1>3, <1>5, CommEndsWithIInv DEF Comments!Linger
<1>6. CASE Comments!Escape
  BY <1>1, <1>2, <1>3, <1>6, CommEndsWithIInv DEF Comments!Escape
<1>7. CASE Comments!OpenLiteral
  <2>1. Comments!Known \cup {"in_one_str"} \in SUBSET CommAllFlags
    BY <1>2 DEF CommAllFlags, Comments!InLiterals
  <2>. QED
    BY <1>3, <1>4, <1>7, <2>1, CommEndsWithIInv DEF Comments!OpenLiteral
<1>8. CASE Comments!CloseString
  BY <1>2, <1>3, <1>4, <1>8, CommEndsWithIInv DEF Comments!CloseString
<1>9. CASE Comments!CloseComment
  BY <1>1, <1>2, <1>3, <1>9, CommEndsWithIInv DEF Comments!CloseComment
<1>10. CASE Comments!OpenComment
  <2>1. Comments!Known \cup {"in_comment"} \in SUBSET CommAllFlags
    BY <1>2 DEF CommAllFlags, Comments!InComments
  <2>. QED
    BY <1>1, <1>10, <2>1, CommSeeksIInv DEF Comments!OpenComment
<1>11. CASE Comments!EndLine
  <2>1. Comments!simvol1 \in Comments!Ends
    BY <1>11 DEF Comments!EndLine, Comments!EndsLine
  <2>2. CASE ~ Comments!AtEnd
    <3>1. Comments!Behind - 2 \in 0 .. Len(text)
      BY <1>1, <2>2
    <3>. QED
      BY <1>2, <1>11, <3>1, CommSeeksIInv DEF Comments!EndLine
  <2>3. CASE Comments!AtEnd
    <3>1. pos < Len(text) /\ text[pos + 1] \in {"CR", "LF"}
      BY <1>1, <2>1 DEF Comments!Ends, Comments!Cr, Comments!Lf, Comments!Eof
    <3>2. Len(text) >= 2
      <4>1. CASE Len(text) = 1
        <5>1. pos + 1 = 1 /\ 1 \in DOMAIN text /\ text # <<>>
          BY <1>1, <3>1, <4>1
        <5>2. text[1] # "LF" /\ text[1] # "CR"
          BY <1>1, <4>1, <5>1 DEF IsCFile
        <5>. QED
          BY <3>1, <5>1, <5>2
      <4>2. PICK m \in Nat : m = Len(text)
        BY <1>1
      <4>3. m # 0
        BY <1>1, <3>1, <4>2
      <4>. QED
        BY <4>1, <4>2, <4>3
    <3>3. Comments!Behind - 2 \in 0 .. Len(text)
      BY <1>1, <2>3, <3>2 DEF Comments!Behind
    <3>. QED
      BY <1>2, <1>11, <3>3, CommSeeksIInv DEF Comments!EndLine
  <2>. QED
    BY <2>2, <2>3
<1>12. CASE Comments!ContinueLine
  <2>1. Comments!simvol1 = Comments!Backslash /\ Comments!simvol2 \in Comments!Ends /\ ~ Comments!AtEnd
    BY <1>12 DEF Comments!ContinueLine, Comments!ContinuesLine, Comments!AtEnd, Comments!Ends,
       Comments!Cr, Comments!Lf, Comments!Eof
  <2>2. Comments!simvol2 = Comments!Cr => pos + 3 <= Len(text)
    <3>1. ASSUME Comments!simvol2 = Comments!Cr, pos + 2 = Len(text)
          PROVE  FALSE
      <4>1. text # <<>> /\ text[Len(text)] = "CR"
        BY <1>1, <3>1 DEF Comments!Cr, Comments!Eof
      <4>. QED
        BY <1>1, <4>1 DEF IsCFile
    <3>. QED
      BY <1>1, <2>1, <3>1
  <2>3. PICK skipped \in {0, 1, 2} :
          /\ Comments!Seeks(Comments!Behind + skipped - 1, (Comments!Known \ {"comment"}) \cup {"transfer_comment", "continue"})
          /\ skipped = 2 => Comments!simvol2 = Comments!Cr
    <3>1. PICK skipped : skipped = (IF Comments!SkipsTransferred THEN 1 ELSE 0) + (IF Comments!simvol2 = Comments!Cr THEN 1 ELSE 0)
      OBVIOUS
    <3>2. skipped \in {0, 1, 2} /\ (skipped = 2 => Comments!simvol2 = Comments!Cr)
      BY <3>1
    <3>. QED
      BY <1>12, <3>1, <3>2 DEF Comments!ContinueLine
  <2>4. Comments!Behind + skipped - 1 \in 0 .. Len(text)
    BY <1>1, <2>1, <2>2, <2>3
  <2>5. (Comments!Known \ {"comment"}) \cup {"transfer_comment", "continue"} \in SUBSET CommAllFlags
    BY <1>2 DEF CommAllFlags, Comments!InComments
  <2>. QED
    BY <2>3, <2>4, <2>5, CommSeeksIInv
<1>13. CASE Comments!EndTransferred
  <2>1. ~ Comments!AtEnd
    BY <1>13 DEF Comments!EndTransferred, Comments!EndsTransferred, Comments!AtEnd,
       Comments!Ends, Comments!Cr, Comments!Lf, Comments!Eof, Comments!Backslash
  <2>2. Comments!Behind - 1 \in 0 .. Len(text)
    BY <1>1, <2>1
  <2>. QED
    BY <1>2, <1>13, <2>2, CommSeeksIInv DEF Comments!EndTransferred
<1>14. CASE Comments!SkipTransferred
  BY <1>1, <1>2, <1>14, CommSeeksIInv DEF Comments!SkipTransferred
<1>15. CASE Comments!Pass
  <2>1. PICK f :
               /\ f \in SUBSET CommAllFlags
               /\ Comments!EndsWith(IF Comments!Has(f, Comments!InComments) THEN <<>> ELSE <<Comments!simvol1>>, f, pos + 1)
    <3>1. PICK f : f = (Comments!Known \ (IF Comments!ClosesLiteral THEN {"in_one_str"} ELSE {}))
                \cup (IF Comments!OpensString THEN {"in_str"} ELSE {})
                \cup (IF Comments!OpensLine THEN {"comment"} ELSE {})
      OBVIOUS
    <3>2. f \in SUBSET CommAllFlags
      BY <1>2, <3>1 DEF CommAllFlags, Comments!InComments, Comments!InLiterals
    <3>. QED
      BY <1>15, <3>1, <3>2 DEF Comments!Pass
  <2>2. ~ Comments!AtEnd => CommFromText(IF Comments!Has(f, Comments!InComments) THEN <<>> ELSE <<Comments!simvol1>>)
    BY <1>3
  <2>. QED
    BY <1>4, <2>1, <2>2, CommEndsWithIInv
<1>16. CASE UNCHANGED Comments!vars
  <2>1. UNCHANGED <<text, pos, eof, flags, out>>
    BY <1>16 DEF Comments!vars
  <2>2. CommFromText(out)'
    BY <2>1 DEF CommIInv, CommFromText
  <2>. QED
    BY <2>1, <2>2 DEF CommIInv
<1>. QED
  BY <1>5, <1>6, <1>7, <1>8, <1>9, <1>10, <1>11, <1>12, <1>13, <1>14, <1>15, <1>16 DEF
     Comments!Next

LEMMA CommTyped == CommIInv => Comments!TypeOK
<1>. SUFFICES ASSUME CommIInv PROVE Comments!TypeOK
  OBVIOUS
<1>1. flags \subseteq Comments!InComments \cup Comments!InLiterals
       \cup {"false_symbol", "transfer_str", "transfer_false_symbol", "continue"}
  BY DEF CommIInv, CommAllFlags
<1>. QED
  BY <1>1 DEF CommIInv, Comments!TypeOK, CommFromText

\* Sequences one symbol at a time.

\* A step of the composition is one of the loop, if it is the program that runs.
LEMMA RunsComments ==
  ASSUME [Next]_vars, program = "comments"
  PROVE  program' = program /\ [Comments!Next]_(Comments!vars)
<1>1. CASE UNCHANGED vars
  BY <1>1 DEF vars, consoleVars, convertVars, dateVars, searchVars, filesVars, crosswordVars,
     dormVars, commentVars, kernelVars, textVars, listVars, Comments!vars
<1>2. CASE Next
  BY <1>2 DEF Next, Runs
<1>. QED
  BY <1>1, <1>2
=============================================================================
