----------------------------- MODULE ChessSearch -----------------------------
(***************************************************************************)
(* What the threads of chess.cpp (2/ОСИ/ОC3/chess.cpp) count: the ways to  *)
(* put L pieces that move like a king and like a knight on an N x N board, *)
(* none attacking another or a preset piece.  seed_tasks splits the work   *)
(* into jobs, dfs_count counts one of them; ChessPool is how the threads   *)
(* share them.                                                             *)
(***************************************************************************)
EXTENDS MachineConstants, FiniteSets

VARIABLES
  N, L, preset, \* the input
  depth,        \* the levels of seed_tasks that are done
  jobs,         \* its buffer, then the queue
  total_solutions,
  output        \* -1 until main writes it

searchVars == <<N, L, preset, depth, jobs, total_solutions, output>>

Cells == 0 .. N * N - 1

dK == {<<1, 2>>, <<2, 1>>, <<2, -1>>, <<1, -2>>, <<-1, -2>>, <<-2, -1>>, <<-2, 1>>, <<-1, 2>>}
d1 == {<<-1, -1>>, <<-1, 0>>, <<-1, 1>>, <<0, -1>>, <<0, 1>>, <<1, -1>>, <<1, 0>>, <<1, 1>>}

\* build_attacks: the cells that a piece on a cell attacks.
attack_of(id) ==
  {(id \div N + d[1]) * N + (id % N) + d[2] :
     d \in {d \in dK \cup d1 : id \div N + d[1] \in 0 .. N - 1 /\ (id % N) + d[2] \in 0 .. N - 1}}

safe_place(occ, id) == id \notin occ /\ attack_of(id) \cap occ = {}

\* The nodes below a node, in order: one more piece, on a cell from nextIdx on.
Children(node) ==
  LET below[i \in 0 .. N * N] == \* those on the cells before i
        IF i = 0 THEN <<>>
        ELSE IF i > node.nextIdx /\ safe_place(node.occ, i - 1)
             THEN Append(below[i - 1], [nextIdx |-> i, placed |-> node.placed + 1,
                                        occ |-> node.occ \cup {i - 1}])
             ELSE below[i - 1]
  IN below[N * N]

\* dfs_count.
Count(root) ==
  LET Nodes == [nextIdx : Nat, placed : Nat, occ : SUBSET Cells]
      count[node \in Nodes] ==
        IF node.placed = L THEN 1
        ELSE LET children == Children(node)
                 local[k \in 0 .. Len(children)] ==
                   IF k = 0 THEN 0 ELSE local[k - 1] + count[children[k]]
             IN local[Len(children)]
  IN count[root]

\* A level of the nodes below jobs.
NextLevel(nodes) ==
  LET level[k \in 0 .. Len(nodes)] ==
        IF k = 0 THEN <<>> ELSE level[k - 1] \o Children(nodes[k])
  IN level[Len(nodes)]

\* A slip: the split is deeper than a placement of one piece.
split_depthDeeper == IF L >= 5 THEN 3 ELSE 2

\* How many pieces seed_tasks places: never more than there are.
split_depth == IF L >= 5 THEN 3 ELSE IF L >= 3 THEN 2 ELSE 1

Init ==
  /\ N \in Boards
  /\ L \in Pieces
  /\ preset \in {p \in SUBSET Cells : Cardinality(p) <= MaxPresets}
  /\ depth = 0
  /\ jobs = <<[nextIdx |-> 0, placed |-> 0, occ |-> preset]>>
  /\ total_solutions = 0
  /\ output = -1

\* main: preset pieces that attack each other.
Attacked == \E id \in preset : attack_of(id) \cap preset # {}

RejectPreset ==
  /\ output = -1 /\ Attacked
  /\ output' = 0
  /\ UNCHANGED <<N, L, preset, depth, jobs, total_solutions>>

\* A level of seed_tasks: every node is replaced by those below it.
SeedLevel ==
  /\ ~Attacked /\ depth < split_depth
  /\ jobs' = NextLevel(jobs)
  /\ depth' = depth + 1
  /\ UNCHANGED <<N, L, preset, total_solutions, output>>

\* A worker counts the job at the head of the queue.
TakeJob ==
  /\ depth = split_depth /\ jobs # <<>>
  /\ total_solutions' = total_solutions + Count(Head(jobs))
  /\ jobs' = Tail(jobs)
  /\ UNCHANGED <<N, L, preset, depth, output>>

Output ==
  /\ depth = split_depth /\ jobs = <<>> /\ output = -1
  /\ output' = total_solutions
  /\ UNCHANGED <<N, L, preset, depth, jobs, total_solutions>>

Next == RejectPreset \/ SeedLevel \/ TakeJob \/ Output

----------------------------------------------------------------------------
TypeOK ==
  /\ N \in Boards /\ L \in Pieces /\ preset \subseteq Cells
  /\ depth \in 0 .. split_depth
  /\ total_solutions \in Nat /\ output \in Nat \cup {-1}

\* A piece on a attacks b: by their distance in rows and columns.
Distance(m, n) == IF m < n THEN n - m ELSE m - n
Attacks(a, b) ==
  {Distance(a \div N, b \div N), Distance(a % N, b % N)} \in {{0, 1}, {1}, {1, 2}}

\* The number that is written counts every placement once: each is found from one
\* seed only, whatever the depth at which the work is split, and from every seed
\* the search finds all of them.
PlacementsCounted ==
  output # -1 =>
    output = Cardinality({placement \in SUBSET (Cells \ preset) :
                            /\ Cardinality(placement) = L
                            /\ \A a, b \in placement \cup preset : ~Attacks(a, b)})
=============================================================================
