-------------------------------- MODULE Island --------------------------------
(***************************************************************************)
(* The solver of Japanese crosswords (1/.../Японский кроссворд/Island.cpp):  *)
(* a search with return that places the islands of one row after another,  *)
(* drops a grid as soon as a column cannot become right, and prints every  *)
(* grid whose columns are right.                                           *)
(*                                                                         *)
(* A line is the set of its '#' cells, cells are numbered from 0.  The     *)
(* recursion of trytry needs no stack: a caller gets its line back from    *)
(* its row of the field.                                                   *)
(***************************************************************************)
EXTENDS MachineConstants, FiniteSets

VARIABLES
  puzzle,  \* n and the clues: arr_vert of the rows, arr_horiz of the columns
  field,
  line,    \* not_checked_yet_string
  row,     \* num_of_string, the depth of the recursion
  at,      \* "try", "test" or "done"
  fresh,   \* ~ fl_for_string
  printed  \* the grids that win has printed

vars == <<puzzle, field, line, row, at, fresh, printed>>

n == puzzle.n
Cells == 0 .. n - 1

----------------------------------------------------------------------------
\* Lines and their islands.

Interval(start, len) == start .. start + len - 1
FirstCells(l) == {k \in l : k - 1 \notin l}
LastCells(l) == {k \in l : k + 1 \notin l}
Rightmost(cells) == CHOOSE k \in cells : \A m \in cells : m <= k
FirstOf(l, last) == Rightmost({k \in FirstCells(l) : k <= last})

\* The lengths of the islands of a line, as total_line_checking and line_cheking
\* count them.
Lengths(l) ==
  LET last(i) == CHOOSE k \in LastCells(l) : Cardinality({m \in LastCells(l) : m <= k}) = i
  IN [i \in 1 .. Cardinality(LastCells(l)) |-> last(i) - FirstOf(l, last(i)) + 1]

total_line_checking(l, clue) == Lengths(l) = clue

\* A slip: the island that may still grow has to be complete.
line_chekingComplete(l, clue) ==
  LET arr == Lengths(l)
  IN Len(arr) <= Len(clue) /\ \A i \in DOMAIN arr : arr[i] = clue[i]

\* The part of a column that is placed: every island but the last is complete.
line_cheking(l, clue) ==
  LET arr == Lengths(l)
  IN /\ Len(arr) <= Len(clue)
     /\ \A i \in DOMAIN arr : arr[i] <= clue[i] /\ (i < Len(arr) => arr[i] = clue[i])

\* The islands of a clue, as far to the left as they go from a cell on.
Leftmost(clue, from) ==
  LET start[i \in 1 .. Len(clue)] == IF i = 1 THEN from ELSE start[i - 1] + clue[i - 1] + 1
  IN UNION {Interval(start[i], clue[i]) : i \in 1 .. Len(clue)}

\* The last cells of the islands that have room on their right.
Movable(l) == {k \in LastCells(l) : k + 1 < n /\ k + 2 \notin l}
island_seeker_to_right_step(l) == Rightmost(Movable(l))

sdvig_island_right_to_one_kletka(l, last) == (l \ {FirstOf(l, last)}) \cup {last + 1}

\* The islands behind the one that now ends at the given cell.
all_to_left(l, last, clue) ==
  LET num == Cardinality({k \in LastCells(l) : k <= last})
  IN {k \in l : k <= last} \cup Leftmost(SubSeq(clue, num + 1, Len(clue)), last + 2)

end_of_perebor(l) == Movable(l) = {}

Column(f, y) == {x \in Cells : y \in f[x]}
field_checking(f) == \A y \in Cells : line_cheking(Column(f, y), puzzle.columns[y])
total_check_field(f) == \A y \in Cells : total_line_checking(Column(f, y), puzzle.columns[y])

----------------------------------------------------------------------------
Init ==
  /\ puzzle \in Puzzles
  /\ field = [x \in Cells |-> {}] /\ line = {} /\ row = 0
  /\ at = "try" /\ fresh = TRUE /\ printed = <<>>

\* What the loop of trytry tries next: an empty row is tried once.
Tried ==
  LET clue == puzzle.rows[row]
      last == island_seeker_to_right_step(line)
  IN IF clue = <<>> THEN line
     ELSE IF fresh THEN Leftmost(clue, 0)
     ELSE all_to_left(sdvig_island_right_to_one_kletka(line, last), last + 1, clue)

WithTried == [field EXCEPT ![row] = Tried]

\* The rows below are tried with it.
Deeper ==
  /\ at = "try" /\ field_checking(WithTried) /\ row < n - 1
  /\ field' = WithTried /\ line' = {} /\ row' = row + 1 /\ fresh' = TRUE
  /\ UNCHANGED <<puzzle, at, printed>>

win ==
  /\ at = "try" /\ field_checking(WithTried) /\ row = n - 1 /\ total_check_field(WithTried)
  /\ printed' = Append(printed, WithTried)
  /\ field' = [field EXCEPT ![row] = {}] /\ line' = Tried /\ at' = "test"
  /\ UNCHANGED <<puzzle, row, fresh>>

Fail ==
  /\ at = "try"
  /\ ~ field_checking(WithTried) \/ (row = n - 1 /\ ~ total_check_field(WithTried))
  /\ field' = WithTried /\ line' = Tried /\ at' = "test"
  /\ UNCHANGED <<puzzle, row, fresh, printed>>

\* The loop goes on while an island can be moved.
Again ==
  /\ at = "test" /\ ~ end_of_perebor(line)
  /\ at' = "try" /\ fresh' = FALSE
  /\ UNCHANGED <<puzzle, field, line, row, printed>>

\* The row is erased and trytry returns, to the row above or to main.
Return ==
  /\ at = "test" /\ end_of_perebor(line)
  /\ field' = [field EXCEPT ![row] = {}]
  /\ IF row = 0 THEN at' = "done" /\ UNCHANGED <<line, row>>
     ELSE line' = field[row - 1] /\ row' = row - 1 /\ UNCHANGED at
  /\ UNCHANGED <<puzzle, fresh, printed>>

Next == Deeper \/ win \/ Fail \/ Again \/ Return

Spec == Init /\ [][Next]_vars

----------------------------------------------------------------------------
TypeOK ==
  /\ field \in [Cells -> SUBSET Cells] /\ line \subseteq Cells /\ row \in Cells
  /\ at \in {"try", "test", "done"} /\ fresh \in BOOLEAN
  /\ \A i \in DOMAIN printed : printed[i] \in [Cells -> SUBSET Cells]

\* A line is right if its '#' are islands of the lengths of the clue, in its
\* order and with a cell at least between them.
Right(l, clue) ==
  \E start \in [1 .. Len(clue) -> Cells] :
    /\ \A i \in 1 .. Len(clue) - 1 : start[i] + clue[i] < start[i + 1]
    /\ l = UNION {Interval(start[i], clue[i]) : i \in 1 .. Len(clue)}

\* Every grid that is printed has the rows and columns of the puzzle, none is
\* printed twice, and in the end none is missing: "No map" means there is none.
SolutionsExact ==
  LET Fitting == [x \in Cells |-> {l \in SUBSET Cells : Right(l, puzzle.rows[x])}]
      Solves(f) == /\ \A x \in Cells : f[x] \in Fitting[x]
                   /\ \A y \in Cells : Right(Column(f, y), puzzle.columns[y])
  IN /\ \A i \in DOMAIN printed : Solves(printed[i])
     /\ \A i, j \in DOMAIN printed : printed[i] = printed[j] => i = j
     /\ at = "done" =>
          \A f \in [Cells -> UNION {Fitting[x] : x \in Cells}] :
            Solves(f) => \E i \in DOMAIN printed : printed[i] = f
=============================================================================
