--------------------------- MODULE MachineConstants ---------------------------
(***************************************************************************)
(* The parameters of the programs that one actor runs, each program's own, *)
(* and what the programs require of them.                                  *)
(***************************************************************************)
EXTENDS Integers, Sequences

CONSTANTS
  LastRow,      \* console: 23, the row on which scrolling_screen scrolls
  Width,        \* console: VIDEO_WIDTH
  StrLen,       \* console: STR_LEN
  TextLen,      \* console: the length of a text a command prints
  MaxPrints,    \* console, bound: the most lines a command prints
  MaxPos,       \* console, bound: how far tabs move the cursor
  MaxBase,      \* convert: 36
  Kilo,         \* convert: 1024
  Numbers,      \* convert: the numbers that are tried, and the bases
  Bases,
  Sizes,        \* convert: the sizes that are tried
  MaxDay,       \* date, bound: the last day that is tried
  FirstYears,   \* date: 1970 (posixtime), 1601 (wintime)
  SecondsOfDay, \* date, bound: the seconds of a day that are tried
  Boards,       \* search: the sizes N of the board
  Pieces,       \* search: the numbers L of pieces
  MaxPresets,   \* search, bound: the most preset pieces
  Bytes,        \* string: the characters
  MaxArgument,  \* string, bound: the length of an argument
  MaxSize,      \* string, bound: the size of a string
  Clients,      \* files: the clients, the users and the paths
  Users,
  Paths,
  Contents,     \* files: what is uploaded
  NoFile,       \* files: what a path holds that no file is at
  Rights,       \* files: which user may open which path
  Puzzles,      \* crossword: sizes and clues
  Students,     \* dormitory: the records
  MaxStudents,  \* dormitory, bound: the length of the list
  CFiles        \* comments: the files

\* A character that is no digit.
Other == -1

\* The word that the kernel computes in: four times a gigabyte, as 2^32 is.
Word == 4 * (Kilo * Kilo * Kilo)

\* A typed line fits its row with the prompt, and so does every text that is printed.
ASSUME ConsoleAssumption ==
  /\ LastRow \in Nat \ {0} /\ Width \in Nat /\ StrLen \in Nat /\ MaxPrints \in Nat
  /\ TextLen \in Nat /\ MaxPos \in Nat
  /\ StrLen >= 5 /\ StrLen + 2 <= Width /\ TextLen < Width

\* The decimals of a size are computed from the hundredfold of a rest that is less
\* than Kilo^2: it fits the word.
ASSUME ConvertAssumption ==
  /\ MaxBase \in Nat /\ Kilo \in Nat /\ Kilo >= 25
  /\ \A number \in Numbers \cup Sizes : number \in Seq(Nat \cup {Other})
  /\ Bases \subseteq Int

ASSUME DateAssumption ==
  /\ MaxDay \in Nat /\ FirstYears \subseteq Nat
  /\ \A seconds \in SecondsOfDay : seconds \in Nat /\ seconds < 24 * 60 * 60

\* For L = 0 the program prints 0: no job has as few pieces.
ASSUME SearchAssumption ==
  Boards \subseteq Nat \ {0} /\ Pieces \subseteq Nat \ {0} /\ MaxPresets \in Nat

ASSUME StringAssumption ==
  Bytes \subseteq Nat \ {0} /\ MaxArgument \in Nat /\ MaxSize \in Nat

\* "none" is what stands for no client and no user; a missing file is no empty one.
ASSUME FilesAssumption ==
  /\ Paths # {} /\ Rights \subseteq Users \X Paths
  /\ \A data \in Contents : data \in Seq(Nat)
  /\ NoFile \notin Seq(Nat)
  /\ "none" \notin Clients

\* The clues of a row fit the row.  From seven cells on the search for the cell
\* behind an island at the end of its row leaves the string.
IsPuzzle(p) ==
  /\ p.n \in 1 .. 6
  /\ p.columns \in [0 .. p.n - 1 -> Seq(Nat \ {0})]
  /\ p.rows \in [0 .. p.n - 1 -> Seq(Nat \ {0})]
  /\ \A x \in 0 .. p.n - 1 :
       \E starts \in [DOMAIN p.rows[x] -> 0 .. p.n - 1] :
         \A i \in DOMAIN p.rows[x] :
           /\ starts[i] + p.rows[x][i] <= p.n
           /\ i > 1 => starts[i - 1] + p.rows[x][i - 1] < starts[i]

ASSUME PuzzlesAssumption == \A p \in Puzzles : IsPuzzle(p)

ASSUME DormitoryAssumption ==
  /\ MaxStudents \in Nat
  /\ \A r \in Students : DOMAIN r = {"surname", "name", "gender", "rest"}

\* The lines end as they do in a text file that is read as a binary one.  "EOF" is what
\* a read behind the end gives, as a char 255: a file has no such character.
IsCFile(t) ==
  /\ t \in Seq(STRING)
  /\ \A i \in DOMAIN t : t[i] = "LF" <=> (i > 1 /\ t[i - 1] = "CR")
  /\ t # <<>> => t[Len(t)] # "CR"
  /\ \A i \in DOMAIN t : t[i] # "EOF"

ASSUME CFilesAssumption == \A t \in CFiles : IsCFile(t)
=============================================================================
