----------------------------- MODULE MCMachines ------------------------------
(***************************************************************************)
(* Small instances of the programs that nothing but their users and files  *)
(* act on.  A behaviour runs one of Programs, chosen at the start, and the *)
(* variables that only other programs have keep the value NotUsed.         *)
(***************************************************************************)
EXTENDS MachineConstants, FiniteSets

CONSTANTS Programs, NotUsed

VARIABLES
  program,
  video, cur_strnum, cur_position, str_inputing, string_count, \* console
  lshift, rshift, caps, powered,
  command, answer,                                             \* convert
  first_year, number, calendar,                                \* date
  N, L, preset, depth, jobs, total_solutions, output,          \* search
  str,                                                         \* string
  files, hToken, UserName, client, tokenBy, nameBy,            \* files
  puzzle, field, line, row, at, fresh, printed,                \* crossword
  base, based, up, shown,                                      \* dormitory
  text, pos, eof, flags, out                                   \* comments

Console == INSTANCE KernelConsole
Convert == INSTANCE KernelConvert
Dates == INSTANCE KernelDate
Search == INSTANCE ChessSearch
String == INSTANCE MyString
Files == INSTANCE RpcFiles
Crossword == INSTANCE Island
Dorm == INSTANCE Dormitory
Comments == INSTANCE CommentRemover

consoleVars == <<video, cur_strnum, cur_position, str_inputing, string_count,
                 lshift, rshift, caps, powered>>
convertVars == <<command, answer>>
dateVars == <<first_year, number, calendar>>
searchVars == <<N, L, preset, depth, jobs, total_solutions, output>>
filesVars == <<files, hToken, UserName, client, tokenBy, nameBy>>
crosswordVars == <<puzzle, field, line, row, at, fresh, printed>>
dormVars == <<base, based, up, shown>>
commentVars == <<text, pos, eof, flags, out>>

vars == <<program, consoleVars, convertVars, dateVars, searchVars, str, filesVars,
          crosswordVars, dormVars, commentVars>>

Unused(v1, v2, v3) == v1 = NotUsed /\ v2 = NotUsed /\ v3 = NotUsed

NoConsole ==
  /\ Unused(video, cur_strnum, cur_position)
  /\ Unused(str_inputing, string_count, powered)
  /\ Unused(lshift, rshift, caps)
NoConvert == command = NotUsed /\ answer = NotUsed
NoDate == Unused(first_year, number, calendar)
NoSearch == Unused(N, L, preset) /\ Unused(depth, jobs, total_solutions) /\ output = NotUsed
NoFiles == Unused(files, hToken, UserName) /\ Unused(client, tokenBy, nameBy)
NoCrossword == Unused(puzzle, field, line) /\ Unused(row, at, fresh) /\ printed = NotUsed
NoDorm == Unused(base, based, up) /\ shown = NotUsed
NoComments == Unused(text, pos, eof) /\ flags = NotUsed /\ out = NotUsed

Init ==
  /\ program \in Programs
  /\ IF program = "console" THEN Console!Init ELSE NoConsole
  /\ IF program = "convert" THEN Convert!Init ELSE NoConvert
  /\ IF program = "date" THEN Dates!Init ELSE NoDate
  /\ IF program = "search" THEN Search!Init ELSE NoSearch
  /\ IF program = "string" THEN String!Init ELSE str = NotUsed
  /\ IF program = "files" THEN Files!Init ELSE NoFiles
  /\ IF program = "crossword" THEN Crossword!Init ELSE NoCrossword
  /\ IF program = "dormitory" THEN Dorm!Init ELSE NoDorm
  /\ IF program = "comments" THEN Comments!Init ELSE NoComments

Runs(name, others) == program = name /\ UNCHANGED <<program, others>>

kernelVars == <<consoleVars, convertVars, dateVars>>
textVars == <<str, commentVars>>
listVars == <<textVars, crosswordVars, dormVars>>

Next ==
  \/ Runs("console", <<convertVars, dateVars, searchVars, filesVars, listVars>>) /\ Console!Next
  \/ Runs("convert", <<consoleVars, dateVars, searchVars, filesVars, listVars>>) /\ Convert!Next
  \/ Runs("date", <<consoleVars, convertVars, searchVars, filesVars, listVars>>) /\ Dates!Next
  \/ Runs("search", <<kernelVars, filesVars, listVars>>) /\ Search!Next
  \/ Runs("files", <<kernelVars, searchVars, listVars>>) /\ Files!Next
  \/ Runs("string", <<kernelVars, searchVars, filesVars, commentVars, crosswordVars, dormVars>>) /\ String!Next
  \/ Runs("crossword", <<kernelVars, searchVars, filesVars, textVars, dormVars>>) /\ Crossword!Next
  \/ Runs("dormitory", <<kernelVars, searchVars, filesVars, textVars, crosswordVars>>) /\ Dorm!Next
  \/ Runs("comments", <<kernelVars, searchVars, filesVars, str, crosswordVars, dormVars>>) /\ Comments!Next

Spec == Init /\ [][Next]_vars

----------------------------------------------------------------------------
\* Arguments.

\* The digits of a value, as many as it needs.
NumeralOf(value, radix) ==
  LET len == CHOOSE n \in 1 .. 8 : value < radix ^ n /\ (n > 1 => value >= radix ^ (n - 1))
  IN [k \in 1 .. len |-> (value \div radix ^ (len - k)) % radix]

\* The numerals about a word and above it, with zeros in front of them too, and one that
\* is less than the word's largest though some of its digits are larger.
WordNumbers(radix) ==
  {zeros \o NumeralOf(v, radix) :
     zeros \in {<<>>, <<0>>, <<0, 0>>}, v \in {1, 57999, Word - 1, Word, Word + 1, 3 * Word}}
Digits == {0, 2, 3, 5, 6, 10, 11, Other}
SomeNumbers ==
  UNION {[1 .. n -> Digits] : n \in 0 .. 3} \cup WordNumbers(10) \cup WordNumbers(12)
SomeBases == {1, 2, 10, 12, 13}

\* Sizes on both sides of every limit and unit, and numerals that are refused.
LimitSizes ==
  {<<>>, <<1, Other>>, <<0, 0, 0, 0, 0, 7>>} \cup
  {NumeralOf(m + d, 10) :
     d \in {-1, 0, 1},
     m \in {1, 7} \cup {Kilo ^ k : k \in 1 .. 3} \cup {Word \div Kilo ^ k : k \in 0 .. 3}}

OldYears == {1601, 1970}
DaySeconds == {0, 59, 60, 3599, 3600, 43200, 86399}

Names == {"ann", "bob"}
OneFile == {1}
SomeContents == {<<1>>, <<1, 2>>}
AnnsFile == {<<"ann", 1>>}

\* The puzzles of all grids of two and three rows, those whose columns have the clues
\* of the rows, many of them without a solution, and squares of four rows with equal clues.
ClueOf(l) ==
  LET lasts == {k \in l : k + 1 \notin l}
      firsts == {k \in l : k - 1 \notin l}
      Nth(S, i) == CHOOSE k \in S : Cardinality({m \in S : m <= k}) = i
  IN [i \in 1 .. Cardinality(lasts) |-> Nth(lasts, i) - Nth(firsts, i) + 1]
PuzzleOf(n, g) ==
  [n |-> n, rows |-> [x \in 0 .. n - 1 |-> ClueOf(g[x])],
            columns |-> [y \in 0 .. n - 1 |-> ClueOf({x \in 0 .. n - 1 : y \in g[x]})]]
SmallPuzzles == UNION {{PuzzleOf(n, g) : g \in [0 .. n - 1 -> SUBSET (0 .. n - 1)]} : n \in {2, 3}}
RowsTwice(p) == [p EXCEPT !.columns = p.rows]
Even(clue) == [n |-> 4, rows |-> [x \in 0 .. 3 |-> clue], columns |-> [x \in 0 .. 3 |-> clue]]
SomePuzzles ==
  SmallPuzzles \cup {RowsTwice(p) : p \in SmallPuzzles}
    \cup {Even(clue) : clue \in {<<1>>, <<2>>, <<1, 1>>}}

\* Two students of one name, who differ in the other fields, and a third.
Enrolled(surname, gender, rest) ==
  [surname |-> surname, name |-> "kim", gender |-> gender, rest |-> rest]
ThreeStudents ==
  {Enrolled("lee", "male", 1), Enrolled("lee", "female", 2), Enrolled("orr", "male", 1)}

\* Every text of four pieces at most, and those that begin with a continued line.
TextPieces ==
  {<<>>, <<"x">>, <<"/">>, <<"*">>, <<"/", "/">>, <<"/", "*">>, <<"'">>, <<"\"">>, <<"\\">>,
   <<"CR", "LF">>}
ShortTexts == {a \o b \o c : a, b, c \in TextPieces}
ShortCFiles ==
  {a \o t : a \in TextPieces, t \in ShortTexts}
    \cup {a \o <<"\\", "CR", "LF">> \o t : a \in {<<"x">>, <<"/", "/">>, <<"\"">>}, t \in ShortTexts}

----------------------------------------------------------------------------
\* The programs' properties; each is stated in the program's module.

\* The variables of the program that runs hold values of their types.
TypeOK ==
  /\ program = "console" => Console!TypeOK
  /\ program = "convert" => Convert!TypeOK
  /\ program = "date" => Dates!TypeOK
  /\ program = "search" => Search!TypeOK
  /\ program = "string" => String!TypeOK
  /\ program = "files" => Files!TypeOK
  /\ program = "crossword" => Crossword!TypeOK
  /\ program = "dormitory" => Dorm!TypeOK
  /\ program = "comments" => Comments!TypeOK

\* kernel.cpp: the line fits its buffer, ends where its count says, and every
\* character of it is on the screen, in its order.
ConsoleLine == program = "console" => Console!LineFits /\ Console!LineIsShown

\* kernel.cpp: a number in another base and a size in another unit are exact if they fit
\* a word, else refused or cut to it, as each command does; nothing else is refused but
\* what overflow() and the limits name.
ConversionsExact == program = "convert" => Convert!NumeralsExact /\ Convert!SizesExact

\* kernel.cpp: a number of seconds is printed as its date.
DateRight == program = "date" => Dates!DateRight

\* chess.cpp: the jobs count every placement once.
PlacementsCounted == program = "search" => Search!PlacementsCounted

\* MyString.cpp: every edit makes of a string what it makes of a sequence.
EditsRight == program = "string" => String!EditsRight

\* MyString.cpp: comparisons, searches and parts are those of sequences.
QueriesRight == program = "string" => String!QueriesRight

\* server.cpp: a client acts as itself until another client logs in.
OwnIdentity == program = "files" => Files!OwnIdentity

\* server.cpp, client.cpp: a download that nobody disturbs is the file.
DownloadsIntact == program = "files" => Files!DownloadsIntact

\* Island.cpp: what is printed are the solutions, each once.
SolutionsExact == program = "crossword" => Crossword!SolutionsExact

\* Удаление комментариев.cpp: the copy is the text without its comments.
CommentsRemoved == program = "comments" => Comments!CommentsRemoved

\* DataBase Dormitories.cpp: the list implements Register.
KeepsRegister ==
  /\ program = "dormitory" => Dorm!Promised!RegInit
  /\ [][program = "dormitory" => [Dorm!Promised!RegNext]_(Dorm!Promised!regVars)]_vars
=============================================================================
