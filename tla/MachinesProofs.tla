----------------------------- MODULE MachinesProofs -----------------------------
(***************************************************************************)
(* The programs that nothing but their users and files act on: what the    *)
(* runs check of them, for every value of the constants.                   *)
(*                                                                         *)
(* Each program has an inductive invariant of its own; IInv says that the  *)
(* program that runs keeps its one.  Those of the searches and of the      *)
(* comment remover stand in MachineLemmas.                                 *)
(***************************************************************************)
EXTENDS MachineLemmas

----------------------------------------------------------------------------
(* Strings: lemmas of MyStringProofs. *)

\* The invariant of strings.
LEMMA InitString == SP!Init => SP!IsString(str)
BY SP!InitString, SameConstants, ConsoleAssumption, ConvertAssumption, DateAssumption,
   SearchAssumption,
   StringAssumption, FilesAssumption, PuzzlesAssumption, DormitoryAssumption, CFilesAssumption,
       Zenon
   DEF ConsoleAssumption, ConvertAssumption, DateAssumption, SearchAssumption,
   StringAssumption, FilesAssumption, PuzzlesAssumption, DormitoryAssumption, CFilesAssumption

LEMMA NextString == SP!IsString(str) /\ [SP!Next]_str => SP!IsString(str')
BY SP!NextString, SameConstants, ConsoleAssumption, ConvertAssumption, DateAssumption,
   SearchAssumption,
   StringAssumption, FilesAssumption, PuzzlesAssumption, DormitoryAssumption, CFilesAssumption,
       Zenon
   DEF ConsoleAssumption, ConvertAssumption, DateAssumption, SearchAssumption,
   StringAssumption, FilesAssumption, PuzzlesAssumption, DormitoryAssumption, CFilesAssumption

LEMMA EditsOfStrings == SP!IsString(str) => SP!EditsRight
BY SP!EditsOfStrings, SameConstants, ConsoleAssumption, ConvertAssumption, DateAssumption,
   SearchAssumption,
   StringAssumption, FilesAssumption, PuzzlesAssumption, DormitoryAssumption, CFilesAssumption,
       Zenon
   DEF ConsoleAssumption, ConvertAssumption, DateAssumption, SearchAssumption,
   StringAssumption, FilesAssumption, PuzzlesAssumption, DormitoryAssumption, CFilesAssumption

LEMMA QueriesOfStrings == SP!IsString(str) => SP!QueriesRight
BY SP!QueriesOfStrings, SameConstants, ConsoleAssumption, ConvertAssumption, DateAssumption,
   SearchAssumption,
   StringAssumption, FilesAssumption, PuzzlesAssumption, DormitoryAssumption, CFilesAssumption,
       Zenon
   DEF ConsoleAssumption, ConvertAssumption, DateAssumption, SearchAssumption,
   StringAssumption, FilesAssumption, PuzzlesAssumption, DormitoryAssumption, CFilesAssumption


----------------------------------------------------------------------------
(* kernel.cpp: the line and the screen of the console. *)

\* What the proofs need to know of the line's variables.
ConsoleLineTypes ==
  /\ cur_position \in Nat
  /\ str_inputing \in [0 .. StrLen -> Console!Letters \cup {Console!Nul}]
  /\ string_count \in Nat

\* The cursor is behind the line; beyond the column where input_string refuses
\* characters it comes by a tab only, which puts it four further behind.
ConsoleCursorBehind ==
  /\ Console!Prompt + string_count <= cur_position
  /\ cur_position > StrLen => Console!Prompt + 4 + string_count <= cur_position

ConsoleLineInv == ConsoleLineTypes /\ ConsoleCursorBehind /\ Console!LineFits

USE ConsoleAssumption DEF ConsoleAssumption, Console!Prompt

LEMMA ConsoleNulIsNoLetter == Console!Nul \notin Console!Letters
BY DEF Console!Nul, Console!Letters

LEMMA ConsoleInitLine == Console!Init => ConsoleLineInv
BY DEF Console!Init, ConsoleLineInv, ConsoleLineTypes, ConsoleCursorBehind, Console!LineFits,
   Console!Cleared, Console!Letters, Console!Nul

LEMMA ConsoleLetterLine == ConsoleLineInv /\ Console!Letter => ConsoleLineInv'
<1> SUFFICES ASSUME ConsoleLineInv, Console!Letter PROVE ConsoleLineInv'
  OBVIOUS
<1> USE DEF ConsoleLineInv, ConsoleLineTypes, ConsoleCursorBehind, Console!LineFits
<1>1. CASE cur_position = StrLen
  BY <1>1 DEF Console!Letter, Console!lineVars
<1>2. CASE cur_position # StrLen /\ cur_position >= StrLen + 2
  BY <1>2 DEF Console!Letter, Console!Echo, Console!lineVars
<1>3. CASE cur_position # StrLen /\ cur_position < StrLen + 2
  <2>1. /\ str_inputing' = [str_inputing EXCEPT ![string_count] = Console!Symbol]
        /\ cur_position' = cur_position + 1
        /\ string_count' = string_count + 1
    BY <1>3 DEF Console!Letter, Console!Echo
  <2>2. Console!Symbol \in Console!Letters /\ Console!Symbol # Console!Nul
    BY ConsoleNulIsNoLetter DEF Console!Symbol, Console!Letters
  <2>3. string_count + 1 < StrLen - 1
    BY <1>3
  <2>4. \A k \in 0 .. StrLen : str_inputing'[k] = Console!Nul <=> k >= string_count + 1
    BY <2>1, <2>2, <2>3
  <2>5. ConsoleLineTypes'
    BY <2>1, <2>2
  <2>6. ConsoleCursorBehind'
    BY <1>3, <2>1
  <2>7. QED
    BY <2>1, <2>3, <2>4, <2>5, <2>6
<1>4. QED
  BY <1>1, <1>2, <1>3

LEMMA ConsoleBackspaceLine == ConsoleLineInv /\ Console!Backspace => ConsoleLineInv'
<1> SUFFICES ASSUME ConsoleLineInv, Console!Backspace PROVE ConsoleLineInv'
  OBVIOUS
<1> USE DEF ConsoleLineInv, ConsoleLineTypes, ConsoleCursorBehind, Console!LineFits
<1> DEFINE n == IF string_count > 0 THEN string_count - 1 ELSE 0
<1>1. /\ str_inputing' = [str_inputing EXCEPT ![n] = Console!Nul]
      /\ string_count' = n
      /\ cur_position' = IF cur_position > Console!Prompt THEN cur_position - 1 ELSE cur_position
  BY DEF Console!Backspace
<1>2. n \in 0 .. StrLen
  OBVIOUS
<1>3. \A k \in 0 .. StrLen : str_inputing'[k] = Console!Nul <=> k >= n
  BY <1>1, <1>2
<1>4. ConsoleLineTypes'
  BY <1>1, <1>2
<1>5. ConsoleCursorBehind'
  BY <1>1
<1>6. QED
  BY <1>1, <1>3, <1>4, <1>5

LEMMA ConsoleEnterLine == ConsoleLineInv /\ Console!Enter => ConsoleLineInv'
<1> SUFFICES ASSUME ConsoleLineInv, Console!Enter PROVE ConsoleLineInv'
  OBVIOUS
<1> USE DEF ConsoleLineInv, ConsoleLineTypes, ConsoleCursorBehind, Console!LineFits
<1>1. cur_position' = 2 /\ string_count' = 0
  BY DEF Console!Enter
<1>2. str_inputing' = Console!Memset([str_inputing EXCEPT ![string_count] = Console!Nul])
  BY DEF Console!Enter
<1>3. str_inputing' = [k \in 0 .. StrLen |-> Console!Nul]
  BY <1>2 DEF Console!Memset
<1>4. ConsoleLineTypes'
  BY <1>1, <1>3
<1>5. ConsoleCursorBehind'
  BY <1>1
<1>6. Console!LineFits'
  <2>1. \A k \in 0 .. StrLen : str_inputing'[k] = Console!Nul
    BY <1>3
  <2>2. QED
    BY <1>1, <2>1
<1>7. QED
  BY <1>4, <1>5, <1>6

LEMMA ConsolePowerOffLine == ConsoleLineInv /\ Console!PowerOff => ConsoleLineInv'
BY DEF ConsoleLineInv, ConsoleLineTypes, ConsoleCursorBehind, Console!LineFits,
   Console!PowerOff, Console!Cleared

LEMMA ConsoleNextLine == ConsoleLineInv /\ [Console!Next]_(Console!consoleVars) => ConsoleLineInv'
<1> SUFFICES ASSUME ConsoleLineInv, [Console!Next]_(Console!consoleVars) PROVE ConsoleLineInv'
  OBVIOUS
<1> USE DEF ConsoleLineInv, ConsoleLineTypes, ConsoleCursorBehind, Console!LineFits
<1>1. CASE Console!ShiftKey
  BY <1>1 DEF Console!ShiftKey, Console!screenVars, Console!lineVars
<1>2. CASE Console!CapsLock
  BY <1>2 DEF Console!CapsLock, Console!screenVars, Console!lineVars
<1>3. CASE Console!Tab
  BY <1>3 DEF Console!Tab, Console!lineVars
<1>4. CASE UNCHANGED Console!consoleVars
  BY <1>4 DEF Console!consoleVars, Console!screenVars, Console!lineVars
<1>5. QED
  BY <1>1, <1>2, <1>3, <1>4, ConsoleLetterLine, ConsoleBackspaceLine, ConsoleEnterLine,
     ConsolePowerOffLine DEF Console!Next


ConsoleCharacters == Console!Letters \cup {Console!Nul, Console!Hash, Console!Text}
ConsoleScreens == [cells : [Console!Cells -> ConsoleCharacters], row : 0 .. LastRow]

ConsoleScreenTypes ==
  /\ video \in [Console!Cells -> ConsoleCharacters]
  /\ cur_strnum \in 0 .. LastRow
  /\ cur_position < 2 * Width + MaxPos
  /\ powered \in BOOLEAN

\* The places of the line's characters on the row.
ConsoleEmbeds(f) ==
  /\ \A j, k \in 1 .. string_count : j < k => f[j] < f[k]
  /\ \A k \in 1 .. string_count : video[Console!At(cur_strnum, 1 + f[k])] = str_inputing[k - 1]

\* The prompt stands before the line; without a tab the line stands behind it as it is.
ConsoleDisplayed ==
  /\ powered => video[Console!At(cur_strnum, 0)] = Console!Hash
  /\ IF cur_position = 2 + string_count
     THEN \A k \in 1 .. string_count : video[Console!At(cur_strnum, 1 + k)] = str_inputing[k - 1]
     ELSE \E f \in [1 .. string_count -> 1 .. cur_position - 2] : ConsoleEmbeds(f)

ConsoleIInv == ConsoleLineInv /\ ConsoleScreenTypes /\ ConsoleDisplayed

\* Rows do not overlap, and the last one ends in the memory.
LEMMA ConsoleCellsOf ==
  ASSUME NEW y \in 0 .. LastRow, NEW p \in Nat, p < 2 * Width + MaxPos
  PROVE  /\ Console!At(y, p) \in Console!Cells
         /\ \A q \in Nat : Console!At(y, p) = Console!At(y, q) <=> p = q
<1>. DEFINE low == y * Width
            high == LastRow * Width
<1>1. low \in Nat /\ high \in Nat /\ low <= high
  <2>1. LastRow * Width - y * Width = (LastRow - y) * Width
    OBVIOUS
  <2>2. (LastRow - y) * Width >= 0
    OBVIOUS
  <2>3. low \in Nat /\ high \in Nat
    OBVIOUS
  <2>. QED
    BY <2>1, <2>2, <2>3
<1>2. (LastRow + 2) * Width + MaxPos = (high + 2 * Width) + MaxPos
  OBVIOUS
<1>3. Console!At(y, p) = low + p /\ \A q \in Nat : Console!At(y, q) = low + q
  BY DEF Console!At
<1>4. Width \in Nat /\ MaxPos \in Nat
  OBVIOUS
<1>. HIDE DEF low, high
<1>5. low + p >= 0 /\ low + p <= (high + 2 * Width) + MaxPos /\ low + p \in Int
  BY <1>1, <1>4
<1>6. low + p \in 0 .. (high + 2 * Width) + MaxPos
  BY <1>1, <1>4, <1>5
<1>. QED
  BY <1>1, <1>2, <1>3, <1>6 DEF Console!Cells, Console!At

LEMMA ConsoleScrolledIs ==
  ASSUME NEW screen \in ConsoleScreens
  PROVE  Console!Scrolled(screen) \in ConsoleScreens
<1>1. screen.cells \in [Console!Cells -> ConsoleCharacters] /\ screen.row \in 0 .. LastRow
  BY DEF ConsoleScreens
<1>2. CASE screen.row # LastRow
  <2>1. screen.row + 1 \in 0 .. LastRow
    BY <1>1, <1>2
  <2>. QED
    BY <1>2, <2>1 DEF Console!Scrolled, ConsoleScreens
<1>3. CASE screen.row = LastRow
  <2>. DEFINE Moved(c) == IF c < Console!At(LastRow, 0) THEN screen.cells[c + Width]
                          ELSE IF c < Console!At(LastRow + 1, 0) THEN Console!Nul
                              ELSE screen.cells[c]
              cells == [c \in Console!Cells |-> Moved(c)]
  <2>1. ASSUME NEW c \in Console!Cells
        PROVE  Moved(c) \in ConsoleCharacters
    <3>1. CASE c < Console!At(LastRow, 0)
      <4>. DEFINE high == LastRow * Width
      <4>1. /\ high \in Nat /\ (LastRow + 2) * Width + MaxPos = (high + 2 * Width) + MaxPos
            /\ Console!At(LastRow, 0) = high + 0
        BY DEF Console!At
      <4>2. Width \in Nat /\ MaxPos \in Nat
        OBVIOUS
      <4>. HIDE DEF high
      <4>3. c \in Nat /\ c < high
        BY <3>1, <4>1 DEF Console!Cells
      <4>4. c + Width \in 0 .. (high + 2 * Width) + MaxPos
        BY <4>1, <4>2, <4>3
      <4>5. c + Width \in Console!Cells
        BY <4>1, <4>4 DEF Console!Cells, Console!At
      <4>. QED
        BY <1>1, <3>1, <4>5
    <3>2. CASE ~ (c < Console!At(LastRow, 0))
      BY <1>1, <3>2 DEF ConsoleCharacters
    <3>. QED
      BY <3>1, <3>2
  <2>. HIDE DEF Moved
  <2>2. cells \in [Console!Cells -> ConsoleCharacters]
    BY <2>1
  <2>3. Console!Scrolled(screen) = [screen EXCEPT !.cells = cells]
    BY <1>3 DEF Console!Scrolled, Moved
  <2>. HIDE DEF cells
  <2>. QED
    BY <1>1, <2>2, <2>3 DEF ConsoleScreens
<1>. QED
  BY <1>2, <1>3

LEMMA ConsolePrintedIs ==
  ASSUME NEW screen \in ConsoleScreens, NEW y
  PROVE  Console!Printed(screen, y) \in ConsoleScreens
<1>. DEFINE cells == [c \in Console!Cells |->
                        IF c \in Console!At(y, 0) .. Console!At(y, TextLen - 1) THEN Console!Text
                            ELSE screen.cells[c]]
            written == [screen EXCEPT !.cells = cells]
<1>1. cells \in [Console!Cells -> ConsoleCharacters]
  BY DEF ConsoleScreens, ConsoleCharacters
<1>2. written \in ConsoleScreens
  <2>. HIDE DEF cells
  <2>. QED
    BY <1>1 DEF ConsoleScreens
<1>3. Console!Printed(screen, y) = Console!Scrolled(written)
  BY DEF Console!Printed
<1>. HIDE DEF written
<1>. QED
  BY <1>2, <1>3, ConsoleScrolledIs

\* However many lines a command prints.
LEMMA ConsolePrintedLinesIs ==
  ASSUME NEW screen \in ConsoleScreens, NEW n \in Nat
  PROVE  Console!PrintedLines(screen, n) \in ConsoleScreens
<1>. DEFINE step == [s \in ConsoleScreens |-> Console!Printed(s, s.row)]
<1>1. step \in [ConsoleScreens -> ConsoleScreens]
  BY ConsolePrintedIs
<1>2. PICK g \in [0 .. n -> ConsoleScreens] : g[0] = screen /\ \A k \in 1 .. n : g[k] = step[g[k - 1]]
  <2>. HIDE DEF step
  <2>. QED
    <3>1. \E f : SP!AreIterates(f, ConsoleScreens, screen, step, n)
      BY <1>1, Iterates
    <3>. QED
      BY <3>1 DEF SP!AreIterates
<1>. DEFINE Prints(f) ==
       f = [k \in 0 .. n |-> IF k = 0 THEN screen ELSE Console!Printed(f[k - 1], f[k - 1].row)]
            lines == CHOOSE f : Prints(f)
<1>3. Prints(g)
  <2>1. ASSUME NEW k \in 0 .. n
        PROVE  g[k] = IF k = 0 THEN screen ELSE Console!Printed(g[k - 1], g[k - 1].row)
    <3>1. CASE k = 0
      BY <1>2, <3>1
    <3>2. CASE k # 0
      <4>1. k \in 1 .. n /\ k - 1 \in 0 .. n
        BY <3>2
      <4>2. g[k - 1] \in ConsoleScreens /\ g[k] = step[g[k - 1]]
        BY <1>2, <4>1
      <4>. QED
        BY <3>2, <4>2
    <3>. QED
      BY <3>1, <3>2
  <2>. QED
    BY <2>1
<1>4. Prints(lines)
  BY <1>3
<1>5. Console!PrintedLines(screen, n) = lines[n]
  BY DEF Console!PrintedLines
<1>. HIDE DEF lines
<1>. DEFINE S == {m \in Nat : m <= n => lines[m] \in ConsoleScreens}
<1>6. 0 \in S
  BY <1>4
<1>7. ASSUME NEW m \in Nat, m \in S
      PROVE  m + 1 \in S
  <2>1. ASSUME m + 1 <= n
        PROVE  lines[m + 1] \in ConsoleScreens
    <3>1. m + 1 \in 0 .. n /\ m + 1 # 0 /\ m + 1 - 1 = m
      BY <2>1
    <3>2. lines[m + 1] = Console!Printed(lines[m], lines[m].row)
      BY <1>4, <3>1
    <3>3. lines[m] \in ConsoleScreens
      BY <1>7, <2>1
    <3>. QED
      BY <3>2, <3>3, ConsolePrintedIs
  <2>. QED
    BY <2>1
<1>8. n \in S
  <2>. HIDE DEF S
  <2>1. Nat \subseteq S
    BY <1>6, <1>7, Induction
  <2>. QED
    BY <2>1
<1>. QED
  BY <1>5, <1>8

LEMMA ConsoleOutcomesAre ==
  ASSUME NEW screen \in ConsoleScreens, NEW typed, NEW outcome \in Console!Outcomes(screen, typed)
  PROVE  outcome \in ConsoleScreens
<1>1. Console!ClearScreen(screen) \in ConsoleScreens
  BY DEF Console!ClearScreen, ConsoleScreens, ConsoleCharacters
<1>2. ASSUME NEW n \in 0 .. MaxPrints
      PROVE  Console!PrintedLines(screen, n) \in ConsoleScreens
  BY ConsolePrintedLinesIs
<1>3. Console!PrintedWintime(screen) \in ConsoleScreens
  BY ConsolePrintedIs DEF Console!PrintedWintime
<1>. QED
  BY <1>1, <1>2, <1>3, ConsolePrintedIs DEF Console!Outcomes

\* After out_hash the prompt is at the start of the row.
LEMMA ConsoleWithHashIs ==
  ASSUME NEW screen \in ConsoleScreens
  PROVE  LET hashed == Console!WithHash(screen)
         IN hashed.cells \in [Console!Cells -> ConsoleCharacters] /\ hashed.row \in 0 .. LastRow
              /\ hashed.cells[Console!At(hashed.row, 0)] = Console!Hash
<1>1. screen.cells \in [Console!Cells -> ConsoleCharacters] /\ screen.row \in 0 .. LastRow
  BY DEF ConsoleScreens
<1>. DEFINE first == Console!At(screen.row, 0)
            second == Console!At(screen.row, 1)
<1>2. first \in Console!Cells /\ second \in Console!Cells /\ first # second
  BY <1>1, ConsoleCellsOf
<1>. HIDE DEF first, second
<1>. DEFINE cells == [[screen.cells EXCEPT ![first] = Console!Hash] EXCEPT ![second] = Console!Nul]
<1>3. cells \in [Console!Cells -> ConsoleCharacters] /\ cells[first] = Console!Hash
  BY <1>1, <1>2 DEF ConsoleCharacters
<1>4. Console!WithHash(screen).cells = cells /\ Console!WithHash(screen).row = screen.row
  BY DEF Console!WithHash, ConsoleScreens, first, second
<1>. HIDE DEF cells
<1>. QED
  BY <1>1, <1>3, <1>4 DEF first

\* A new prompt with nothing behind it.
LEMMA ConsolePromptDisplayed ==
  ASSUME NEW screen \in ConsoleScreens, Console!Show(Console!WithHash(screen)),
      cur_position' = Console!Prompt, string_count' = 0,
         powered' \in BOOLEAN
  PROVE  ConsoleScreenTypes' /\ ConsoleDisplayed'
<1>1. /\ video' \in [Console!Cells -> ConsoleCharacters] /\ cur_strnum' \in 0 .. LastRow
      /\ video'[Console!At(cur_strnum', 0)] = Console!Hash
  BY ConsoleWithHashIs DEF Console!Show
<1>. QED
  BY <1>1 DEF ConsoleScreenTypes, ConsoleDisplayed, Console!At

LEMMA ConsoleInitDisplayed == Console!Init => ConsoleScreenTypes /\ ConsoleDisplayed
<1>. SUFFICES ASSUME Console!Init PROVE ConsoleScreenTypes /\ ConsoleDisplayed
  OBVIOUS
<1>. DEFINE screen == Console!Printed([cells |-> Console!Blank, row |-> 0], 0)
<1>1. screen \in ConsoleScreens
  BY ConsolePrintedIs DEF Console!Blank, ConsoleScreens, ConsoleCharacters
<1>2. /\ video = Console!WithHash(screen).cells /\ cur_strnum = Console!WithHash(screen).row
      /\ cur_position = 2 /\ string_count = 0 /\ powered = TRUE
  BY DEF Console!Init
<1>. HIDE DEF screen
<1>3. /\ video \in [Console!Cells -> ConsoleCharacters] /\ cur_strnum \in 0 .. LastRow
      /\ video[Console!At(cur_strnum, 0)] = Console!Hash
  BY <1>1, <1>2, ConsoleWithHashIs
<1>. QED
  BY <1>2, <1>3 DEF ConsoleScreenTypes, ConsoleDisplayed

LEMMA ConsoleEnterDisplayed == ConsoleIInv /\ Console!Enter
    => ConsoleScreenTypes' /\ ConsoleDisplayed'
<1>. SUFFICES ASSUME ConsoleIInv, Console!Enter PROVE ConsoleScreenTypes' /\ ConsoleDisplayed'
  OBVIOUS
<1>. DEFINE typed == [str_inputing EXCEPT ![string_count] = Console!Nul]
            screen == Console!Scrolled([cells |-> video, row |-> cur_strnum])
<1>1. [cells |-> video, row |-> cur_strnum] \in ConsoleScreens
  BY DEF ConsoleIInv, ConsoleScreenTypes, ConsoleScreens
<1>2. screen \in ConsoleScreens
  BY <1>1, ConsoleScrolledIs
<1>3. PICK outcome \in Console!Outcomes(screen, typed) : Console!Show(Console!WithHash(outcome))
  BY DEF Console!Enter
<1>4. cur_position' = Console!Prompt /\ string_count' = 0 /\ powered' \in BOOLEAN
  BY DEF Console!Enter, ConsoleIInv, ConsoleScreenTypes
<1>5. outcome \in ConsoleScreens
  <2>. HIDE DEF screen, typed
  <2>. QED
    BY <1>2, <1>3, ConsoleOutcomesAre
<1>. QED
  BY <1>3, <1>4, <1>5, ConsolePromptDisplayed

LEMMA ConsolePowerOffDisplayed == ConsoleIInv /\ Console!PowerOff
    => ConsoleScreenTypes' /\ ConsoleDisplayed'
<1>. SUFFICES ASSUME ConsoleIInv, Console!PowerOff PROVE ConsoleScreenTypes' /\ ConsoleDisplayed'
  OBVIOUS
<1>1. /\ video' = [c \in Console!Cells |-> Console!Nul] /\ cur_strnum' = 0
      /\ cur_position' = 2 /\ string_count' = 0 /\ powered' = FALSE
  BY DEF Console!PowerOff, Console!Blank
<1>2. [c \in Console!Cells |-> Console!Nul] \in [Console!Cells -> ConsoleCharacters]
  BY DEF ConsoleCharacters
<1>3. ConsoleScreenTypes'
  <2>1. 0 \in 0 .. LastRow /\ 2 < 2 * Width + MaxPos
    OBVIOUS
  <2>. QED
    BY <1>1, <1>2, <2>1 DEF ConsoleScreenTypes
<1>4. ConsoleDisplayed'
  <2>1. cur_position' = 2 + string_count' /\ 1 .. string_count' = {}
    BY <1>1
  <2>. QED
    BY <1>1, <2>1 DEF ConsoleDisplayed
<1>. QED
  BY <1>3, <1>4

\* One character of the cursor's row is written.
LEMMA ConsoleOneWritten ==
  ASSUME ConsoleScreenTypes, NEW p \in Nat, p < 2 * Width + MaxPos, NEW char \in ConsoleCharacters,
         video' = [video EXCEPT ![Console!At(cur_strnum, p)] = char]
  PROVE  /\ video' \in [Console!Cells -> ConsoleCharacters]
         /\ video'[Console!At(cur_strnum, p)] = char
         /\ \A q \in Nat : q < 2 * Width + MaxPos /\ q # p =>
              video'[Console!At(cur_strnum, q)] = video[Console!At(cur_strnum, q)]
<1>1. Console!At(cur_strnum, p) \in Console!Cells
  BY ConsoleCellsOf DEF ConsoleScreenTypes
<1>2. ASSUME NEW q \in Nat, q < 2 * Width + MaxPos, q # p
      PROVE  Console!At(cur_strnum, q) \in Console!Cells /\ Console!At(cur_strnum, q) # Console!At(cur_strnum, p)
  BY <1>2, ConsoleCellsOf DEF ConsoleScreenTypes
<1>. QED
  BY <1>1, <1>2 DEF ConsoleScreenTypes

\* Beyond the columns of the line a character is only shown.
LEMMA ConsoleShownOnly ==
  ASSUME ConsoleIInv, Console!Echo(Console!Symbol), ~ (cur_position < StrLen + 2),
      UNCHANGED <<cur_strnum, powered>>
  PROVE  ConsoleScreenTypes' /\ ConsoleDisplayed'
<1>1. /\ cur_position \in Nat /\ string_count \in Nat /\ 2 + string_count <= cur_position
      /\ cur_position < 2 * Width + MaxPos /\ ConsoleScreenTypes
  BY DEF ConsoleIInv, ConsoleLineInv, ConsoleLineTypes, ConsoleCursorBehind, ConsoleScreenTypes
<1>2. Console!Symbol \in ConsoleCharacters
  BY DEF Console!Symbol, ConsoleCharacters, Console!Letters
<1>3. /\ video' = [video EXCEPT ![Console!At(cur_strnum, cur_position)] = Console!Symbol]
      /\ UNCHANGED <<str_inputing, cur_position, string_count>>
  BY DEF Console!Echo
<1>4. /\ video' \in [Console!Cells -> ConsoleCharacters]
      /\ \A q \in Nat : q < cur_position
           => video'[Console!At(cur_strnum, q)] = video[Console!At(cur_strnum, q)]
  <2>1. \A q \in Nat : q < cur_position => q < 2 * Width + MaxPos /\ q # cur_position
    BY <1>1
  <2>. QED
    BY <1>1, <1>2, <1>3, <2>1, ConsoleOneWritten
<1>5. ConsoleScreenTypes'
  BY <1>3, <1>4 DEF ConsoleIInv, ConsoleScreenTypes
<1>6. powered' => video'[Console!At(cur_strnum', 0)] = Console!Hash
  BY <1>1, <1>4 DEF ConsoleIInv, ConsoleDisplayed
<1>7. CASE cur_position = 2 + string_count
  <2>1. \A k \in 1 .. string_count : 1 + k \in Nat /\ 1 + k < cur_position
    BY <1>1, <1>7
  <2>. QED
    BY <1>3, <1>4, <1>5, <1>6, <1>7, <2>1 DEF ConsoleIInv, ConsoleDisplayed
<1>8. CASE cur_position # 2 + string_count
  <2>1. PICK f \in [1 .. string_count -> 1 .. cur_position - 2] : ConsoleEmbeds(f)
    BY <1>8 DEF ConsoleIInv, ConsoleDisplayed
  <2>2. \A k \in 1 .. string_count : 1 + f[k] \in Nat /\ 1 + f[k] < cur_position
    BY <1>1, <2>1
  <2>3. ConsoleEmbeds(f)'
    BY <1>3, <1>4, <2>1, <2>2 DEF ConsoleEmbeds
  <2>. QED
    BY <1>3, <1>5, <1>6, <1>8, <2>1, <2>3 DEF ConsoleDisplayed
<1>. QED
  BY <1>7, <1>8

\* Otherwise it becomes the line's last and is shown at the cursor.
LEMMA ConsoleShownAndKept ==
  ASSUME ConsoleIInv, Console!Echo(Console!Symbol), cur_position < StrLen + 2,
      UNCHANGED <<cur_strnum, powered>>
  PROVE  ConsoleScreenTypes' /\ ConsoleDisplayed'
<1>. DEFINE p == cur_position
            n == string_count
<1>1. /\ p \in Nat /\ n \in Nat /\ 2 + n <= p /\ p < 2 * Width + MaxPos /\ p + 1 < 2 * Width + MaxPos
      /\ ConsoleScreenTypes /\ n < StrLen - 1
      /\ str_inputing \in [0 .. StrLen -> Console!Letters \cup {Console!Nul}]
  BY DEF ConsoleIInv, ConsoleLineInv, ConsoleLineTypes, Console!LineFits, ConsoleCursorBehind,
     ConsoleScreenTypes
<1>2. Console!Symbol \in ConsoleCharacters
  BY DEF Console!Symbol, ConsoleCharacters, Console!Letters
<1>3. /\ video' = [video EXCEPT ![Console!At(cur_strnum, p)] = Console!Symbol]
      /\ str_inputing' = [str_inputing EXCEPT ![n] = Console!Symbol]
      /\ cur_position' = p + 1 /\ string_count' = n + 1
  BY DEF Console!Echo
<1>4. /\ video' \in [Console!Cells -> ConsoleCharacters]
      /\ video'[Console!At(cur_strnum, p)] = Console!Symbol
      /\ \A q \in Nat : q < p
           => video'[Console!At(cur_strnum, q)] = video[Console!At(cur_strnum, q)]
  <2>1. \A q \in Nat : q < p => q < 2 * Width + MaxPos /\ q # p
    BY <1>1
  <2>. QED
    BY <1>1, <1>2, <1>3, <2>1, ConsoleOneWritten
<1>5. ConsoleScreenTypes'
  BY <1>1, <1>3, <1>4 DEF ConsoleIInv, ConsoleScreenTypes
<1>6. powered' => video'[Console!At(cur_strnum', 0)] = Console!Hash
  BY <1>1, <1>4 DEF ConsoleIInv, ConsoleDisplayed
<1>7. /\ str_inputing'[n] = Console!Symbol
      /\ \A k \in 1 .. n : str_inputing'[k - 1] = str_inputing[k - 1]
  BY <1>1, <1>3
<1>. HIDE DEF p, n
<1>8. CASE p = 2 + n
  <2>1. \A k \in 1 .. n : video[Console!At(cur_strnum, 1 + k)] = str_inputing[k - 1]
    BY <1>8 DEF ConsoleIInv, ConsoleDisplayed, p, n
  <2>2. \A k \in 1 .. n : video'[Console!At(cur_strnum, 1 + k)] = str_inputing'[k - 1]
    <3>1. \A k \in 1 .. n : 1 + k \in Nat /\ 1 + k < p
      BY <1>1, <1>8
    <3>. QED
      BY <1>4, <1>7, <2>1, <3>1
  <2>3. video'[Console!At(cur_strnum, 1 + (n + 1))] = str_inputing'[(n + 1) - 1]
    <3>1. 1 + (n + 1) = p /\ (n + 1) - 1 = n
      BY <1>1, <1>8
    <3>. QED
      BY <1>4, <1>7, <3>1
  <2>4. \A k \in 1 .. n + 1 : video'[Console!At(cur_strnum, 1 + k)] = str_inputing'[k - 1]
    <3>1. \A k \in 1 .. n + 1 : k \in 1 .. n \/ k = n + 1
      BY <1>1
    <3>. QED
      BY <2>2, <2>3, <3>1
  <2>5. cur_position' = 2 + string_count'
    BY <1>1, <1>3, <1>8
  <2>. QED
    BY <1>3, <1>5, <1>6, <2>4, <2>5 DEF ConsoleDisplayed
<1>9. CASE p # 2 + n
  <2>1. PICK f \in [1 .. n -> 1 .. p - 2] : ConsoleEmbeds(f)
    BY <1>9 DEF ConsoleIInv, ConsoleDisplayed, p, n
  <2>. PICK g : g = [k \in 1 .. n + 1 |-> IF k = n + 1 THEN p - 1 ELSE f[k]]
    OBVIOUS
  <2>2. \A k \in 1 .. n : f[k] \in Nat /\ f[k] >= 1 /\ f[k] < p - 1 /\ 1 + f[k] \in Nat /\ 1 + f[k] < p
    BY <1>1, <2>1
  <2>3. /\ g[n + 1] = p - 1
        /\ \A k \in 1 .. n : g[k] = f[k]
        /\ \A k \in 1 .. n + 1 : k = n + 1 \/ k \in 1 .. n
    BY <1>1
  <2>4. g \in [1 .. n + 1 -> 1 .. p - 1]
    <3>1. \A k \in 1 .. n + 1 : g[k] \in 1 .. p - 1
      BY <1>1, <2>2, <2>3, SMTT(30)
    <3>. QED
      BY <3>1
  <2>5. ASSUME NEW j \in 1 .. n + 1, NEW k \in 1 .. n + 1, j < k
        PROVE  g[j] < g[k]
    <3>1. j \in 1 .. n
      BY <1>1, <2>5
    <3>2. CASE k = n + 1
      BY <2>2, <2>3, <3>1, <3>2
    <3>3. CASE k \in 1 .. n
      BY <2>1, <2>3, <2>5, <3>1, <3>3 DEF ConsoleEmbeds, n
    <3>. QED
      BY <2>3, <3>2, <3>3
  <2>6. ASSUME NEW k \in 1 .. n + 1
        PROVE  video'[Console!At(cur_strnum, 1 + g[k])] = str_inputing'[k - 1]
    <3>1. CASE k = n + 1
      <4>1. 1 + (p - 1) = p /\ k - 1 = n
        BY <1>1, <3>1
      <4>. QED
        BY <1>4, <1>7, <2>3, <3>1, <4>1
    <3>2. CASE k \in 1 .. n
      <4>1. video[Console!At(cur_strnum, 1 + f[k])] = str_inputing[k - 1]
        BY <2>1, <3>2 DEF ConsoleEmbeds, n
      <4>. QED
        BY <1>4, <1>7, <2>2, <2>3, <3>2, <4>1
    <3>. QED
      BY <2>3, <3>1, <3>2
  <2>7. ConsoleEmbeds(g)'
    BY <1>3, <2>5, <2>6, UNCHANGED cur_strnum DEF ConsoleEmbeds, n
  <2>8. string_count' = n + 1 /\ cur_position' - 2 = p - 1 /\ cur_position' # 2 + string_count'
    BY <1>1, <1>3, <1>9 DEF p, n
  <2>9. g \in [1 .. string_count' -> 1 .. cur_position' - 2]
    BY <2>4, <2>8
  <2>. QED
    BY <1>6, <1>5, <2>7, <2>8, <2>9 DEF ConsoleDisplayed
<1>. QED
  BY <1>8, <1>9

LEMMA ConsoleLetterDisplayed == ConsoleIInv /\ Console!Letter
    => ConsoleScreenTypes' /\ ConsoleDisplayed'
<1>. SUFFICES ASSUME ConsoleIInv, Console!Letter PROVE ConsoleScreenTypes' /\ ConsoleDisplayed'
  OBVIOUS
<1>1. UNCHANGED <<cur_strnum, powered>>
  BY DEF Console!Letter
<1>2. CASE cur_position = StrLen
  <2>1. UNCHANGED <<video, cur_position, str_inputing, string_count>>
    BY <1>2 DEF Console!Letter, Console!lineVars
  <2>. QED
    BY <1>1, <2>1 DEF ConsoleIInv, ConsoleScreenTypes, ConsoleDisplayed, ConsoleEmbeds
<1>3. CASE cur_position # StrLen
  <2>1. Console!Echo(Console!Symbol)
    BY <1>3 DEF Console!Letter
  <2>. QED
    BY <1>1, <2>1, ConsoleShownOnly, ConsoleShownAndKept
<1>. QED
  BY <1>2, <1>3

\* The last character is erased, and it is erased in the line.
LEMMA ConsoleBackspaceDisplayed == ConsoleIInv /\ Console!Backspace
    => ConsoleScreenTypes' /\ ConsoleDisplayed'
<1>. SUFFICES ASSUME ConsoleIInv, Console!Backspace PROVE ConsoleScreenTypes' /\ ConsoleDisplayed'
  OBVIOUS
<1>. DEFINE p == cur_position
            n == string_count
            m == IF n > 0 THEN n - 1 ELSE 0
            r == IF p > 2 THEN p - 1 ELSE p
<1>1. /\ p \in Nat /\ n \in Nat /\ 2 + n <= p /\ p < 2 * Width + MaxPos /\ ConsoleScreenTypes
      /\ n < StrLen - 1 /\ str_inputing \in [0 .. StrLen -> Console!Letters \cup {Console!Nul}]
  BY DEF ConsoleIInv, ConsoleLineInv, ConsoleLineTypes, Console!LineFits, ConsoleCursorBehind,
     ConsoleScreenTypes
<1>2. /\ video' = [video EXCEPT ![Console!At(cur_strnum, p) - 1] = Console!Nul]
      /\ str_inputing' = [str_inputing EXCEPT ![m] = Console!Nul]
      /\ string_count' = m /\ cur_position' = r /\ UNCHANGED <<cur_strnum, powered>>
  BY DEF Console!Backspace
<1>. HIDE DEF p, n
<1>3. /\ m \in Nat /\ r \in Nat /\ p - 1 \in Nat /\ r < 2 * Width + MaxPos /\ 2 + m <= r
      /\ p - 1 < 2 * Width + MaxPos /\ m \in 0 .. StrLen
  BY <1>1
<1>4. Console!At(cur_strnum, p) - 1 = Console!At(cur_strnum, p - 1)
  <2>. DEFINE low == cur_strnum * Width
  <2>1. low \in Nat /\ Console!At(cur_strnum, p) = low + p /\ Console!At(cur_strnum, p - 1) = low + (p - 1)
    BY <1>1 DEF ConsoleScreenTypes, Console!At
  <2>. HIDE DEF low
  <2>. QED
    BY <1>1, <2>1
<1>5. /\ video' \in [Console!Cells -> ConsoleCharacters]
      /\ \A q \in Nat : q < p - 1
           => video'[Console!At(cur_strnum, q)] = video[Console!At(cur_strnum, q)]
  <2>1. \A q \in Nat : q < p - 1 => q < 2 * Width + MaxPos /\ q # p - 1
    BY <1>1
  <2>2. Console!Nul \in ConsoleCharacters
    BY DEF ConsoleCharacters
  <2>. QED
    BY <1>1, <1>2, <1>3, <1>4, <2>1, <2>2, ConsoleOneWritten
<1>6. ConsoleScreenTypes'
  BY <1>1, <1>2, <1>3, <1>5 DEF ConsoleScreenTypes
<1>7. powered' => video'[Console!At(cur_strnum', 0)] = Console!Hash
  <2>1. 0 < p - 1
    BY <1>1
  <2>. QED
    BY <1>2, <1>5, <2>1 DEF ConsoleIInv, ConsoleDisplayed
<1>8. \A k \in 1 .. m : k \in 1 .. n /\ str_inputing'[k - 1] = str_inputing[k - 1]
  BY <1>1, <1>2
<1>. HIDE DEF m, r
<1>9. CASE m = 0
  <2>1. 1 .. string_count' = {}
    BY <1>2, <1>9
  <2>2. PICK f : f = [k \in {} |-> 0]
    OBVIOUS
  <2>3. f \in [1 .. string_count' -> 1 .. cur_position' - 2] /\ ConsoleEmbeds(f)'
    BY <2>1, <2>2 DEF ConsoleEmbeds
  <2>. QED
    BY <1>7, <1>6, <2>1, <2>3 DEF ConsoleDisplayed
<1>10. CASE m # 0
  <2>1. n > 0 /\ m = n - 1 /\ r = p - 1
    BY <1>10, <1>1 DEF m, r
  <2>2. CASE p = 2 + n
    <3>1. \A k \in 1 .. n : video[Console!At(cur_strnum, 1 + k)] = str_inputing[k - 1]
      BY <2>2 DEF ConsoleIInv, ConsoleDisplayed, p, n
    <3>2. \A k \in 1 .. m : 1 + k \in Nat /\ 1 + k < p - 1
      BY <1>1, <2>1, <2>2
    <3>3. \A k \in 1 .. m : video'[Console!At(cur_strnum, 1 + k)] = str_inputing'[k - 1]
      BY <1>5, <1>8, <3>1, <3>2
    <3>4. cur_position' = 2 + string_count'
      BY <1>1, <1>2, <2>1, <2>2
    <3>. QED
      BY <1>2, <1>7, <1>6, <3>3, <3>4 DEF ConsoleDisplayed
  <2>3. CASE p # 2 + n
    <3>1. PICK f \in [1 .. n -> 1 .. p - 2] : ConsoleEmbeds(f)
      BY <2>3 DEF ConsoleIInv, ConsoleDisplayed, p, n
    <3>. PICK g : g = [k \in 1 .. m |-> f[k]]
      OBVIOUS
    <3>2. \A k \in 1 .. m : f[k] < f[n]
      BY <1>1, <2>1, <3>1 DEF ConsoleEmbeds, n
    <3>3. \A k \in 1 .. n : f[k] \in Nat /\ f[k] >= 1 /\ f[k] <= p - 2
      BY <1>1, <3>1
    <3>4. n \in 1 .. n
      BY <1>1, <2>1
    <3>5. \A k \in 1 .. m : f[k] <= p - 3 /\ 1 + f[k] \in Nat /\ 1 + f[k] < p - 1
      BY <1>1, <1>8, <3>2, <3>3, <3>4
    <3>6. g \in [1 .. m -> 1 .. r - 2] /\ \A k \in 1 .. m : g[k] = f[k]
      <4>1. \A k \in 1 .. m : f[k] \in 1 .. r - 2
        BY <1>1, <1>8, <2>1, <3>3, <3>5
      <4>. QED
        BY <4>1
    <3>7. ASSUME NEW k \in 1 .. m
          PROVE  video'[Console!At(cur_strnum, 1 + g[k])] = str_inputing'[k - 1]
      BY <1>5, <1>8, <3>1, <3>5, <3>6 DEF ConsoleEmbeds, n
    <3>8. ASSUME NEW j \in 1 .. m, NEW k \in 1 .. m, j < k
          PROVE  g[j] < g[k]
      BY <1>8, <3>1, <3>6, <3>8 DEF ConsoleEmbeds, n
    <3>9. ConsoleEmbeds(g)'
      BY <1>2, <3>7, <3>8 DEF ConsoleEmbeds
    <3>10. cur_position' # 2 + string_count'
      BY <1>1, <1>2, <2>1, <2>3
    <3>11. g \in [1 .. string_count' -> 1 .. cur_position' - 2]
      BY <1>2, <3>6
    <3>. QED
      BY <1>7, <1>6, <3>9, <3>10, <3>11 DEF ConsoleDisplayed
  <2>. QED
    BY <2>2, <2>3
<1>. QED
  BY <1>9, <1>10

\* A tab leaves a gap behind the line.
LEMMA ConsoleTabDisplayed == ConsoleIInv /\ Console!Tab => ConsoleScreenTypes' /\ ConsoleDisplayed'
<1>. SUFFICES ASSUME ConsoleIInv, Console!Tab PROVE ConsoleScreenTypes' /\ ConsoleDisplayed'
  OBVIOUS
<1>. DEFINE p == cur_position
            n == string_count
<1>1. /\ p \in Nat /\ n \in Nat /\ 2 + n <= p
      /\ cur_position' = p + 4 /\ p + 4 <= MaxPos
      /\ UNCHANGED <<video, cur_strnum, str_inputing, string_count, powered>>
  BY DEF Console!Tab, Console!lineVars, ConsoleIInv, ConsoleLineInv, ConsoleLineTypes,
     ConsoleCursorBehind
<1>2. ConsoleScreenTypes'
  BY <1>1 DEF ConsoleIInv, ConsoleScreenTypes
<1>3. powered' => video'[Console!At(cur_strnum', 0)] = Console!Hash
  BY <1>1 DEF ConsoleIInv, ConsoleDisplayed
<1>4. PICK f \in [1 .. n -> 1 .. p - 2] : ConsoleEmbeds(f)
  <2>1. CASE p = 2 + n
    <3>. PICK g : g = [k \in 1 .. n |-> k]
      OBVIOUS
    <3>1. g \in [1 .. n -> 1 .. p - 2]
      BY <1>1, <2>1
    <3>2. ConsoleEmbeds(g)
      BY <2>1 DEF ConsoleEmbeds, ConsoleIInv, ConsoleDisplayed
    <3>. QED
      BY <3>1, <3>2
  <2>2. CASE p # 2 + n
    BY <2>2 DEF ConsoleIInv, ConsoleDisplayed
  <2>. QED
    BY <2>1, <2>2
<1>5. f \in [1 .. n -> 1 .. cur_position' - 2]
  <2>1. 1 .. p - 2 \subseteq 1 .. cur_position' - 2
    BY <1>1
  <2>. QED
    BY <1>4, <2>1
<1>6. ConsoleEmbeds(f)'
  BY <1>1, <1>4 DEF ConsoleEmbeds
<1>7. cur_position' # 2 + string_count'
  BY <1>1
<1>. QED
  BY <1>1, <1>3, <1>2, <1>5, <1>6, <1>7 DEF ConsoleDisplayed

LEMMA ConsoleInitIInv == Console!Init => ConsoleIInv
BY ConsoleInitLine, ConsoleInitDisplayed DEF ConsoleIInv

LEMMA ConsoleNextIInv == ConsoleIInv /\ [Console!Next]_(Console!consoleVars) => ConsoleIInv'
<1>. SUFFICES ASSUME ConsoleIInv, [Console!Next]_(Console!consoleVars) PROVE ConsoleIInv'
  OBVIOUS
<1>1. ConsoleLineInv'
  BY ConsoleNextLine DEF ConsoleIInv
<1>2. ASSUME UNCHANGED <<Console!screenVars, Console!lineVars, powered>>
      PROVE  ConsoleScreenTypes' /\ ConsoleDisplayed'
  BY <1>2 DEF ConsoleIInv, ConsoleScreenTypes, ConsoleDisplayed, ConsoleEmbeds,
     Console!screenVars, Console!lineVars
<1>3. CASE Console!ShiftKey
  BY <1>1, <1>2, <1>3 DEF ConsoleIInv, Console!ShiftKey
<1>4. CASE Console!CapsLock
  BY <1>1, <1>2, <1>4 DEF ConsoleIInv, Console!CapsLock
<1>5. CASE UNCHANGED Console!consoleVars
  BY <1>1, <1>2, <1>5 DEF ConsoleIInv, Console!consoleVars
<1>6. ASSUME Console!Letter \/ Console!Backspace \/ Console!Tab \/ Console!Enter \/ Console!PowerOff
      PROVE  ConsoleIInv'
  BY <1>1, <1>6, ConsoleLetterDisplayed, ConsoleBackspaceDisplayed, ConsoleTabDisplayed,
     ConsoleEnterDisplayed,
     ConsolePowerOffDisplayed DEF ConsoleIInv
<1>. QED
  BY <1>3, <1>4, <1>5, <1>6 DEF Console!Next

LEMMA ConsoleHolds == ConsoleIInv => Console!LineFits /\ Console!LineIsShown
<1>. SUFFICES ASSUME ConsoleIInv PROVE Console!LineIsShown
  BY DEF ConsoleIInv, ConsoleLineInv
<1>1. cur_position \in Nat /\ string_count \in Nat /\ 2 + string_count <= cur_position
  BY DEF ConsoleIInv, ConsoleLineInv, ConsoleLineTypes, ConsoleCursorBehind
<1>2. \A k \in 1 .. string_count : Console!Line[k] = str_inputing[k - 1]
  BY DEF Console!Line
<1>3. \A k \in 1 .. cur_position - 2 : Console!Shown[k] = video[Console!At(cur_strnum, 1 + k)]
  <2>1. \A k \in 1 .. cur_position - 2 : (2 + k) - 1 = 1 + k
    BY <1>1
  <2>. QED
    BY <2>1 DEF Console!Shown
<1>4. CASE cur_position = Console!Prompt + string_count
  <2>1. cur_position - 2 = string_count
    BY <1>1, <1>4
  <2>2. \A k \in 1 .. string_count : Console!Shown[k] = Console!Line[k]
    BY <1>2, <1>3, <1>4, <2>1 DEF ConsoleIInv, ConsoleDisplayed
  <2>3. Console!Shown = Console!Line
    <3>1. Console!Shown = [k \in 1 .. string_count |-> Console!Shown[k]]
      BY <2>1 DEF Console!Shown
    <3>2. Console!Line = [k \in 1 .. string_count |-> Console!Line[k]]
      BY DEF Console!Line
    <3>. QED
      BY <2>2, <3>1, <3>2
  <2>. QED
    BY <1>4, <2>3 DEF Console!LineIsShown, ConsoleIInv, ConsoleDisplayed
<1>5. CASE cur_position # Console!Prompt + string_count
  <2>1. PICK f \in [1 .. string_count -> 1 .. cur_position - 2] : ConsoleEmbeds(f)
    BY <1>5 DEF ConsoleIInv, ConsoleDisplayed
  <2>2. Len(Console!Shown) = cur_position - 2
    BY <1>1 DEF Console!Shown
  <2>3. \A k \in 1 .. string_count : Console!Shown[f[k]] = Console!Line[k]
    BY <1>2, <1>3, <2>1 DEF ConsoleEmbeds
  <2>4. \A k \in 1 .. string_count : k > 1 => f[k - 1] < f[k]
    BY <1>1, <2>1 DEF ConsoleEmbeds
  <2>. QED
    BY <1>5, <2>1, <2>2, <2>3, <2>4 DEF Console!LineIsShown, ConsoleIInv, ConsoleDisplayed
<1>. QED
  BY <1>4, <1>5
\* The keys that are remembered are flags.
ConsoleKeys == lshift \in BOOLEAN /\ rshift \in BOOLEAN /\ caps \in BOOLEAN

LEMMA ConsoleInitKeys == Console!Init => ConsoleKeys
BY DEF Console!Init, ConsoleKeys

LEMMA ConsoleNextKeys == ConsoleKeys /\ [Console!Next]_(Console!consoleVars) => ConsoleKeys'
BY DEF ConsoleKeys, Console!Next, Console!Letter, Console!ShiftKey, Console!CapsLock,
   Console!Backspace, Console!Tab, Console!Enter, Console!PowerOff, Console!keyVars,
   Console!consoleVars


HIDE ConsoleAssumption DEF ConsoleAssumption, Console!Prompt

----------------------------------------------------------------------------
(* kernel.cpp: numerals and sizes. *)

LEMMA ConvDivIs ==
  ASSUME NEW a \in Nat, NEW d \in Nat \ {0}, NEW q \in Nat, NEW r \in 0 .. d - 1, a = d * q + r
  PROVE  a \div d = q /\ a % d = r
<1>1. PICK p \in Nat : p = a \div d
  BY DivMod
<1>2. PICK s \in 0 .. d - 1 : s = a % d
  BY DivMod
<1>3. d * p + s = d * q + r
  BY <1>1, <1>2, DivMod
<1>4. p = q /\ s = r
  BY <1>3, DivUnique
<1>. QED
  BY <1>1, <1>2, <1>4

\* A value with one more digit.
ConvShifted(value, radix, digit) == value * radix + digit

LEMMA ConvModStep ==
  ASSUME NEW a \in Nat, NEW d \in Nat \ {0}, NEW b \in Nat, NEW c \in Nat,
         NEW r \in 0 .. d - 1, r = a % d,
         NEW u \in Nat, u = ConvShifted(r, b, c), NEW v \in Nat, v = ConvShifted(a, b, c)
  PROVE  u % d = v % d
<1>. USE DEF ConvShifted
<1>1. PICK p \in Nat : p = a \div d
  BY DivMod
<1>2. PICK q \in Nat : q = u \div d
  BY DivMod
<1>3. PICK s \in 0 .. d - 1 : s = u % d
  BY DivMod
<1>4. a = d * p + r /\ u = d * q + s
  BY <1>1, <1>2, <1>3, DivMod
<1>5. PICK g \in Nat : g = p * b + q
  OBVIOUS
<1>6. a * b + c = d * g + s
  <2>1. a * b = d * (p * b) + r * b
    BY <1>4
  <2>. QED
    BY <2>1, <1>4, <1>5
<1>7. a * b + c \in Nat
  OBVIOUS
<1>8. v % d = s
  BY <1>6, <1>7, ConvDivIs
<1>. QED
  BY <1>3, <1>8

\* Power's table.
ConvIsPowers(f, radix) == f \in [Nat -> Nat] /\ f[0] = 1 /\ \A k \in Nat : f[k + 1] = radix * f[k]

LEMMA ConvPowersExist ==
  ASSUME NEW radix \in Nat
  PROVE  \E f : ConvIsPowers(f, radix)
<1>. DEFINE First(f, n) == f \in [0 .. n -> Nat] /\ f[0] = 1 /\ \A k \in 1 .. n : f[k] = radix * f[k - 1]
            Val(n) == (CHOOSE f : First(f, n))[n]
<1>1. ASSUME NEW n \in Nat
      PROVE  \E f : First(f, n)
  <2>1. PICK step : step = [p \in (1 .. n) \X Nat |-> radix * p[2]]
    OBVIOUS
  <2>2. step \in [(1 .. n) \X Nat -> Nat] /\ 1 \in Nat
    BY <2>1
  <2>3. PICK f : Recurs(f, n, Nat, 1, step)
    BY <2>2, Recursion
  <2>4. f \in [0 .. n -> Nat] /\ f[0] = 1
    BY <2>3 DEF Recurs
  <2>5. ASSUME NEW k \in 1 .. n
        PROVE  f[k] = radix * f[k - 1]
    <3>1. f[k - 1] \in Nat /\ <<k, f[k - 1]>> \in (1 .. n) \X Nat
      BY <2>4
    <3>2. f[k] = step[<<k, f[k - 1]>>]
      BY <2>3 DEF Recurs
    <3>. QED
      BY <2>1, <3>1, <3>2
  <2>6. First(f, n)
    BY <2>4, <2>5
  <2>. QED
    BY <2>6
<1>2. ASSUME NEW n \in Nat, NEW f, NEW g, First(f, n), First(g, n + 1)
      PROVE  f[n] = g[n]
  <2>. DEFINE S == {k \in 0 .. n : f[k] = g[k]}
  <2>1. 0 \in S
    BY <1>2
  <2>2. ASSUME NEW k \in 1 .. n, k - 1 \in S
        PROVE  k \in S
    <3>1. k \in 1 .. n + 1 /\ k \in 0 .. n
      OBVIOUS
    <3>2. f[k] = radix * f[k - 1] /\ g[k] = radix * g[k - 1]
      BY <1>2, <3>1
    <3>. QED
      BY <2>2, <3>1, <3>2
  <2>3. 0 .. n \subseteq S
    <3>. HIDE DEF S
    <3>. QED
      BY <2>1, <2>2, UpTo
  <2>. QED
    BY <2>3
<1>3. ASSUME NEW n \in Nat
      PROVE  Val(n) \in Nat /\ (n = 0 => Val(n) = 1) /\ Val(n + 1) = radix * Val(n)
  <2>1. PICK f : f = CHOOSE ff : First(ff, n)
    OBVIOUS
  <2>2. PICK g : g = CHOOSE ff : First(ff, n + 1)
    OBVIOUS
  <2>3. First(f, n)
    BY <1>1, <2>1
  <2>4. First(g, n + 1)
    <3>1. n + 1 \in Nat
      OBVIOUS
    <3>. QED
      BY <1>1, <2>2, <3>1
  <2>5. Val(n) = f[n] /\ Val(n + 1) = g[n + 1]
    BY <2>1, <2>2
  <2>6. f[n] = g[n]
    BY <1>2, <2>3, <2>4
  <2>7. g[n + 1] = radix * g[n]
    <3>1. n + 1 \in 1 .. n + 1 /\ (n + 1) - 1 = n
      OBVIOUS
    <3>. QED
      BY <2>4, <3>1
  <2>8. f[n] \in Nat /\ f[0] = 1
    BY <2>3
  <2>. HIDE DEF First, Val
  <2>. QED
    BY <2>5, <2>6, <2>7, <2>8
<1>. HIDE DEF Val
<1>4. PICK h : h = [n \in Nat |-> Val(n)]
  OBVIOUS
<1>5. h \in [Nat -> Nat]
  BY <1>3, <1>4
<1>6. h[0] = 1
  BY <1>3, <1>4
<1>7. ASSUME NEW k \in Nat
      PROVE  h[k + 1] = radix * h[k]
  <2>1. k + 1 \in Nat
    OBVIOUS
  <2>. QED
    BY <1>3, <1>4, <2>1
<1>. QED
  BY <1>5, <1>6, <1>7 DEF ConvIsPowers

LEMMA ConvPowerIs ==
  ASSUME NEW radix \in Nat
  PROVE  \E f : ConvIsPowers(f, radix) /\ \A n \in Nat : Convert!Power(radix, n) = f[n]
<1>. DEFINE Def(f) == f = [k \in Nat |-> IF k = 0 THEN 1 ELSE radix * f[k - 1]]
<1>1. PICK g : ConvIsPowers(g, radix)
  BY ConvPowersExist
<1>2. Def(g)
  <2>1. ASSUME NEW k \in Nat
        PROVE  g[k] = IF k = 0 THEN 1 ELSE radix * g[k - 1]
    <3>1. CASE k = 0
      BY <1>1, <3>1 DEF ConvIsPowers
    <3>2. CASE k # 0
      <4>1. k - 1 \in Nat /\ (k - 1) + 1 = k
        BY <3>2
      <4>. QED
        BY <1>1, <3>2, <4>1 DEF ConvIsPowers
    <3>. QED
      BY <3>1, <3>2
  <2>. QED
    BY <1>1, <2>1 DEF ConvIsPowers
<1>3. PICK f : f = CHOOSE ff : Def(ff)
  OBVIOUS
<1>4. Def(f)
  BY <1>2, <1>3
<1>5. ASSUME NEW n \in Nat
      PROVE  Convert!Power(radix, n) = f[n]
  BY <1>3 DEF Convert!Power
<1>. DEFINE S == {n \in Nat : f[n] = g[n]}
<1>6. 0 \in S
  BY <1>4, <1>1 DEF ConvIsPowers
<1>7. ASSUME NEW n \in Nat, n \in S
      PROVE  n + 1 \in S
  <2>1. f[n + 1] = radix * f[n]
    BY <1>4
  <2>2. g[n + 1] = radix * g[n]
    BY <1>1 DEF ConvIsPowers
  <2>. QED
    BY <1>7, <2>1, <2>2
<1>8. Nat \subseteq S
  <2>. HIDE DEF S
  <2>. QED
    BY <1>6, <1>7, Induction
<1>9. \A n \in Nat : Convert!Power(radix, n) = g[n]
  BY <1>5, <1>8
<1>. QED
  BY <1>1, <1>9

\* The values of the first digits of a numeral.
ConvIsHorner(h, x, radix) ==
  /\ h \in [0 .. Len(x) -> Nat] /\ h[0] = 0
  /\ \A k \in 1 .. Len(x) : h[k] = h[k - 1] * radix + x[k]

LEMMA ConvHornerExists ==
  ASSUME NEW x \in Seq(Nat), NEW radix \in Nat
  PROVE  \E h : ConvIsHorner(h, x, radix)
<1>1. PICK n \in Nat : n = Len(x)
  OBVIOUS
<1>2. PICK step : step = [p \in (1 .. n) \X Nat |-> p[2] * radix + x[p[1]]]
  OBVIOUS
<1>3. step \in [(1 .. n) \X Nat -> Nat] /\ 0 \in Nat
  <2>1. ASSUME NEW p \in (1 .. n) \X Nat
        PROVE  p[2] * radix + x[p[1]] \in Nat
    <3>1. PICK c \in Nat : c = x[p[1]]
      BY <1>1
    <3>2. PICK d \in Nat : d = p[2]
      OBVIOUS
    <3>3. d * radix + c \in Nat
      OBVIOUS
    <3>. QED
      BY <3>1, <3>2, <3>3
  <2>. QED
    BY <1>2, <2>1
<1>4. PICK h : Recurs(h, n, Nat, 0, step)
  BY <1>3, Recursion
<1>5. h \in [0 .. n -> Nat] /\ h[0] = 0
  BY <1>4 DEF Recurs
<1>6. ASSUME NEW k \in 1 .. n
      PROVE  h[k] = h[k - 1] * radix + x[k]
  <2>1. <<k, h[k - 1]>> \in (1 .. n) \X Nat
    BY <1>5
  <2>2. h[k] = step[<<k, h[k - 1]>>]
    BY <1>4 DEF Recurs
  <2>. QED
    BY <1>2, <2>1, <2>2
<1>. QED
  BY <1>1, <1>5, <1>6 DEF ConvIsHorner

\* The value of a numeral, by the weights of its digits and digit by digit.
LEMMA ConvExactIs ==
  ASSUME NEW x \in Seq(Nat), NEW radix \in Nat, NEW h, ConvIsHorner(h, x, radix)
  PROVE  Convert!Exact(x, radix) = h[Len(x)]
<1>1. PICK n \in Nat : n = Len(x)
  OBVIOUS
<1>2. PICK p : ConvIsPowers(p, radix) /\ \A k \in Nat : Convert!Power(radix, k) = p[k]
  BY ConvPowerIs
<1>. DEFINE Def(f) == f = [k \in 0 .. Len(x) |->
                             IF k = 0 THEN 0 ELSE f[k - 1] + x[k] * Convert!Power(radix, Len(x) - k)]
<1>3. PICK g : g = [k \in 0 .. n |-> h[k] * p[n - k]]
  OBVIOUS
<1>4. ASSUME NEW k \in 1 .. n
      PROVE  g[k] = g[k - 1] + x[k] * Convert!Power(radix, n - k)
  <2>1. PICK c \in Nat : c = x[k]
    BY <1>1
  <2>2. PICK a \in Nat : a = h[k - 1]
    <3>1. h \in [0 .. n -> Nat]
      BY <1>1 DEF ConvIsHorner
    <3>2. k - 1 \in 0 .. n
      OBVIOUS
    <3>. QED
      BY <3>1, <3>2
  <2>3. PICK w \in Nat : w = p[n - k]
    BY <1>2 DEF ConvIsPowers
  <2>4. n - k \in Nat /\ n - (k - 1) = (n - k) + 1
    OBVIOUS
  <2>5. p[n - (k - 1)] = radix * w
    BY <1>2, <2>3, <2>4 DEF ConvIsPowers
  <2>6. h[k] = a * radix + c
    BY <1>1, <2>1, <2>2 DEF ConvIsHorner
  <2>7. g[k] = (a * radix + c) * w /\ g[k - 1] = a * (radix * w)
    <3>1. k \in 0 .. n /\ k - 1 \in 0 .. n
      OBVIOUS
    <3>. QED
      BY <1>3, <2>2, <2>3, <2>5, <2>6, <3>1
  <2>8. Convert!Power(radix, n - k) = w
    BY <1>2, <2>3, <2>4
  <2>9. (a * radix + c) * w = a * (radix * w) + c * w
    OBVIOUS
  <2>. QED
    BY <2>1, <2>7, <2>8, <2>9
<1>5. g[0] = 0
  <2>1. h[0] = 0 /\ p[n] \in Nat
    BY <1>2 DEF ConvIsPowers, ConvIsHorner
  <2>. QED
    BY <1>3, <2>1
<1>6. Def(g)
  <2>1. ASSUME NEW k \in 0 .. n
        PROVE  g[k] = IF k = 0 THEN 0 ELSE g[k - 1] + x[k] * Convert!Power(radix, n - k)
    <3>1. CASE k = 0
      BY <1>5, <3>1
    <3>2. CASE k # 0
      <4>1. k \in 1 .. n
        BY <3>2
      <4>. QED
        BY <1>4, <3>2, <4>1
    <3>. QED
      BY <3>1, <3>2
  <2>2. g = [k \in 0 .. n |-> g[k]]
    BY <1>3
  <2>. QED
    BY <1>1, <2>1, <2>2
<1>7. PICK f : f = CHOOSE ff : Def(ff)
  OBVIOUS
<1>8. Def(f)
  BY <1>6, <1>7
<1>9. Convert!Exact(x, radix) = f[n]
  BY <1>1, <1>7 DEF Convert!Exact
<1>. DEFINE S == {k \in 0 .. n : f[k] = g[k]}
<1>10. 0 \in S
  BY <1>1, <1>5, <1>8
<1>11. ASSUME NEW k \in 1 .. n, k - 1 \in S
       PROVE  k \in S
  <2>1. f[k] = f[k - 1] + x[k] * Convert!Power(radix, n - k)
    <3>1. k \in 0 .. Len(x) /\ k # 0
      BY <1>1
    <3>. QED
      BY <1>1, <1>8, <3>1
  <2>. QED
    BY <1>4, <1>11, <2>1
<1>12. 0 .. n \subseteq S
  <2>. HIDE DEF S
  <2>. QED
    BY <1>10, <1>11, UpTo
<1>13. f[n] = g[n]
  BY <1>12
<1>14. g[n] = h[n]
  <2>1. PICK a \in Nat : a = h[n]
    BY <1>1 DEF ConvIsHorner
  <2>2. p[n - n] = 1
    BY <1>2 DEF ConvIsPowers
  <2>. QED
    BY <1>3, <2>1, <2>2
<1>. QED
  BY <1>1, <1>9, <1>13, <1>14

\* A word has a number of values.
LEMMA ConvWordNat == Convert!Word \in Nat \ {0}
<1>. PICK K \in Nat : K = Kilo /\ K >= 25
  BY ConvertAssumption DEF ConvertAssumption
<1>1. PICK k2 \in Nat : k2 = K * K
  OBVIOUS
<1>2. PICK k3 \in Nat : k3 = K * k2
  OBVIOUS
<1>3. k2 >= K /\ k3 >= k2
  BY <1>1, <1>2
<1>4. Convert!Word = 4 * k3
  BY <1>1, <1>2 DEF Convert!Word
<1>. QED
  BY <1>3, <1>4

LEMMA ConvValueIs ==
  ASSUME NEW x \in Seq(Nat), NEW radix \in Nat, NEW h, ConvIsHorner(h, x, radix)
  PROVE  Convert!ValueOf(x, radix) = h[Len(x)] % Convert!Word
<1>1. PICK n \in Nat : n = Len(x)
  OBVIOUS
<1>2. PICK g : g = [k \in 0 .. n |-> h[k] % Convert!Word]
  OBVIOUS
<1>. DEFINE Def(f) == f = [k \in 0 .. Len(x) |-> IF k = 0 THEN 0 ELSE (f[k - 1] * radix + x[k]) % Convert!Word]
<1>3. Convert!Word \in Nat \ {0}
  BY ConvWordNat
<1>4. ASSUME NEW k \in 1 .. n
      PROVE  g[k] = (g[k - 1] * radix + x[k]) % Convert!Word
  <2>1. PICK c \in Nat : c = x[k]
    BY <1>1
  <2>2. PICK a \in Nat : a = h[k - 1]
    <3>1. h \in [0 .. n -> Nat]
      BY <1>1 DEF ConvIsHorner
    <3>2. k - 1 \in 0 .. n
      OBVIOUS
    <3>. QED
      BY <3>1, <3>2
  <2>3. h[k] = a * radix + c
    BY <1>1, <2>1, <2>2 DEF ConvIsHorner
  <2>4. PICK r \in 0 .. Convert!Word - 1 : r = a % Convert!Word
    BY <1>3, DivMod
  <2>5. PICK u \in Nat : u = ConvShifted(r, radix, c)
    <3>1. PICK p \in Nat : p = r * radix
      BY <2>4
    <3>. QED
      BY <3>1 DEF ConvShifted
  <2>6. PICK v \in Nat : v = ConvShifted(a, radix, c)
    <3>1. PICK p \in Nat : p = a * radix
      BY <2>1
    <3>. QED
      BY <3>1 DEF ConvShifted
  <2>7. u % Convert!Word = v % Convert!Word
    BY <1>3, <2>4, <2>5, <2>6, ConvModStep, SMTT(30)
  <2>8. g[k] = v % Convert!Word /\ g[k - 1] = r
    <3>1. k \in 0 .. n /\ k - 1 \in 0 .. n
      OBVIOUS
    <3>. QED
      BY <1>2, <2>2, <2>3, <2>4, <2>6, <3>1 DEF ConvShifted
  <2>. QED
    BY <2>1, <2>5, <2>7, <2>8 DEF ConvShifted
<1>5. g[0] = 0
  <2>1. 0 = Convert!Word * 0 + 0 /\ 0 \in 0 .. Convert!Word - 1 /\ 0 \in Nat
    BY <1>3
  <2>2. 0 % Convert!Word = 0
    BY <1>3, <2>1, ConvDivIs
  <2>. QED
    BY <1>2, <2>2 DEF ConvIsHorner
<1>6. Def(g)
  <2>1. ASSUME NEW k \in 0 .. n
        PROVE  g[k] = IF k = 0 THEN 0 ELSE (g[k - 1] * radix + x[k]) % Convert!Word
    <3>1. CASE k = 0
      BY <1>5, <3>1
    <3>2. CASE k # 0
      <4>1. k \in 1 .. n
        BY <3>2
      <4>. QED
        BY <1>4, <3>2, <4>1
    <3>. QED
      BY <3>1, <3>2
  <2>. QED
    BY <1>1, <1>2, <2>1
<1>7. PICK f : f = CHOOSE ff : Def(ff)
  OBVIOUS
<1>8. Def(f)
  BY <1>6, <1>7
<1>9. Convert!ValueOf(x, radix) = f[n]
  BY <1>1, <1>7 DEF Convert!ValueOf
<1>. DEFINE S == {k \in 0 .. n : f[k] = g[k]}
<1>10. 0 \in S
  BY <1>1, <1>5, <1>8
<1>11. ASSUME NEW k \in 1 .. n, k - 1 \in S
       PROVE  k \in S
  <2>1. f[k] = (f[k - 1] * radix + x[k]) % Convert!Word
    <3>1. k \in 0 .. Len(x) /\ k # 0
      BY <1>1
    <3>. QED
      BY <1>1, <1>8, <3>1
  <2>. QED
    BY <1>4, <1>11, <2>1
<1>12. 0 .. n \subseteq S
  <2>. HIDE DEF S
  <2>. QED
    BY <1>10, <1>11, UpTo
<1>. QED
  BY <1>1, <1>2, <1>9, <1>12

\* A proper numeral of a value; 0 has no digits.
ConvIsNumeral(x, value, radix) ==
  /\ x \in Seq(0 .. radix - 1)
  /\ value = 0 => x = <<>>
  /\ value > 0 => x # <<>> /\ x[1] > 0
  /\ \E h : ConvIsHorner(h, x, radix) /\ h[Len(x)] = value

LEMMA ConvQuotient ==
  ASSUME NEW radix \in Nat, radix >= 2, NEW v \in Nat, v > 0
  PROVE  /\ v \div radix \in 0 .. v - 1 /\ v % radix \in 0 .. radix - 1
         /\ v = (v \div radix) * radix + (v % radix)
<1>1. radix \in Nat \ {0}
  OBVIOUS
<1>2. PICK q \in Nat : q = v \div radix
  BY <1>1, DivMod
<1>3. PICK r \in 0 .. radix - 1 : r = v % radix
  BY <1>1, DivMod
<1>4. v = radix * q + r
  BY <1>1, <1>2, <1>3, DivMod
<1>5. q < v
  <2>1. CASE q = 0
    BY <2>1
  <2>2. CASE q > 0
    <3>1. (radix - 1) * q >= q
      BY <2>2
    <3>. QED
      BY <1>4, <2>2, <3>1
  <2>. QED
    BY <2>1, <2>2
<1>6. q \in 0 .. v - 1 /\ q * radix = radix * q
  BY <1>5
<1>. QED
  BY <1>2, <1>3, <1>4, <1>6

LEMMA ConvHornerAppend ==
  ASSUME NEW radix \in Nat, NEW x \in Seq(Nat), NEW r \in Nat, NEW h, ConvIsHorner(h, x, radix)
  PROVE  \E g : ConvIsHorner(g, Append(x, r), radix) /\ g[Len(x) + 1] = h[Len(x)] * radix + r
<1>1. PICK n \in Nat : n = Len(x)
  OBVIOUS
<1>2. PICK y : y = Append(x, r)
  OBVIOUS
<1>3. Len(y) = n + 1 /\ y[n + 1] = r /\ \A k \in 1 .. n : y[k] = x[k]
  BY <1>1, <1>2
<1>4. PICK e \in Nat : e = h[n] * radix + r
  <2>1. PICK c \in Nat : c = h[n]
    BY <1>1 DEF ConvIsHorner
  <2>2. PICK p \in Nat : p = c * radix
    BY <2>1
  <2>. QED
    BY <2>1, <2>2
<1>5. PICK g : g = [k \in 0 .. n + 1 |-> IF k = n + 1 THEN e ELSE h[k]]
  OBVIOUS
<1>6. g[n + 1] = e /\ \A k \in 0 .. n : g[k] = h[k]
  BY <1>5
<1>7. g \in [0 .. n + 1 -> Nat] /\ g[0] = 0
  <2>1. h \in [0 .. n -> Nat] /\ h[0] = 0
    BY <1>1 DEF ConvIsHorner
  <2>. QED
    BY <1>5, <2>1
<1>8. ASSUME NEW k \in 1 .. n + 1
      PROVE  g[k] = g[k - 1] * radix + y[k]
  <2>1. CASE k = n + 1
    <3>1. n \in 0 .. n /\ k - 1 = n
      BY <2>1
    <3>. QED
      BY <1>3, <1>4, <1>6, <2>1, <3>1
  <2>2. CASE k # n + 1
    <3>1. k \in 1 .. n /\ k \in 0 .. n /\ k - 1 \in 0 .. n
      BY <2>2
    <3>2. h[k] = h[k - 1] * radix + x[k]
      BY <1>1, <3>1 DEF ConvIsHorner
    <3>. QED
      BY <1>3, <1>6, <3>1, <3>2
  <2>. QED
    BY <2>1, <2>2
<1>9. ConvIsHorner(g, y, radix)
  BY <1>3, <1>7, <1>8 DEF ConvIsHorner
<1>. QED
  BY <1>1, <1>2, <1>4, <1>6, <1>9

LEMMA ConvNumeralAppend ==
  ASSUME NEW radix \in Nat, radix >= 2, NEW v \in Nat, v > 0,
         NEW x, ConvIsNumeral(x, v \div radix, radix)
  PROVE  ConvIsNumeral(Append(x, v % radix), v, radix)
<1>1. PICK q \in 0 .. v - 1 : q = v \div radix
  BY ConvQuotient
<1>2. PICK r \in 0 .. radix - 1 : r = v % radix
  BY ConvQuotient
<1>3. v = q * radix + r
  BY <1>1, <1>2, ConvQuotient
<1>4. x \in Seq(0 .. radix - 1) /\ x \in Seq(Nat) /\ (q = 0 => x = <<>>) /\ (q > 0 => x # <<>> /\ x[1] > 0)
  <2>1. x \in Seq(0 .. radix - 1)
    BY <1>1 DEF ConvIsNumeral
  <2>2. x \in Seq(Nat)
    BY <2>1
  <2>. QED
    BY <1>1, <2>1, <2>2 DEF ConvIsNumeral
<1>5. PICK h : ConvIsHorner(h, x, radix) /\ h[Len(x)] = q
  BY <1>1 DEF ConvIsNumeral
<1>6. PICK y : y = Append(x, r)
  OBVIOUS
<1>7. \E g : ConvIsHorner(g, y, radix) /\ g[Len(y)] = v
  <2>1. r \in Nat
    OBVIOUS
  <2>2. PICK g : ConvIsHorner(g, y, radix) /\ g[Len(x) + 1] = h[Len(x)] * radix + r
    BY <1>4, <1>5, <1>6, <2>1, ConvHornerAppend
  <2>3. Len(y) = Len(x) + 1
    BY <1>4, <1>6
  <2>. QED
    BY <1>3, <1>5, <2>2, <2>3
<1>8. y \in Seq(0 .. radix - 1) /\ y # <<>>
  BY <1>4, <1>6
<1>9. y[1] > 0
  <2>1. CASE q = 0
    <3>1. y[1] = r /\ r = v
      BY <1>3, <1>4, <1>6, <2>1
    <3>. QED
      BY <3>1
  <2>2. CASE q > 0
    <3>1. y[1] = x[1]
      BY <1>4, <1>6, <2>2
    <3>. QED
      BY <1>4, <2>2, <3>1
  <2>. QED
    BY <2>1, <2>2
<1>. QED
  BY <1>2, <1>6, <1>7, <1>8, <1>9 DEF ConvIsNumeral

LEMMA ConvNoDigits ==
  ASSUME NEW radix \in Nat
  PROVE  ConvIsNumeral(<<>>, 0, radix)
<1>1. PICK h : h = [k \in 0 .. 0 |-> 0]
  OBVIOUS
<1>2. ConvIsHorner(h, <<>>, radix) /\ h[Len(<<>>)] = 0
  BY <1>1 DEF ConvIsHorner
<1>. QED
  BY <1>2 DEF ConvIsNumeral

\* DigitsOf's table.
ConvDigitsBut(v, radix) == v \div radix
ConvWithLast(x, v, radix) == Append(x, v % radix)
ConvIsDigitsTable(g, n, radix) ==
  g = [v \in 0 .. n |-> IF v = 0 THEN <<>> ELSE ConvWithLast(g[ConvDigitsBut(v, radix)], v, radix)]

\* What is printed for a value: 0 has one digit.
ConvIsPrinted(x, value, radix) ==
  /\ x \in Seq(0 .. radix - 1) /\ x # <<>>
  /\ value > 0 => x[1] > 0
  /\ value = 0 => x = <<0>>
  /\ \E h : ConvIsHorner(h, x, radix) /\ h[Len(x)] = value

LEMMA ConvDigitsAre ==
  ASSUME NEW value \in Nat, NEW radix \in Nat, radix >= 2
  PROVE  ConvIsPrinted(Convert!DigitsOf(value, radix), value, radix)
<1>. DEFINE S == {n \in Nat : \E g : ConvIsDigitsTable(g, n, radix)}
<1>1. 0 \in S
  <2>1. PICK g : g = [v \in 0 .. 0 |-> <<>>]
    OBVIOUS
  <2>2. ConvIsDigitsTable(g, 0, radix)
    BY <2>1 DEF ConvIsDigitsTable
  <2>. QED
    BY <2>2
<1>2. ASSUME NEW n \in Nat, n \in S
      PROVE  n + 1 \in S
  <2>1. PICK g : ConvIsDigitsTable(g, n, radix)
    BY <1>2
  <2>a. \A v \in 0 .. n : g[v] = IF v = 0 THEN <<>>
          ELSE ConvWithLast(g[ConvDigitsBut(v, radix)], v, radix)
    BY <2>1 DEF ConvIsDigitsTable
  <2>b. PICK e : e = ConvWithLast(g[ConvDigitsBut(n + 1, radix)], n + 1, radix)
    OBVIOUS
  <2>2. PICK f : f = [v \in 0 .. n + 1 |-> IF v = n + 1 THEN e ELSE g[v]]
    OBVIOUS
  <2>3. f[n + 1] = e /\ \A v \in 0 .. n : f[v] = g[v]
    BY <2>2
  <2>4. ASSUME NEW v \in 0 .. n + 1
        PROVE  f[v] = IF v = 0 THEN <<>> ELSE ConvWithLast(f[ConvDigitsBut(v, radix)], v, radix)
    <3>1. CASE v = n + 1
      <4>1. v \in Nat /\ v > 0
        BY <3>1
      <4>2. ConvDigitsBut(v, radix) \in 0 .. v - 1
        BY <4>1, ConvQuotient DEF ConvDigitsBut
      <4>3. f[ConvDigitsBut(v, radix)] = g[ConvDigitsBut(v, radix)]
        BY <2>3, <3>1, <4>2
      <4>. QED
        BY <2>b, <2>3, <3>1, <4>1, <4>3
    <3>2. CASE v # n + 1 /\ v > 0
      <4>1. v \in 0 .. n /\ v \in Nat
        BY <3>2
      <4>2. ConvDigitsBut(v, radix) \in 0 .. v - 1
        BY <3>2, <4>1, ConvQuotient DEF ConvDigitsBut
      <4>3. PICK q \in 0 .. n : q = ConvDigitsBut(v, radix)
        BY <4>1, <4>2
      <4>4. g[v] = ConvWithLast(g[q], v, radix)
        BY <2>a, <3>2, <4>1, <4>3
      <4>. QED
        BY <2>3, <3>2, <4>1, <4>3, <4>4
    <3>3. CASE v = 0
      <4>1. v \in 0 .. n
        BY <3>3
      <4>2. g[v] = <<>>
        BY <2>a, <3>3, <4>1
      <4>. QED
        BY <2>3, <3>3, <4>1, <4>2
    <3>. QED
      BY <3>1, <3>2, <3>3
  <2>5. ConvIsDigitsTable(f, n + 1, radix)
    <3>1. f = [v \in 0 .. n + 1 |-> f[v]]
      BY <2>2
    <3>. QED
      BY <2>4, <3>1 DEF ConvIsDigitsTable
  <2>. QED
    BY <2>5
<1>3. \E g : ConvIsDigitsTable(g, value, radix)
  <2>1. Nat \subseteq S
    <3>. HIDE DEF S
    <3>. QED
      BY <1>1, <1>2, Induction
  <2>. QED
    BY <2>1
<1>4. PICK g : g = CHOOSE gg : ConvIsDigitsTable(gg, value, radix)
  OBVIOUS
<1>5. ConvIsDigitsTable(g, value, radix)
  BY <1>3, <1>4
<1>6. Convert!DigitsOf(value, radix) = IF value = 0 THEN <<0>> ELSE g[value]
  BY <1>4 DEF Convert!DigitsOf, ConvIsDigitsTable, ConvDigitsBut, ConvWithLast
<1>. DEFINE T == {v \in 0 .. value : \A w \in 0 .. v : ConvIsNumeral(g[w], w, radix)}
<1>7. 0 \in T
  <2>1. g[0] = <<>>
    BY <1>5 DEF ConvIsDigitsTable
  <2>2. \A w \in 0 .. 0 : w = 0
    OBVIOUS
  <2>. QED
    BY <2>1, <2>2, ConvNoDigits
<1>8. ASSUME NEW v \in 1 .. value, v - 1 \in T
      PROVE  v \in T
  <2>1. v \in Nat /\ v > 0
    OBVIOUS
  <2>2. PICK q \in 0 .. v - 1 : q = v \div radix
    BY <2>1, ConvQuotient
  <2>3. ConvIsNumeral(g[q], q, radix)
    BY <1>8
  <2>4. g[v] = Append(g[q], v % radix)
    <3>1. v \in 0 .. value /\ v # 0
      OBVIOUS
    <3>. QED
      BY <1>5, <2>2, <3>1 DEF ConvIsDigitsTable, ConvDigitsBut, ConvWithLast
  <2>5. ConvIsNumeral(g[v], v, radix)
    BY <2>1, <2>2, <2>3, <2>4, ConvNumeralAppend
  <2>6. \A w \in 0 .. v : w \in 0 .. v - 1 \/ w = v
    OBVIOUS
  <2>. QED
    BY <1>8, <2>5, <2>6
<1>9. ConvIsNumeral(g[value], value, radix)
  <2>1. 0 .. value \subseteq T
    <3>. HIDE DEF T
    <3>. QED
      BY <1>7, <1>8, UpTo
  <2>2. value \in T /\ value \in 0 .. value
    BY <2>1
  <2>. QED
    BY <2>2
<1>10. CASE value > 0
  <2>1. Convert!DigitsOf(value, radix) = g[value]
    BY <1>6, <1>10
  <2>. QED
    BY <1>9, <1>10, <2>1 DEF ConvIsNumeral, ConvIsPrinted
<1>11. CASE value = 0
  <2>1. PICK z : z = <<0>>
    OBVIOUS
  <2>2. PICK h : h = [k \in 0 .. 1 |-> 0]
    OBVIOUS
  <2>3. Len(z) = 1 /\ z[1] = 0 /\ z # <<>> /\ z \in Seq(0 .. radix - 1)
    BY <2>1
  <2>4. ConvIsHorner(h, z, radix) /\ h[Len(z)] = 0
    BY <2>2, <2>3 DEF ConvIsHorner
  <2>5. ConvIsPrinted(z, 0, radix)
    BY <2>1, <2>3, <2>4 DEF ConvIsPrinted
  <2>. QED
    BY <1>6, <1>11, <2>1, <2>5
<1>. QED
  BY <1>10, <1>11

LEMMA ConvCompared ==
  ASSUME NEW radix \in Nat, NEW a \in Nat, NEW b \in Nat, NEW c \in 0 .. radix - 1,
      NEW e \in 0 .. radix - 1
  PROVE  /\ a < b => ConvShifted(a, radix, c) < ConvShifted(b, radix, e)
         /\ a <= b /\ c <= e => ConvShifted(a, radix, c) <= ConvShifted(b, radix, e)
         /\ a <= b /\ c < e => ConvShifted(a, radix, c) < ConvShifted(b, radix, e)
<1>1. PICK p \in Nat : p = a * radix
  OBVIOUS
<1>2. PICK q \in Nat : q = b * radix
  OBVIOUS
<1>3. ASSUME a < b
      PROVE  q >= p + radix
  <2>1. (b - (a + 1)) * radix >= 0
    BY <1>3
  <2>2. (b - (a + 1)) * radix = b * radix - (a * radix + radix)
    OBVIOUS
  <2>. QED
    BY <1>1, <1>2, <2>1, <2>2
<1>4. ASSUME a <= b
      PROVE  q >= p
  <2>1. (b - a) * radix >= 0
    BY <1>4
  <2>2. (b - a) * radix = b * radix - a * radix
    OBVIOUS
  <2>. QED
    BY <1>1, <1>2, <2>1, <2>2
<1>5. ConvShifted(a, radix, c) = p + c /\ ConvShifted(b, radix, e) = q + e
  BY <1>1, <1>2 DEF ConvShifted
<1>. QED
  BY <1>3, <1>4, <1>5

\* Numerals are compared by their lengths and from the left.
LEMMA ConvLongerIsMore ==
  ASSUME NEW radix \in Nat, radix >= 2, NEW x \in Seq(0 .. radix - 1),
      NEW y \in Seq(0 .. radix - 1),
         NEW g, ConvIsHorner(g, x, radix), NEW h, ConvIsHorner(h, y, radix),
         Len(x) < Len(y), y[1] > 0
  PROVE  g[Len(x)] < h[Len(y)]
<1>1. PICK n \in Nat : n = Len(x)
  OBVIOUS
<1>2. PICK m \in Nat : m = Len(y)
  OBVIOUS
<1>3. n < m
  BY <1>1, <1>2
<1>4. PICK d \in Nat : d = m - n /\ d > 0
  BY <1>3
<1>5. g \in [0 .. n -> Nat] /\ h \in [0 .. m -> Nat]
  BY <1>1, <1>2 DEF ConvIsHorner
<1>6. ASSUME NEW k \in 1 .. n
      PROVE  x[k] \in 0 .. radix - 1 /\ g[k] = g[k - 1] * radix + x[k]
  <2>1. k \in 1 .. Len(x)
    BY <1>1
  <2>2. x[k] \in 0 .. radix - 1
    BY <2>1, SMTT(30)
  <2>3. g[k] = g[k - 1] * radix + x[k]
    BY <2>1 DEF ConvIsHorner
  <2>. QED
    BY <2>2, <2>3
<1>7. ASSUME NEW k \in 1 .. m
      PROVE  y[k] \in 0 .. radix - 1 /\ h[k] = h[k - 1] * radix + y[k]
  <2>1. k \in 1 .. Len(y)
    BY <1>2
  <2>2. y[k] \in 0 .. radix - 1
    BY <2>1
  <2>3. h[k] = h[k - 1] * radix + y[k]
    BY <2>1 DEF ConvIsHorner
  <2>. QED
    BY <2>2, <2>3
<1>. DEFINE P == {k \in Nat : k + 1 <= d => h[k + 1] > 0}
<1>8. h[d] > 0
  <2>1. 0 \in P
    <3>1. 1 \in 1 .. m /\ 1 - 1 = 0
      BY <1>4
    <3>2. h[1] = h[0] * radix + y[1]
      BY <1>7, <3>1
    <3>3. h[0] = 0
      BY DEF ConvIsHorner
    <3>. QED
      BY <1>7, <3>1, <3>2, <3>3
  <2>2. ASSUME NEW k \in Nat, k \in P
        PROVE  k + 1 \in P
    <3>1. SUFFICES ASSUME (k + 1) + 1 <= d
                   PROVE  h[(k + 1) + 1] > 0
      OBVIOUS
    <3>2. (k + 1) + 1 \in 1 .. m /\ ((k + 1) + 1) - 1 = k + 1 /\ k + 1 \in 0 .. m
      BY <1>4, <3>1
    <3>3. PICK a \in Nat : a = h[k + 1] /\ a > 0
      BY <1>5, <2>2, <3>1, <3>2
    <3>4. PICK c \in 0 .. radix - 1 : c = y[(k + 1) + 1]
      BY <1>7, <3>2
    <3>5. h[(k + 1) + 1] = a * radix + c
      BY <1>7, <3>2, <3>3, <3>4
    <3>6. a * radix + c > 0
      BY <3>3
    <3>. QED
      BY <3>5, <3>6
  <2>3. Nat \subseteq P
    <3>. HIDE DEF P
    <3>. QED
      BY <2>1, <2>2, Induction
  <2>4. PICK k \in Nat : k + 1 = d
    <3>1. d - 1 \in Nat /\ (d - 1) + 1 = d
      BY <1>4
    <3>. QED
      BY <3>1
  <2>5. k \in P
    BY <2>3
  <2>. QED
    BY <2>4, <2>5
<1>. DEFINE S == {k \in 0 .. n : g[k] < h[d + k]}
<1>9. 0 \in S
  <2>1. g[0] = 0 /\ d + 0 = d
    BY DEF ConvIsHorner
  <2>. QED
    BY <1>8, <2>1
<1>10. ASSUME NEW k \in 1 .. n, k - 1 \in S
       PROVE  k \in S
  <2>1. d + k \in 1 .. m /\ (d + k) - 1 = d + (k - 1) /\ d + (k - 1) \in 0 .. m /\ k - 1 \in 0 .. n
    BY <1>4
  <2>2. PICK a \in Nat : a = g[k - 1]
    BY <1>5, <2>1
  <2>3. PICK b \in Nat : b = h[d + (k - 1)] /\ a < b
    BY <1>5, <1>10, <2>1, <2>2
  <2>4. PICK c \in 0 .. radix - 1 : c = x[k]
    BY <1>6
  <2>5. PICK e \in 0 .. radix - 1 : e = y[d + k]
    BY <1>7, <2>1
  <2>6. g[k] = ConvShifted(a, radix, c)
    BY <1>6, <2>2, <2>4 DEF ConvShifted
  <2>7. h[d + k] = ConvShifted(b, radix, e)
    BY <1>7, <2>1, <2>3, <2>5 DEF ConvShifted
  <2>8. g[k] < h[d + k]
    BY <2>3, <2>6, <2>7, ConvCompared
  <2>. QED
    BY <2>8
<1>11. 0 .. n \subseteq S
  <2>. HIDE DEF S
  <2>. QED
    BY <1>9, <1>10, UpTo
<1>12. d + n = m /\ n \in S
  BY <1>4, <1>11
<1>. QED
  BY <1>1, <1>2, <1>12

\* x is no later than y if wherever its digit is greater, one before it is less.
LEMMA ConvNoGreater ==
  ASSUME NEW radix \in Nat, radix >= 2, NEW x \in Seq(0 .. radix - 1),
      NEW y \in Seq(0 .. radix - 1),
         NEW g, ConvIsHorner(g, x, radix), NEW h, ConvIsHorner(h, y, radix), Len(x) = Len(y),
         \A k \in 1 .. Len(x) : x[k] > y[k] => \E m \in 1 .. k - 1 : x[m] < y[m]
  PROVE  g[Len(x)] <= h[Len(y)]
<1>1. PICK n \in Nat : n = Len(x)
  OBVIOUS
<1>5. g \in [0 .. n -> Nat] /\ h \in [0 .. n -> Nat]
  BY <1>1 DEF ConvIsHorner
<1>6. ASSUME NEW k \in 1 .. n
      PROVE  /\ x[k] \in 0 .. radix - 1 /\ g[k] = g[k - 1] * radix + x[k]
             /\ y[k] \in 0 .. radix - 1 /\ h[k] = h[k - 1] * radix + y[k]
  <2>1. x[k] \in 0 .. radix - 1 /\ y[k] \in 0 .. radix - 1
    BY <1>1, SMTT(30)
  <2>2. k \in 1 .. Len(x) /\ k \in 1 .. Len(y)
    BY <1>1
  <2>3. g[k] = g[k - 1] * radix + x[k] /\ h[k] = h[k - 1] * radix + y[k]
    BY <2>2 DEF ConvIsHorner
  <2>. QED
    BY <2>1, <2>3
<1>. DEFINE S == {k \in 0 .. n : g[k] <= h[k] /\ ((\E m \in 1 .. k : x[m] < y[m]) => g[k] < h[k])}
<1>7. 0 \in S
  <2>1. g[0] = 0 /\ h[0] = 0
    BY DEF ConvIsHorner
  <2>. QED
    BY <2>1
<1>8. ASSUME NEW k \in 1 .. n, k - 1 \in S
      PROVE  k \in S
  <2>1. PICK a \in Nat : a = g[k - 1]
    BY <1>5
  <2>2. PICK b \in Nat : b = h[k - 1]
    BY <1>5
  <2>3. PICK c \in 0 .. radix - 1 : c = x[k]
    BY <1>6
  <2>4. PICK e \in 0 .. radix - 1 : e = y[k]
    BY <1>6
  <2>5. g[k] = ConvShifted(a, radix, c) /\ h[k] = ConvShifted(b, radix, e)
    BY <1>6, <2>1, <2>2, <2>3, <2>4 DEF ConvShifted
  <2>6. CASE \E m \in 1 .. k - 1 : x[m] < y[m]
    <3>1. a < b
      BY <1>8, <2>1, <2>2, <2>6
    <3>a. g[k] < h[k]
      BY <2>5, <3>1, ConvCompared
    <3>b. g[k] \in Nat /\ h[k] \in Nat
      BY <1>5
    <3>2. g[k] < h[k] /\ g[k] \in Nat /\ h[k] \in Nat
      BY <3>a, <3>b
    <3>. QED
      BY <3>2
  <2>7. CASE ~ \E m \in 1 .. k - 1 : x[m] < y[m]
    <3>1. c <= e
      <4>1. k \in 1 .. Len(x)
        BY <1>1
      <4>2. ~ (x[k] > y[k])
        BY <2>7, <4>1
      <4>. QED
        BY <2>3, <2>4, <4>2
    <3>2. a <= b
      BY <1>8, <2>1, <2>2
    <3>3. g[k] <= h[k] /\ (c < e => g[k] < h[k])
      BY <2>5, <3>1, <3>2, ConvCompared
    <3>4. ASSUME NEW m \in 1 .. k, x[m] < y[m]
          PROVE  c < e
      <4>1. m = k
        BY <2>7, <3>4
      <4>. QED
        BY <2>3, <2>4, <3>4, <4>1
    <3>. QED
      BY <3>3, <3>4
  <2>. QED
    BY <2>6, <2>7
<1>9. 0 .. n \subseteq S
  <2>. HIDE DEF S
  <2>. QED
    BY <1>7, <1>8, UpTo
<1>10. n \in S
  BY <1>9
<1>. QED
  BY <1>1, <1>10

LEMMA ConvGreater ==
  ASSUME NEW radix \in Nat, radix >= 2, NEW x \in Seq(0 .. radix - 1),
      NEW y \in Seq(0 .. radix - 1),
         NEW g, ConvIsHorner(g, x, radix), NEW h, ConvIsHorner(h, y, radix), Len(x) = Len(y),
         NEW l \in 1 .. Len(x), x[l] > y[l], \A m \in 1 .. l - 1 : x[m] >= y[m]
  PROVE  g[Len(x)] > h[Len(y)]
<1>1. PICK n \in Nat : n = Len(x)
  OBVIOUS
<1>5. g \in [0 .. n -> Nat] /\ h \in [0 .. n -> Nat]
  BY <1>1 DEF ConvIsHorner
<1>6. ASSUME NEW k \in 1 .. n
      PROVE  /\ x[k] \in 0 .. radix - 1 /\ g[k] = g[k - 1] * radix + x[k]
             /\ y[k] \in 0 .. radix - 1 /\ h[k] = h[k - 1] * radix + y[k]
  <2>1. x[k] \in 0 .. radix - 1 /\ y[k] \in 0 .. radix - 1
    BY <1>1, SMTT(30)
  <2>2. k \in 1 .. Len(x) /\ k \in 1 .. Len(y)
    BY <1>1
  <2>3. g[k] = g[k - 1] * radix + x[k] /\ h[k] = h[k - 1] * radix + y[k]
    BY <2>2 DEF ConvIsHorner
  <2>. QED
    BY <2>1, <2>3
<1>. DEFINE S == {k \in 0 .. n : IF k < l THEN g[k] >= h[k] ELSE g[k] > h[k]}
<1>7. 0 \in S
  <2>1. g[0] = 0 /\ h[0] = 0
    BY DEF ConvIsHorner
  <2>. QED
    BY <2>1
<1>8. ASSUME NEW k \in 1 .. n, k - 1 \in S
      PROVE  k \in S
  <2>1. PICK a \in Nat : a = g[k - 1]
    BY <1>5
  <2>2. PICK b \in Nat : b = h[k - 1]
    BY <1>5
  <2>3. PICK c \in 0 .. radix - 1 : c = x[k]
    BY <1>6
  <2>4. PICK e \in 0 .. radix - 1 : e = y[k]
    BY <1>6
  <2>5. g[k] = ConvShifted(a, radix, c) /\ h[k] = ConvShifted(b, radix, e)
    BY <1>6, <2>1, <2>2, <2>3, <2>4 DEF ConvShifted
  <2>6. CASE k > l
    <3>1. b < a
      BY <1>8, <2>1, <2>2, <2>6
    <3>2. h[k] < g[k]
      BY <2>5, <3>1, ConvCompared
    <3>3. h[k] \in Nat /\ g[k] \in Nat
      BY <1>5
    <3>. QED
      BY <2>6, <3>2, <3>3
  <2>7. CASE k <= l
    <3>1. e <= c /\ (k = l => e < c)
      <4>1. k < l => k \in 1 .. l - 1
        BY <2>7
      <4>2. k < l => e <= c
        BY <2>3, <2>4, <4>1
      <4>3. k = l => e < c
        BY <2>3, <2>4
      <4>4. k < l \/ k = l
        BY <2>7
      <4>. QED
        BY <4>2, <4>3, <4>4
    <3>2. b <= a
      BY <1>8, <2>1, <2>2, <2>7
    <3>3. h[k] <= g[k] /\ (k = l => h[k] < g[k])
      BY <2>5, <3>1, <3>2, ConvCompared
    <3>4. h[k] \in Nat /\ g[k] \in Nat
      BY <1>5
    <3>. QED
      BY <2>7, <3>3, <3>4
  <2>. QED
    BY <2>6, <2>7
<1>9. 0 .. n \subseteq S
  <2>. HIDE DEF S
  <2>. QED
    BY <1>7, <1>8, UpTo
<1>10. n \in S
  BY <1>9
<1>. QED
  BY <1>1, <1>10

\* What is asked to be converted.
LEMMA ConvInputs ==
  /\ \A digits \in Numbers \cup Sizes : digits \in Seq(Nat \cup {Convert!Other})
  /\ Bases \subseteq Int
BY ConvertAssumption DEF ConvertAssumption, Other, Convert!Other

\* The invariant: the answer is none or the command's one.
ConvertIInv ==
  /\ IF command.name = "nsconv" THEN command \in Convert!NsCommands
       ELSE command \in Convert!SzCommands
  /\ \/ answer = Convert!Nothing
     \/ answer = IF command.name = "nsconv"
          THEN Convert!NsConv(command.number, command.from, command.to)
                 ELSE Convert!SzConv(command.number, command.from, command.to)

LEMMA ConvertInitIInv == Convert!Init => ConvertIInv
BY DEF Convert!Init, ConvertIInv, Convert!NsCommands, Convert!SzCommands

LEMMA ConvertNextIInv == ConvertIInv /\ [Convert!Next]_(Convert!convertVars) => ConvertIInv'
<1>. SUFFICES ASSUME ConvertIInv, [Convert!Next]_(Convert!convertVars)
              PROVE  ConvertIInv'
  OBVIOUS
<1>1. CASE Convert!Next
  <2>1. UNCHANGED command
    BY <1>1 DEF Convert!Next, Convert!Answer
  <2>2. answer' = IF command.name = "nsconv"
          THEN Convert!NsConv(command.number, command.from, command.to)
                  ELSE Convert!SzConv(command.number, command.from, command.to)
    BY <1>1 DEF Convert!Next, Convert!Answer
  <2>. QED
    BY <2>1, <2>2 DEF ConvertIInv
<1>2. CASE UNCHANGED Convert!convertVars
  BY <1>2 DEF ConvertIInv, Convert!convertVars
<1>. QED
  BY <1>1, <1>2

\* overflow() compares a decimal number with the greatest word.
LEMMA ConvFitsIs ==
  ASSUME NEW x \in Seq(0 .. 9), x # <<>>, NEW g, ConvIsHorner(g, x, 10)
  PROVE  /\ Convert!Fits(x) => g[Len(x)] < Convert!Word
         /\ ~ Convert!Fits(x) => Convert!TooLong(x) \/ g[Len(x)] >= Convert!Word
<1>1. PICK w \in Nat : w = Convert!Word - 1
  BY ConvWordNat
<1>2. PICK y : y = Convert!DigitsOf(Convert!Word - 1, 10)
  OBVIOUS
<1>3. ConvIsPrinted(y, w, 10)
  BY <1>1, <1>2, ConvDigitsAre
<1>4. PICK h : ConvIsHorner(h, y, 10) /\ h[Len(y)] = w
  BY <1>3 DEF ConvIsPrinted
<1>5. y \in Seq(0 .. 10 - 1) /\ y # <<>> /\ (w > 0 => y[1] > 0) /\ (w = 0 => Len(y) = 1)
  <2>1. w = 0 => y = <<0>> /\ Len(<<0>>) = 1
    BY <1>3 DEF ConvIsPrinted
  <2>. QED
    BY <1>3, <2>1 DEF ConvIsPrinted
<1>6. x \in Seq(0 .. 10 - 1) /\ 10 \in Nat /\ 10 >= 2
  OBVIOUS
<1>7. PICK v \in Nat : v = g[Len(x)]
  <2>1. Len(x) \in 0 .. Len(x)
    OBVIOUS
  <2>. QED
    BY <2>1 DEF ConvIsHorner
<1>8. Convert!Word = w + 1
  BY <1>1, ConvWordNat
<1>9. PICK n \in Nat : n = Len(x) /\ n > 0 /\ DOMAIN x = 1 .. n
  OBVIOUS
<1>10. PICK l \in Nat : l = Len(y) /\ l > 0 /\ DOMAIN y = 1 .. l
  BY <1>5
<1>11. ASSUME n < l
       PROVE  v < w
  <2>0. w # 0
    <3>1. w = 0 => l = 1
      BY <1>5, <1>10
    <3>. QED
      BY <1>9, <1>11, <3>1
  <2>1. y[1] > 0
    BY <1>5, <2>0
  <2>. QED
    BY <1>4, <1>5, <1>6, <1>7, <1>9, <1>10, <1>11, <2>1, ConvLongerIsMore
<1>12. Convert!TooLong(x) <=> n > l
  BY <1>2, <1>9, <1>10 DEF Convert!TooLong
<1>13. ASSUME n = l, \A k \in 1 .. n : x[k] > y[k] => \E m \in 1 .. k - 1 : x[m] < y[m]
       PROVE  v <= w
  BY <1>4, <1>5, <1>6, <1>7, <1>9, <1>10, <1>13, ConvNoGreater
<1>14. ASSUME n = l, NEW k \in 1 .. n, x[k] > y[k], \A m \in 1 .. k - 1 : x[m] >= y[m]
       PROVE  v > w
  BY <1>4, <1>5, <1>6, <1>7, <1>9, <1>10, <1>14, ConvGreater
<1>15. Convert!Fits(x) <=>
         \/ n < l
         \/ n = l /\ \A k \in 1 .. n : x[k] > y[k] => \E m \in 1 .. k - 1 : x[m] < y[m]
  <2>1. \A k \in DOMAIN x : x[k] \in 0 .. 9
    OBVIOUS
  <2>. QED
    BY <1>2, <1>9, <1>10, <2>1 DEF Convert!Fits
<1>16. ASSUME Convert!Fits(x)
       PROVE  v < Convert!Word
  BY <1>8, <1>11, <1>13, <1>15, <1>16
<1>17. ASSUME ~ Convert!Fits(x), ~ (n > l)
       PROVE  v >= Convert!Word
  <2>3. CASE n = l
    <3>1. PICK k \in 1 .. n : x[k] > y[k] /\ ~ \E m \in 1 .. k - 1 : x[m] < y[m]
      BY <1>15, <1>17, <2>3
    <3>2. \A m \in 1 .. k - 1 : x[m] >= y[m]
      <4>1. ASSUME NEW m \in 1 .. k - 1
            PROVE  x[m] \in 0 .. 9 /\ y[m] \in 0 .. 9
        BY <1>5, <1>9, <1>10, <2>3
      <4>2. ASSUME NEW m \in 1 .. k - 1
            PROVE  ~ (x[m] < y[m])
        BY <3>1
      <4>3. ASSUME NEW m \in 1 .. k - 1
            PROVE  x[m] >= y[m]
        <5>1. PICK a \in 0 .. 9 : a = x[m]
          BY <4>1
        <5>2. PICK b \in 0 .. 9 : b = y[m]
          BY <4>1
        <5>3. ~ (a < b)
          BY <4>2, <5>1, <5>2
        <5>. QED
          BY <5>1, <5>2, <5>3
      <4>. QED
        BY <4>3
    <3>. QED
      BY <1>8, <1>14, <2>3, <3>1, <3>2
  <2>. QED
    BY <1>15, <1>17, <2>3
<1>. QED
  BY <1>7, <1>12, <1>16, <1>17

\* What nsconv answers with.
LEMMA ConvObjectionIs ==
  ASSUME NEW x \in Seq(Nat \cup {Convert!Other}), NEW from \in Int, NEW to \in Int
  PROVE  /\ Convert!Objection(x, from, to) = "" =>
              x # <<>> /\ from >= 2 /\ to >= 2 /\ x \in Seq(0 .. from - 1) /\ (from = 10 => Convert!Fits(x))
         /\ Convert!Objection(x, from, to) = "overflow"
              => x # <<>> /\ from = 10 /\ ~ Convert!Fits(x)
<1>1. DOMAIN x = 1 .. Len(x) /\ Len(x) \in Nat
  OBVIOUS
<1>2. MaxBase \in Nat
  BY ConvertAssumption DEF ConvertAssumption
<1>3. ASSUME Convert!Objection(x, from, to) = ""
      PROVE  x # <<>> /\ from \in 2 .. MaxBase /\ to \in 2 .. MaxBase /\ (from = 10 => Convert!Fits(x))
             /\ \A k \in DOMAIN x : x[k] \in 0 .. from - 1
  BY <1>3, Zenon DEF Convert!Objection
<1>4. ASSUME \A k \in DOMAIN x : x[k] \in 0 .. from - 1
      PROVE  x \in Seq(0 .. from - 1)
  BY <1>1, <1>4
<1>5. ASSUME Convert!Objection(x, from, to) = "overflow"
      PROVE  x # <<>> /\ from = 10 /\ ~ Convert!Fits(x)
  BY <1>5 DEF Convert!Objection
<1>6. ASSUME Convert!Objection(x, from, to) = ""
      PROVE  x # <<>> /\ from >= 2 /\ to >= 2 /\ x \in Seq(0 .. from - 1) /\ (from = 10 => Convert!Fits(x))
  <2>1. x \in Seq(0 .. from - 1)
    BY <1>3, <1>4, <1>6
  <2>2. from >= 2 /\ to >= 2
    <3>1. from \in 2 .. MaxBase /\ to \in 2 .. MaxBase
      BY <1>3, <1>6
    <3>. QED
      BY ONLY <1>2, <3>1
  <2>. QED
    BY <1>3, <1>6, <2>1, <2>2
<1>. QED
  BY <1>5, <1>6

LEMMA ConvSmallMod ==
  ASSUME NEW w \in Nat \ {0}, NEW v \in Nat, v < w
  PROVE  v % w = v
<1>1. v = w * 0 + v /\ 0 \in Nat /\ v \in 0 .. w - 1
  OBVIOUS
<1>. QED
  BY <1>1, ConvDivIs

LEMMA ConvNumeralRight ==
  ASSUME NEW x \in Seq(Nat), NEW from \in Nat, from >= 2, NEW to \in Nat, to >= 2
  PROVE  LET digits == Convert!DigitsOf(Convert!ValueOf(x, from), to)
         IN /\ \A k \in DOMAIN digits : digits[k] \in 0 .. to - 1
            /\ digits[1] = 0 => Len(digits) = 1
            /\ Convert!Exact(digits, to) = Convert!Exact(x, from) % Convert!Word
<1>1. PICK h : ConvIsHorner(h, x, from)
  BY ConvHornerExists
<1>2. PICK v \in Nat : v = h[Len(x)]
  <2>1. Len(x) \in 0 .. Len(x)
    OBVIOUS
  <2>. QED
    BY <1>1, <2>1 DEF ConvIsHorner
<1>3. Convert!Word \in Nat \ {0}
  BY ConvWordNat
<1>4. PICK r \in 0 .. Convert!Word - 1 : r = v % Convert!Word
  BY <1>3, DivMod
<1>5. Convert!ValueOf(x, from) = r /\ Convert!Exact(x, from) = v
  BY <1>1, <1>2, <1>4, ConvValueIs, ConvExactIs
<1>6. PICK y : y = Convert!DigitsOf(r, to)
  OBVIOUS
<1>7. r \in Nat
  BY <1>3
<1>8. ConvIsPrinted(y, r, to)
  BY <1>6, <1>7, ConvDigitsAre
<1>9. y \in Seq(0 .. to - 1) /\ y # <<>>
  BY <1>8 DEF ConvIsPrinted
<1>10. y \in Seq(Nat)
  BY <1>9
<1>11. PICK g : ConvIsHorner(g, y, to) /\ g[Len(y)] = r
  BY <1>8 DEF ConvIsPrinted
<1>12. Convert!Exact(y, to) = r
  BY <1>10, <1>11, ConvExactIs
<1>13. \A k \in DOMAIN y : y[k] \in 0 .. to - 1
  BY <1>9
<1>14. y[1] = 0 => Len(y) = 1
  <2>1. r = 0 => y = <<0>> /\ Len(<<0>>) = 1
    BY <1>8 DEF ConvIsPrinted
  <2>2. r > 0 => y[1] > 0
    BY <1>8 DEF ConvIsPrinted
  <2>3. r = 0 \/ r > 0
    BY <1>7
  <2>. QED
    BY <2>1, <2>2, <2>3
<1>. QED
  BY <1>4, <1>5, <1>6, <1>12, <1>13, <1>14

LEMMA ConvNumeralsHold == ConvertIInv => Convert!NumeralsExact
<1>. SUFFICES ASSUME ConvertIInv, command.name = "nsconv"
              PROVE  LET x == command.number
                         from == command.from
                     IN /\ answer.kind = "numeral" =>
                             /\ \A k \in DOMAIN answer.digits : answer.digits[k] \in 0 .. command.to - 1
                             /\ answer.digits[1] = 0 => Len(answer.digits) = 1
                             /\ Convert!Exact(answer.digits, command.to) = Convert!Exact(x, from) % Convert!Word
                             /\ from = 10 => Convert!Exact(x, from) < Convert!Word
                        /\ answer = Convert!Error("overflow") =>
                             /\ from = 10
                             /\ \/ \E k \in DOMAIN x : x[k] \notin 0 .. 9
                                \/ Convert!TooLong(x)
                                \/ Convert!Exact(x, from) >= Convert!Word
  BY DEF Convert!NumeralsExact
<1>1. command \in Convert!NsCommands
  BY DEF ConvertIInv
<1>2. PICK x \in Seq(Nat \cup {Convert!Other}) : x = command.number
  BY <1>1, ConvInputs DEF Convert!NsCommands
<1>3. PICK from \in Int : from = command.from
  BY <1>1, ConvInputs DEF Convert!NsCommands
<1>4. PICK to \in Int : to = command.to
  BY <1>1, ConvInputs DEF Convert!NsCommands
<1>5. answer = Convert!Nothing \/ answer = Convert!NsConv(x, from, to)
  BY <1>2, <1>3, <1>4 DEF ConvertIInv
<1>6. CASE answer = Convert!Nothing
  BY <1>6 DEF Convert!Nothing, Convert!Error
<1>7. CASE Convert!Objection(x, from, to) # "" /\ answer = Convert!NsConv(x, from, to)
  <2>1. answer = Convert!Error(Convert!Objection(x, from, to))
    BY <1>7 DEF Convert!NsConv
  <2>2. answer.kind # "numeral"
    BY <2>1 DEF Convert!Error
  <2>3. ASSUME answer = Convert!Error("overflow")
        PROVE  /\ from = 10
               /\ \/ \E k \in DOMAIN x : x[k] \notin 0 .. 9
                  \/ Convert!TooLong(x)
                  \/ Convert!Exact(x, from) >= Convert!Word
    <3>1. Convert!Objection(x, from, to) = "overflow"
      BY <2>1, <2>3 DEF Convert!Error
    <3>2. x # <<>> /\ from = 10 /\ ~ Convert!Fits(x)
      BY <3>1, ConvObjectionIs
    <3>3. CASE \A k \in DOMAIN x : x[k] \in 0 .. 9
      <4>1. x \in Seq(0 .. 9) /\ x \in Seq(Nat)
        <5>1. DOMAIN x = 1 .. Len(x) /\ Len(x) \in Nat
          OBVIOUS
        <5>2. x \in Seq(0 .. 9)
          BY <3>3, <5>1
        <5>. QED
          BY <5>2
      <4>2. PICK g : ConvIsHorner(g, x, 10)
        BY <4>1, ConvHornerExists
      <4>3. Convert!Exact(x, from) = g[Len(x)]
        BY <3>2, <4>1, <4>2, ConvExactIs
      <4>. QED
        BY <3>2, <4>1, <4>2, <4>3, ConvFitsIs
    <3>. QED
      BY <3>2, <3>3
  <2>. QED
    BY <1>2, <1>3, <2>2, <2>3
<1>8. CASE Convert!Objection(x, from, to) = "" /\ answer = Convert!NsConv(x, from, to)
  <2>1. x # <<>> /\ from >= 2 /\ to >= 2 /\ x \in Seq(0 .. from - 1) /\ (from = 10 => Convert!Fits(x))
    BY <1>8, ConvObjectionIs
  <2>2. x \in Seq(Nat) /\ from \in Nat /\ to \in Nat
    BY <2>1
  <2>3. PICK digits : digits = Convert!DigitsOf(Convert!ValueOf(x, from), to)
    OBVIOUS
  <2>4. answer = Convert!Numeral(digits)
    BY <1>8, <2>3 DEF Convert!NsConv
  <2>5. answer.kind = "numeral" /\ answer.digits = digits /\ answer # Convert!Error("overflow")
    BY <2>4 DEF Convert!Numeral, Convert!Error
  <2>6. /\ \A k \in DOMAIN digits : digits[k] \in 0 .. to - 1
        /\ digits[1] = 0 => Len(digits) = 1
        /\ Convert!Exact(digits, to) = Convert!Exact(x, from) % Convert!Word
    BY <2>1, <2>2, <2>3, ConvNumeralRight
  <2>7. ASSUME from = 10
        PROVE  Convert!Exact(x, from) < Convert!Word
    <3>1. x \in Seq(0 .. 9) /\ Convert!Fits(x)
      BY <2>1, <2>7
    <3>2. PICK g : ConvIsHorner(g, x, 10)
      BY <2>2, ConvHornerExists
    <3>3. Convert!Exact(x, from) = g[Len(x)]
      BY <2>2, <2>7, <3>2, ConvExactIs
    <3>. QED
      BY <2>1, <3>1, <3>2, <3>3, ConvFitsIs
  <2>. QED
    BY <1>2, <1>3, <1>4, <2>5, <2>6, <2>7
<1>. QED
  BY <1>5, <1>6, <1>7, <1>8

\* The powers of Kilo that occur.
LEMMA ConvKiloPowers ==
  /\ Kilo \in Nat /\ Kilo >= 25
  /\ Convert!Power(Kilo, 0) = 1 /\ Convert!Power(Kilo, 1) = Kilo
  /\ Convert!Power(Kilo, 2) = Kilo * Kilo
  /\ Convert!Power(Kilo, 3) = Kilo * (Kilo * Kilo)
  /\ Convert!Power(Kilo, 4) = Kilo * (Kilo * (Kilo * Kilo))
<1>1. Kilo \in Nat /\ Kilo >= 25
  BY ConvertAssumption DEF ConvertAssumption
<1>2. PICK p : ConvIsPowers(p, Kilo) /\ \A n \in Nat : Convert!Power(Kilo, n) = p[n]
  BY <1>1, ConvPowerIs
<1>3. p[0] = 1 /\ p[0 + 1] = Kilo * p[0] /\ p[1 + 1] = Kilo * p[1] /\ p[2 + 1] = Kilo * p[2]
      /\ p[3 + 1] = Kilo * p[3]
  BY <1>2 DEF ConvIsPowers
<1>4. p[1] = Kilo
  BY <1>1, <1>3
<1>5. p[2] = Kilo * Kilo
  BY <1>3, <1>4
<1>6. p[3] = Kilo * (Kilo * Kilo)
  BY <1>3, <1>5
<1>7. p[4] = Kilo * (Kilo * (Kilo * Kilo))
  BY <1>3, <1>6
<1>. QED
  BY <1>1, <1>2, <1>3, <1>4, <1>5, <1>6, <1>7

\* The two decimals are those of a hundredfold rest.
LEMMA ConvDecimalsRight ==
  ASSUME NEW d \in Nat \ {0}, NEW r \in 0 .. d - 1, NEW w \in Nat, w >= 100 * d
  PROVE  10 * (((r * 10) % w) \div d) + ((((r * 100) % w) \div d) % 10) = (r * 100) \div d
<1>1. PICK t \in Nat : t = r * 10
  OBVIOUS
<1>2. PICK h \in Nat : h = r * 100
  OBVIOUS
<1>3. t = 10 * r /\ h = 100 * r /\ h < w /\ t < w /\ w \in Nat \ {0}
  BY <1>1, <1>2
<1>4. t % w = t /\ h % w = h
  <2>1. t = w * 0 + t /\ h = w * 0 + h /\ 0 \in Nat /\ t \in 0 .. w - 1 /\ h \in 0 .. w - 1
    BY <1>3
  <2>. QED
    BY <1>3, <2>1, ConvDivIs
<1>5. PICK q \in Nat : q = h \div d
  BY DivMod
<1>6. PICK s \in 0 .. d - 1 : s = h % d
  BY DivMod
<1>7. h = d * q + s
  BY <1>5, <1>6, DivMod
<1>8. PICK a \in Nat : a = q \div 10
  BY <1>5
<1>9. PICK b \in 0 .. 9 : b = q % 10
  BY <1>5
<1>10. q = 10 * a + b
  BY <1>8, <1>9
<1>11. PICK p \in Nat : p = d * a
  OBVIOUS
<1>12. PICK c \in Nat : c = d * b
  OBVIOUS
<1>13. d * q = 10 * p + c
  <2>1. d * (10 * a + b) = 10 * (d * a) + d * b
    OBVIOUS
  <2>. QED
    BY <1>10, <1>11, <1>12, <2>1
<1>14. c <= 9 * d
  <2>1. d * (9 - b) >= 0
    OBVIOUS
  <2>2. d * (9 - b) = 9 * d - d * b
    OBVIOUS
  <2>. QED
    BY <1>12, <2>1, <2>2
<1>15. PICK e \in Int : e = t - p
  OBVIOUS
<1>16. 10 * e = c + s
  BY <1>3, <1>7, <1>13, <1>15
<1>17. e \in 0 .. d - 1
  BY <1>14, <1>16
<1>18. t = d * a + e
  BY <1>11, <1>15
<1>19. t \div d = a
  BY <1>17, <1>18, ConvDivIs
<1>20. 10 * a + b = q
  BY <1>10
<1>. QED
  BY <1>1, <1>2, <1>4, <1>5, <1>8, <1>9, <1>19, <1>20

\* The powers divide the word.
LEMMA ConvWordIs ==
  /\ Convert!Word \in Nat \ {0} /\ Convert!Word < Convert!Power(Kilo, 4)
  /\ \A e \in 1 .. 3 : /\ Convert!Power(Kilo, e) \in Nat \ {0}
                       /\ \E m \in Nat : Convert!Word = Convert!Power(Kilo, e) * m /\ Convert!Word \div Convert!Power(Kilo, e) = m
  /\ \A e \in 1 .. 2 : Convert!Word >= 100 * Convert!Power(Kilo, e)
  /\ \A n \in Nat : n < Convert!Word \div Convert!Power(Kilo, 2)
       => n * Convert!Power(Kilo, 1) < Convert!Word
<1>. PICK K \in Nat : K = Kilo /\ K >= 25
  BY ConvKiloPowers
<1>1. PICK k2 \in Nat : k2 = K * K
  OBVIOUS
<1>2. PICK k3 \in Nat : k3 = K * k2
  OBVIOUS
<1>3. PICK k4 \in Nat : k4 = K * k3
  OBVIOUS
<1>4. k2 >= 25 * K /\ k3 >= 25 * k2 /\ k4 >= 25 * k3
  BY <1>1, <1>2, <1>3
<1>5. Convert!Power(Kilo, 1) = K /\ Convert!Power(Kilo, 2) = k2 /\ Convert!Power(Kilo, 3) = k3 /\ Convert!Power(Kilo, 4) = k4
  BY <1>1, <1>2, <1>3, ConvKiloPowers
<1>6. Convert!Word = 4 * k3
  BY <1>1, <1>2 DEF Convert!Word
<1>7. Convert!Word \in Nat \ {0} /\ Convert!Word < Convert!Power(Kilo, 4)
  BY <1>4, <1>5, <1>6
<1>8. Convert!Word = K * (4 * k2) /\ Convert!Word = k2 * (4 * K) /\ Convert!Word = k3 * 4
  BY <1>1, <1>2, <1>6
<1>9. K \in Nat \ {0} /\ k2 \in Nat \ {0} /\ k3 \in Nat \ {0}
  BY <1>4
<1>10. ASSUME NEW d \in Nat \ {0}, NEW m \in Nat, Convert!Word = d * m
       PROVE  Convert!Word \div d = m
  <2>1. Convert!Word = d * m + 0 /\ 0 \in 0 .. d - 1
    BY <1>7, <1>10
  <2>. QED
    BY <1>7, <2>1, ConvDivIs
<1>11. Convert!Word \div K = 4 * k2 /\ Convert!Word \div k2 = 4 * K /\ Convert!Word \div k3 = 4
  <2>1. 4 * k2 \in Nat /\ 4 * K \in Nat /\ 4 \in Nat
    OBVIOUS
  <2>. QED
    BY <1>8, <1>9, <1>10, <2>1
<1>12. ASSUME NEW e \in 1 .. 3
       PROVE  /\ Convert!Power(Kilo, e) \in Nat \ {0}
              /\ \E m \in Nat : Convert!Word = Convert!Power(Kilo, e) * m /\ Convert!Word \div Convert!Power(Kilo, e) = m
  <2>1. 4 * k2 \in Nat /\ 4 * K \in Nat /\ 4 \in Nat
    OBVIOUS
  <2>2. CASE e = 1
    BY <1>5, <1>8, <1>9, <1>11, <2>1, <2>2
  <2>3. CASE e = 2
    BY <1>5, <1>8, <1>9, <1>11, <2>1, <2>3
  <2>4. CASE e = 3
    BY <1>5, <1>8, <1>9, <1>11, <2>1, <2>4
  <2>. QED
    BY <2>2, <2>3, <2>4
<1>13. ASSUME NEW e \in 1 .. 2
       PROVE  Convert!Word >= 100 * Convert!Power(Kilo, e)
  <2>1. e = 1 \/ e = 2
    OBVIOUS
  <2>. QED
    BY <1>4, <1>5, <1>6, <2>1
<1>14. ASSUME NEW n \in Nat, n < Convert!Word \div Convert!Power(Kilo, 2)
       PROVE  n * Convert!Power(Kilo, 1) < Convert!Word
  <2>1. n < 4 * K
    BY <1>5, <1>11, <1>14
  <2>2. n * K < (4 * K) * K
    <3>1. (4 * K - n) * K > 0
      BY <2>1
    <3>2. (4 * K - n) * K = (4 * K) * K - n * K
      OBVIOUS
    <3>. QED
      BY <3>1, <3>2
  <2>3. (4 * K) * K = 4 * k2
    BY <1>1
  <2>. QED
    BY <1>4, <1>5, <1>6, <2>2, <2>3
<1>. QED
  BY <1>7, <1>12, <1>13, <1>14

\* What is exact of a size, with the number's value.
ConvSizeRight(a, n, from, to) ==
  /\ a.kind = "size" =>
       /\ to > 0 => Convert!SizeIn(n, from, to) < Convert!Word
       /\ a.integer = Convert!SizeIn(n, from, to) % Convert!Word
       /\ from >= to \/ (from > 1 /\ to = 4) =>
            Convert!Hundredths(a.decimals) = Convert!HundredthsIn(n, from, to)
  /\ a = Convert!Error("overflow") =>
       \/ Convert!SizeIn(n, from, to) >= Convert!Word
       \/ from = 4 /\ to = 3 /\ n >= Convert!Word \div Convert!Power(Kilo, 2)

LEMMA ConvSizeAnswer ==
  ASSUME NEW n, NEW from, NEW to, NEW i, NEW d1, NEW d2,
         to > 0 => Convert!SizeIn(n, from, to) < Convert!Word,
         i = Convert!SizeIn(n, from, to) % Convert!Word,
         from >= to \/ (from > 1 /\ to = 4) => 10 * d1 + d2 = Convert!HundredthsIn(n, from, to)
  PROVE  ConvSizeRight(Convert!Size(i, d1, d2), n, from, to)
<1>1. PICK a : a = Convert!Size(i, d1, d2)
  OBVIOUS
<1>2. a.kind = "size" /\ a.integer = i /\ a.decimals = <<d1, d2>> /\ a # Convert!Error("overflow")
  BY <1>1 DEF Convert!Size, Convert!Error
<1>3. a.decimals[1] = d1 /\ a.decimals[2] = d2
  BY <1>2
<1>4. Convert!Hundredths(a.decimals) = 10 * d1 + d2
  BY <1>3 DEF Convert!Hundredths
<1>5. ConvSizeRight(a, n, from, to)
  BY <1>2, <1>4, Zenon DEF ConvSizeRight
<1>. QED
  BY <1>1, <1>5

\* A size that fits is not cut.
LEMMA ConvWholeAnswer ==
  ASSUME NEW n, NEW from, NEW to, NEW i \in Nat, i < Convert!Word, NEW d1, NEW d2,
         Convert!SizeIn(n, from, to) = i,
         from >= to \/ (from > 1 /\ to = 4) => 10 * d1 + d2 = Convert!HundredthsIn(n, from, to)
  PROVE  ConvSizeRight(Convert!Size(i, d1, d2), n, from, to)
<1>1. i = i % Convert!Word
  BY ConvWordNat, ConvSmallMod
<1>. QED
  BY <1>1, ConvSizeAnswer

LEMMA ConvErrorAnswer ==
  ASSUME NEW n, NEW from, NEW to, NEW m,
         m = "overflow" => \/ Convert!SizeIn(n, from, to) >= Convert!Word
                           \/ from = 4 /\ to = 3 /\ n >= Convert!Word \div Convert!Power(Kilo, 2)
  PROVE  ConvSizeRight(Convert!Error(m), n, from, to)
<1>1. PICK a : a = Convert!Error(m)
  OBVIOUS
<1>2. a.kind # "size" /\ (a = Convert!Error("overflow") => m = "overflow")
  BY <1>1 DEF Convert!Error
<1>3. ConvSizeRight(a, n, from, to)
  BY <1>2, Zenon DEF ConvSizeRight
<1>. QED
  BY <1>1, <1>3

\* SizeIn and HundredthsIn, by the order of the units.
LEMMA ConvSizeInIs ==
  ASSUME NEW n \in Nat, NEW from \in 0 .. 4, NEW to \in 0 .. 4
  PROVE  /\ from > to => /\ Convert!SizeIn(n, from, to) = n * Convert!Power(Kilo, from - to)
                         /\ Convert!HundredthsIn(n, from, to) = 0
         /\ from = to => Convert!SizeIn(n, from, to) = n /\ Convert!HundredthsIn(n, from, to) = 0
         /\ from < to =>
              /\ Convert!SizeIn(n, from, to) = n \div Convert!Power(Kilo, to - from)
              /\ Convert!HundredthsIn(n, from, to) =
                   ((n % Convert!Power(Kilo, to - from)) * 100) \div Convert!Power(Kilo, to - from)
<1>1. CASE from > to
  <2>1. from # to /\ ~ (from < to)
    BY <1>1
  <2>. QED
    BY <1>1, <2>1, Zenon DEF Convert!SizeIn, Convert!HundredthsIn
<1>2. CASE from = to
  <2>1. PICK d : d = Convert!Power(Kilo, to - from)
    OBVIOUS
  <2>2. d = 1
    <3>1. to - from = 0
      BY <1>2
    <3>. QED
      BY <2>1, <3>1, ConvKiloPowers
  <2>3. ~ (from > to)
    BY <1>2
  <2>4. Convert!SizeIn(n, from, to) = n \div d /\ Convert!HundredthsIn(n, from, to) = ((n % d) * 100) \div d
    BY <2>1, <2>3, Zenon DEF Convert!SizeIn, Convert!HundredthsIn
  <2>5. n \div 1 = n /\ n % 1 = 0 /\ (0 * 100) \div 1 = 0
    OBVIOUS
  <2>6. ~ (from < to) /\ ~ (from > to)
    BY <1>2
  <2>. QED
    BY <2>2, <2>4, <2>5, <2>6
<1>3. CASE from < to
  <2>1. ~ (from > to) /\ from # to
    BY <1>3
  <2>. QED
    BY <1>3, <2>1, Zenon DEF Convert!SizeIn, Convert!HundredthsIn
<1>. QED
  BY <1>1, <1>2, <1>3

LEMMA ConvDivAtMost ==
  ASSUME NEW n \in Nat, NEW d \in Nat \ {0}
  PROVE  n \div d \in 0 .. n
<1>1. PICK q \in Nat : q = n \div d
  BY DivMod
<1>2. PICK r \in 0 .. d - 1 : r = n % d
  BY DivMod
<1>3. n = d * q + r
  BY <1>1, <1>2, DivMod
<1>4. (d - 1) * q >= 0 /\ (d - 1) * q = d * q - q
  OBVIOUS
<1>5. q <= n
  BY <1>3, <1>4
<1>. QED
  BY <1>1, <1>5

LEMMA ConvInBytesRight ==
  ASSUME NEW n \in Nat, NEW from \in 0 .. 4
  PROVE  ConvSizeRight(Convert!InBytes(n, from), n, from, 0)
<1>1. CASE from > 3
  <2>1. Convert!InBytes(n, from) = Convert!Error("invalid byte name")
    BY <1>1, Zenon DEF Convert!InBytes
  <2>2. "invalid byte name" # "overflow"
    OBVIOUS
  <2>. QED
    BY <2>1, <2>2, ConvErrorAnswer
<1>2. CASE from <= 3
  <2>1. PICK p \in Nat : p = Convert!Power(Kilo, from)
    <3>1. from = 0 \/ from \in 1 .. 3
      BY <1>2
    <3>2. from \in 1 .. 3 => Convert!Power(Kilo, from) \in Nat
      BY ConvWordIs
    <3>. QED
      BY <3>1, <3>2, ConvKiloPowers
  <2>2. PICK v \in Nat : v = n * p
    OBVIOUS
  <2>3. Convert!InBytes(n, from) = Convert!Size(v % Convert!Word, 0, 0)
    <3>1. ~ (from > 3)
      BY <1>2
    <3>. QED
      BY <2>1, <2>2, <3>1, Zenon DEF Convert!InBytes
  <2>4. Convert!SizeIn(n, from, 0) = v /\ Convert!HundredthsIn(n, from, 0) = 0
    <3>1. 0 \in 0 .. 4
      OBVIOUS
    <3>2. CASE from = 0
      <4>1. p = 1
        BY <2>1, <3>2, ConvKiloPowers
      <4>2. v = n
        BY <2>2, <4>1
      <4>. QED
        BY <3>1, <3>2, <4>2, ConvSizeInIs
    <3>3. CASE from > 0
      <4>1. from - 0 = from
        OBVIOUS
      <4>. QED
        BY <2>1, <2>2, <3>1, <3>3, <4>1, ConvSizeInIs
    <3>. QED
      BY <3>2, <3>3
  <2>6. 10 * 0 + 0 = 0 /\ ~ (0 > 0)
    OBVIOUS
  <2>. QED
    BY <2>3, <2>4, <2>6, ConvSizeAnswer
<1>. QED
  BY <1>1, <1>2

LEMMA ConvInMultipleRight ==
  ASSUME NEW n \in 0 .. Convert!Word - 1, NEW from \in 0 .. 4, NEW to \in 1 .. 3
  PROVE  ConvSizeRight(Convert!InMultiple(n, from, to), n, from, to)
<1>1. PICK a : a = Convert!InMultiple(n, from, to)
  OBVIOUS
<1>2. n \in Nat /\ n < Convert!Word /\ Convert!Word \in Nat /\ to \in 0 .. 4
  BY ConvWordIs
<1>3. CASE from <= to
  <2>1. PICK q : q = n \div Convert!Power(Kilo, to - from)
    OBVIOUS
  <2>2. a = Convert!Size(q, 0, 0)
    BY <1>1, <1>3, <2>1, Zenon DEF Convert!InMultiple
  <2>3. q = Convert!SizeIn(n, from, to) /\ q < Convert!Word /\ q \in Nat
    <3>1. CASE from = to
      <4>1. PICK d \in Int : d = to - from
        OBVIOUS
      <4>2. d = 0
        BY <3>1, <4>1
      <4>3. Convert!Power(Kilo, d) = 1
        BY <4>2, ConvKiloPowers
      <4>4. q = n
        BY <1>2, <2>1, <4>1, <4>3
      <4>. QED
        BY <1>2, <3>1, <4>4, ConvSizeInIs
    <3>2. CASE from < to
      <4>1. PICK d \in 1 .. 3 : d = to - from
        BY <3>2
      <4>2. Convert!Power(Kilo, d) \in Nat \ {0}
        BY ConvWordIs
      <4>3. q \in 0 .. n
        BY <1>2, <2>1, <4>1, <4>2, ConvDivAtMost
      <4>4. q < Convert!Word /\ q \in Nat
        BY <1>2, <4>3
      <4>. QED
        BY <1>2, <2>1, <3>2, <4>4, ConvSizeInIs
    <3>. QED
      BY <1>3, <3>1, <3>2
  <2>4. from >= to => Convert!HundredthsIn(n, from, to) = 0
    <3>1. from >= to => from = to
      BY <1>3
    <3>. QED
      BY <1>2, <3>1, ConvSizeInIs
  <2>5. to # 4 /\ 10 * 0 + 0 = 0
    OBVIOUS
  <2>6. ConvSizeRight(a, n, from, to)
    BY <2>2, <2>3, <2>4, <2>5, ConvWholeAnswer
  <2>. QED
    BY <1>1, <2>6
<1>4. CASE from > to
  <2>1. PICK d \in 1 .. 3 : d = from - to
    BY <1>4
  <2>2. PICK e \in 1 .. 3 : e = IF to = 3 THEN 2 ELSE d
    OBVIOUS
  <2>3. PICK l \in Nat : /\ Convert!Word = Convert!Power(Kilo, e) * l
                         /\ Convert!Word \div Convert!Power(Kilo, e) = l
    BY ConvWordIs
  <2>4. Convert!Limit(to, from) = l - 1
    <3>1. (IF to = 3 THEN 2 ELSE from - to) = e
      BY <2>1, <2>2
    <3>. QED
      BY <2>3, <3>1, Zenon DEF Convert!Limit
  <2>5. PICK p \in Nat : p = Convert!Power(Kilo, d) /\ p # 0
    BY ConvWordIs
  <2>6. PICK m \in Nat : m = n * p
    BY <1>2
  <2>7. Convert!SizeIn(n, from, to) = m /\ Convert!HundredthsIn(n, from, to) = 0
    BY <1>2, <1>4, <2>1, <2>5, <2>6, ConvSizeInIs
  <2>8. n < l => m < Convert!Word
    <3>1. CASE to = 3
      <4>1. d = 1 /\ e = 2
        BY <2>1, <2>2, <3>1
      <4>. QED
        BY <1>2, <2>3, <2>5, <2>6, <4>1, ConvWordIs
    <3>2. CASE to # 3
      <4>1. e = d /\ Convert!Word = p * l
        BY <2>2, <2>3, <2>5, <3>2
      <4>2. ASSUME n < l
            PROVE  n * p < p * l
        <5>1. (l - n) * p > 0
          BY <1>2, <2>5, <4>2
        <5>2. (l - n) * p = p * l - n * p
          BY <1>2
        <5>. QED
          BY <1>2, <5>1, <5>2
      <4>. QED
        BY <2>6, <4>1, <4>2
    <3>. QED
      BY <3>1, <3>2
  <2>9. n >= l => m >= Convert!Word \/ (from = 4 /\ to = 3 /\ n >= Convert!Word \div Convert!Power(Kilo, 2))
    <3>1. CASE to = 3
      <4>1. from = 4 /\ e = 2
        BY <1>4, <2>2, <3>1
      <4>. QED
        BY <2>3, <3>1, <4>1
    <3>2. CASE to # 3
      <4>1. e = d /\ Convert!Word = p * l
        BY <2>2, <2>3, <2>5, <3>2
      <4>2. ASSUME n >= l
            PROVE  n * p >= p * l
        <5>1. (n - l) * p >= 0
          BY <1>2, <2>5, <4>2
        <5>2. (n - l) * p = n * p - p * l
          BY <1>2
        <5>. QED
          BY <1>2, <5>1, <5>2
      <4>. QED
        BY <2>6, <4>1, <4>2
    <3>. QED
      BY <3>1, <3>2
  <2>10. CASE n < l
    <3>1. ~ (n > l - 1) /\ ~ (from <= to)
      BY <1>2, <1>4, <2>10
    <3>2. a = Convert!Size(m, 0, 0)
      BY <1>1, <2>1, <2>4, <2>5, <2>6, <3>1 DEF Convert!InMultiple
    <3>3. m < Convert!Word /\ 10 * 0 + 0 = 0
      BY <2>8, <2>10
    <3>4. ConvSizeRight(a, n, from, to)
      BY <2>6, <2>7, <3>2, <3>3, ConvWholeAnswer
    <3>. QED
      BY <1>1, <3>4
  <2>11. CASE n >= l
    <3>1. n > l - 1 /\ ~ (from <= to)
      BY <1>2, <1>4, <2>11
    <3>2. a = Convert!Error("overflow")
      BY <1>1, <2>4, <3>1 DEF Convert!InMultiple
    <3>3. m >= Convert!Word \/ (from = 4 /\ to = 3 /\ n >= Convert!Word \div Convert!Power(Kilo, 2))
      BY <2>9, <2>11
    <3>4. ConvSizeRight(a, n, from, to)
      BY <2>7, <3>2, <3>3, ConvErrorAnswer
    <3>. QED
      BY <1>1, <3>4
  <2>. QED
    BY <1>2, <2>10, <2>11
<1>. QED
  BY <1>3, <1>4

LEMMA ConvInTeraRight ==
  ASSUME NEW n \in 0 .. Convert!Word - 1, NEW from \in 0 .. 4
  PROVE  ConvSizeRight(Convert!InTera(n, from), n, from, 4)
<1>1. PICK a : a = Convert!InTera(n, from)
  OBVIOUS
<1>2. n \in Nat /\ n < Convert!Word /\ Convert!Word \in Nat /\ 4 \in 0 .. 4
  BY ConvWordIs
<1>3. CASE from = 0
  <2>1. a = Convert!Size(0, 0, 0)
    BY <1>1, <1>3 DEF Convert!InTera
  <2>2. PICK d \in Nat : d = Convert!Power(Kilo, 4) /\ n < d
    <3>1. Convert!Power(Kilo, 4) \in Nat
      BY ConvKiloPowers
    <3>. QED
      BY <1>2, <3>1, ConvWordIs
  <2>3. n \div d = 0
    <3>1. n = d * 0 + n /\ 0 \in Nat /\ n \in 0 .. d - 1 /\ d \in Nat \ {0}
      BY <1>2, <2>2
    <3>. QED
      BY <1>2, <3>1, ConvDivIs
  <2>4. from < 4 /\ 4 - from = 4 /\ ~ (from >= 4) /\ ~ (from > 1) /\ 0 < Convert!Word
    BY <1>2, <1>3
  <2>5. Convert!SizeIn(n, from, 4) = 0
    BY <1>2, <2>2, <2>3, <2>4, ConvSizeInIs
  <2>6. ConvSizeRight(a, n, from, 4)
    BY <2>1, <2>4, <2>5, ConvWholeAnswer
  <2>. QED
    BY <1>1, <2>6
<1>4. CASE from = 4
  <2>1. a = Convert!Size(n, 0, 0)
    BY <1>1, <1>4 DEF Convert!InTera
  <2>2. Convert!SizeIn(n, from, 4) = n /\ Convert!HundredthsIn(n, from, 4) = 0
    BY <1>2, <1>4, ConvSizeInIs
  <2>3. 10 * 0 + 0 = 0
    OBVIOUS
  <2>4. ConvSizeRight(a, n, from, 4)
    BY <1>2, <2>1, <2>2, <2>3, ConvWholeAnswer
  <2>. QED
    BY <1>1, <2>4
<1>5. CASE from \in 1 .. 3
  <2>1. PICK e \in 1 .. 3 : e = 4 - from
    BY <1>5
  <2>2. PICK d \in Nat \ {0} : d = Convert!Power(Kilo, e)
    BY ConvWordIs
  <2>3. PICK q : q = n \div d
    OBVIOUS
  <2>4. PICK r \in 0 .. d - 1 : r = n % d
    BY <1>2, DivMod
  <2>5. PICK d1 : d1 = ((r * 10) % Convert!Word) \div d
    OBVIOUS
  <2>6. PICK d2 : d2 = (((r * 100) % Convert!Word) \div d) % 10
    OBVIOUS
  <2>7. a = Convert!Size(q, d1, d2)
    BY <1>1, <1>5, <2>1, <2>2, <2>3, <2>4, <2>5, <2>6 DEF Convert!InTera, Convert!Division
  <2>8. q < Convert!Word /\ q \in Nat
    <3>1. q \in 0 .. n
      BY <1>2, <2>3, ConvDivAtMost
    <3>. QED
      BY <1>2, <3>1
  <2>9. from < 4 /\ ~ (from >= 4)
    BY <1>5
  <2>10. Convert!SizeIn(n, from, 4) = q /\ Convert!HundredthsIn(n, from, 4) = (r * 100) \div d
    BY <1>2, <2>1, <2>2, <2>3, <2>4, <2>9, ConvSizeInIs
  <2>11. from > 1 => 10 * d1 + d2 = (r * 100) \div d
    <3>1. SUFFICES ASSUME from > 1
                   PROVE  10 * d1 + d2 = (r * 100) \div d
      OBVIOUS
    <3>2. e \in 1 .. 2
      BY <2>1, <3>1
    <3>3. Convert!Word >= 100 * d
      BY <2>2, <3>2, ConvWordIs
    <3>. QED
      BY <1>2, <2>5, <2>6, <3>3, ConvDecimalsRight
  <2>12. ConvSizeRight(a, n, from, 4)
    BY <2>7, <2>8, <2>9, <2>10, <2>11, ConvWholeAnswer
  <2>. QED
    BY <1>1, <2>12
<1>. QED
  BY <1>3, <1>4, <1>5

LEMMA ConvConvertedRight ==
  ASSUME NEW n \in 0 .. Convert!Word - 1, NEW from \in Convert!Named, NEW to \in Convert!Named,
         Convert!Converted(n, from, to) # Convert!Nothing
  PROVE  ConvSizeRight(Convert!Converted(n, from, to), n, from.rank, to.rank)
<1>1. PICK a : a = Convert!Converted(n, from, to)
  OBVIOUS
<1>2. from.rank \in 0 .. 4 /\ to.rank \in 0 .. 4 /\ n \in Nat
  BY ConvWordIs DEF Convert!Named
<1>3. CASE ~ from.lower
  <2>1. a = Convert!Error("invalid byte name")
    BY <1>1, <1>3 DEF Convert!Converted
  <2>2. "invalid byte name" # "overflow"
    OBVIOUS
  <2>. QED
    BY <1>1, <2>1, <2>2, ConvErrorAnswer
<1>4. CASE from.lower /\ to.rank = 0
  <2>1. a = Convert!InBytes(n, from.rank)
    BY <1>1, <1>4 DEF Convert!Converted
  <2>. QED
    BY <1>1, <1>2, <1>4, <2>1, ConvInBytesRight
<1>5. CASE from.lower /\ to.rank = 4
  <2>1. a = Convert!InTera(n, from.rank)
    BY <1>1, <1>5 DEF Convert!Converted
  <2>. QED
    BY <1>1, <1>2, <1>5, <2>1, ConvInTeraRight
<1>6. CASE from.lower /\ to.rank \in 1 .. 3
  <2>1. a = Convert!InMultiple(n, from.rank, to.rank)
    BY <1>1, <1>6 DEF Convert!Converted
  <2>. QED
    BY <1>1, <1>2, <1>6, <2>1, ConvInMultipleRight
<1>. QED
  BY <1>2, <1>3, <1>4, <1>5, <1>6

\* A decimal numeral that overflow() passes has its value below the word, and atoi gives it;
\* one that it refuses is no number, too long, or has a greater value.
LEMMA ConvDecimal ==
  ASSUME NEW x \in Seq(Nat \cup {Convert!Other})
  PROVE  /\ Convert!Fits(x) => /\ Convert!Exact(x, 10) \in 0 .. Convert!Word - 1
                               /\ Convert!ValueOf(x, 10) = Convert!Exact(x, 10)
         /\ ~ Convert!Fits(x) => \/ x = <<>> \/ \E k \in DOMAIN x : x[k] \notin 0 .. 9
                                 \/ Convert!TooLong(x)
                                 \/ Convert!Exact(x, 10) >= Convert!Word
<1>1. CASE x = <<>> \/ \E k \in DOMAIN x : x[k] \notin 0 .. 9
  BY <1>1, Zenon DEF Convert!Fits
<1>2. CASE x # <<>> /\ \A k \in DOMAIN x : x[k] \in 0 .. 9
  <2>1. x \in Seq(0 .. 9) /\ x \in Seq(Nat)
    <3>1. DOMAIN x = 1 .. Len(x) /\ Len(x) \in Nat
      OBVIOUS
    <3>2. x \in Seq(0 .. 9)
      BY <1>2, <3>1
    <3>. QED
      BY <3>2
  <2>2. PICK g : ConvIsHorner(g, x, 10)
    BY <2>1, ConvHornerExists
  <2>3. PICK v \in Nat : v = g[Len(x)]
    <3>1. Len(x) \in 0 .. Len(x)
      BY <2>1
    <3>. QED
      BY <2>2, <3>1 DEF ConvIsHorner
  <2>4. Convert!Exact(x, 10) = v
    BY <2>1, <2>2, <2>3, ConvExactIs
  <2>5. Convert!ValueOf(x, 10) = v % Convert!Word
    BY <2>1, <2>2, <2>3, ConvValueIs
  <2>6. /\ Convert!Fits(x) => v < Convert!Word
        /\ ~ Convert!Fits(x) => Convert!TooLong(x) \/ v >= Convert!Word
    BY <1>2, <2>1, <2>2, <2>3, ConvFitsIs
  <2>7. ASSUME v < Convert!Word
        PROVE  v % Convert!Word = v /\ v \in 0 .. Convert!Word - 1
    <3>1. v % Convert!Word = v
      BY <2>7, ConvWordNat, ConvSmallMod
    <3>2. v \in 0 .. Convert!Word - 1
      BY <2>7, ConvWordNat
    <3>. QED
      BY <3>1, <3>2
  <2>. QED
    BY <2>4, <2>5, <2>6, <2>7
<1>. QED
  BY <1>1, <1>2

LEMMA ConvSizesHold == ConvertIInv => Convert!SizesExact
<1>. SUFFICES ASSUME ConvertIInv, command.name = "szconv"
              PROVE  Convert!SizesExact
  BY DEF Convert!SizesExact
<1>1. command \in Convert!SzCommands
  BY DEF ConvertIInv
<1>2. PICK x \in Seq(Nat \cup {Convert!Other}) : x = command.number
  BY <1>1, ConvInputs DEF Convert!SzCommands
<1>3. PICK from \in Convert!Units : from = command.from
  BY <1>1 DEF Convert!SzCommands
<1>4. PICK to \in Convert!Units : to = command.to
  BY <1>1 DEF Convert!SzCommands
<1>5. PICK n : n = Convert!Exact(x, 10)
  OBVIOUS
<1>. DEFINE Refused == \/ x = <<>> \/ \E k \in DOMAIN x : x[k] \notin 0 .. 9
                       \/ Convert!TooLong(x)
                       \/ n >= Convert!Word
<1>6. SUFFICES \/ answer.kind # "size" /\ answer # Convert!Error("overflow")
               \/ answer.kind # "size" /\ Refused
               \/ ConvSizeRight(answer, n, from.rank, to.rank)
  BY <1>2, <1>3, <1>4, <1>5, Zenon DEF Convert!SizesExact, ConvSizeRight
<1>7. CASE answer = Convert!Nothing
  BY <1>7 DEF Convert!Nothing, Convert!Error
<1>8. CASE answer # Convert!Nothing
  <2>1. answer = Convert!SzConv(x, from, to)
    BY <1>2, <1>3, <1>4, <1>8 DEF ConvertIInv
  <2>2. CASE ~ Convert!Fits(x)
    <3>1. answer = Convert!Error("overflow")
      BY <2>1, <2>2 DEF Convert!SzConv
    <3>2. answer.kind # "size"
      BY <3>1 DEF Convert!Error
    <3>3. Refused
      <4>1. \/ x = <<>> \/ \E k \in DOMAIN x : x[k] \notin 0 .. 9
            \/ Convert!TooLong(x)
            \/ Convert!Exact(x, 10) >= Convert!Word
        BY <2>2, ConvDecimal
      <4>. QED
        BY <1>5, <4>1
    <3>. QED
      BY <3>2, <3>3
  <2>3. CASE Convert!Fits(x)
    <3>1. n \in 0 .. Convert!Word - 1 /\ Convert!ValueOf(x, 10) = n
      BY <1>5, <2>3, ConvDecimal
    <3>2. CASE n = Convert!Word - 1 \/ Convert!Missing \in {from, to} \/ Convert!NoUnit \in {from, to}
      <4>1. PICK m : /\ m \in {"invalid number input", "invalid input", "invalid byte name"}
                     /\ answer = Convert!Error(m)
        BY <2>1, <2>3, <3>1, <3>2 DEF Convert!SzConv
      <4>. QED
        BY <4>1 DEF Convert!Error
    <3>3. CASE ~ (n = Convert!Word - 1 \/ Convert!Missing \in {from, to} \/ Convert!NoUnit \in {from, to})
      <4>1. answer = Convert!Converted(n, from, to)
        BY <2>1, <2>3, <3>1, <3>3, Zenon DEF Convert!SzConv
      <4>2. from \in Convert!Named /\ to \in Convert!Named
        BY <3>3 DEF Convert!Units
      <4>. QED
        BY <1>8, <3>1, <4>1, <4>2, ConvConvertedRight
    <3>. QED
      BY <3>2, <3>3
  <2>. QED
    BY <2>2, <2>3
<1>. QED
  BY <1>7, <1>8

LEMMA ConvertHolds == ConvertIInv => Convert!NumeralsExact /\ Convert!SizesExact
BY ConvNumeralsHold, ConvSizesHold

----------------------------------------------------------------------------
(* MyString.cpp: strings are right as MyStringProofs says. *)


\* String is the module that MyStringProofs is about.
LEMMA SameStrings ==
  /\ String!Init <=> SP!Init
  /\ [String!Next]_str <=> [SP!Next]_str
  /\ String!EditsRight <=> SP!EditsRight
  /\ String!QueriesRight <=> SP!QueriesRight
<1>1. String!Init <=> SP!Init
  BY DEF String!Init, SP!Init, String!Texts, SP!Texts, String!init_from_buffer,
       SP!init_from_buffer, String!Object, SP!Object, String!Placed, SP!Placed,
       String!NewBuffer, SP!NewBuffer, String!Copied, SP!Copied, String!Nul, SP!Nul,
       String!Junk, SP!Junk
<1>2. [String!Next]_str <=> [SP!Next]_str
  BY DEF String!Next, SP!Next, String!Insert, SP!Insert, String!InsertRepeated,
       SP!InsertRepeated, String!InsertItself, SP!InsertItself, String!AppendText,
       SP!AppendText, String!AppendItself, SP!AppendItself, String!ReplaceItself,
       SP!ReplaceItself, String!Set, SP!Set, String!Erase, SP!Erase, String!Replace,
       SP!Replace, String!AssignText, SP!AssignText, String!Clear, SP!Clear,
       String!ShrinkToFit, SP!ShrinkToFit, String!Indices, SP!Indices, String!Texts,
       SP!Texts, String!Becomes, SP!Becomes, String!insert_internal, SP!insert_internal,
       String!Runs, SP!Runs, String!InsertRun, SP!InsertRun, String!InsertSelf,
       SP!InsertSelf, String!append_internal, SP!append_internal, String!AppendSelf,
       SP!AppendSelf, String!ReplaceSelf, SP!ReplaceSelf, String!SetItem, SP!SetItem,
       String!erase, SP!erase, String!replace, SP!replace, String!Assign, SP!Assign,
       String!init_from_buffer, SP!init_from_buffer, String!shrink_to_fit,
       SP!shrink_to_fit, String!Defined, SP!Defined, String!ensure_capacity,
       SP!ensure_capacity, String!Object, SP!Object, String!Copied, SP!Copied,
       String!shift_right, SP!shift_right, String!Ended, SP!Ended, String!Itself,
       SP!Itself, String!Least, SP!Least, String!replace_internal, SP!replace_internal,
       String!shift_left, SP!shift_left, String!Placed, SP!Placed, String!NewBuffer,
       SP!NewBuffer, String!Text, SP!Text, String!Junk, SP!Junk,
       String!next_capacity_ge, SP!next_capacity_ge, String!Nul, SP!Nul, String!ReadAt,
       SP!ReadAt
<1>3. String!EditsRight <=> SP!EditsRight
  BY DEF String!EditsRight, SP!EditsRight, String!Text, SP!Text, String!WellFormed,
       SP!WellFormed, String!Defined, SP!Defined, String!AppendSelf, SP!AppendSelf,
       String!InsertSelf, SP!InsertSelf, String!ReplaceSelf, SP!ReplaceSelf,
       String!Holds, SP!Holds, String!Indices, SP!Indices, String!SetItem, SP!SetItem,
       String!Spliced, SP!Spliced, String!shrink_to_fit, SP!shrink_to_fit, String!Texts,
       SP!Texts, String!append_internal, SP!append_internal, String!Assign, SP!Assign,
       String!insert_internal, SP!insert_internal, String!InsertRun, SP!InsertRun,
       String!erase, SP!erase, String!replace, SP!replace, String!Least, SP!Least,
       String!Nul, SP!Nul, String!Junk, SP!Junk, String!Itself, SP!Itself,
       String!replace_internal, SP!replace_internal, String!Object, SP!Object,
       String!init_from_buffer, SP!init_from_buffer, String!ensure_capacity,
       SP!ensure_capacity, String!Ended, SP!Ended, String!Copied, SP!Copied,
       String!Placed, SP!Placed, String!shift_right, SP!shift_right, String!shift_left,
       SP!shift_left, String!NewBuffer, SP!NewBuffer, String!next_capacity_ge,
       SP!next_capacity_ge, String!ReadAt, SP!ReadAt
<1>4. String!QueriesRight <=> SP!QueriesRight
  BY DEF String!First, SP!First, String!QueriesRight, SP!QueriesRight, String!Text, SP!Text,
     String!Defined, SP!Defined,
       String!Texts, SP!Texts, String!cmp_lex, SP!cmp_lex, String!Before, SP!Before,
       String!Holds, SP!Holds, String!plus, SP!plus, String!Indices, SP!Indices,
       String!find_naive, SP!find_naive, String!Least, SP!Least, String!substr,
       SP!substr, String!CompareChar, SP!CompareChar, String!Junk, SP!Junk,
       String!WellFormed, SP!WellFormed, String!Object, SP!Object, String!Placed,
       SP!Placed, String!NewBuffer, SP!NewBuffer, String!Starts, SP!Starts,
       String!init_from_buffer, SP!init_from_buffer, String!Nul, SP!Nul, String!Copied,
       SP!Copied
<1>. QED
  BY <1>1, <1>2, <1>3, <1>4


----------------------------------------------------------------------------
(* server.cpp, client.cpp: who calls act as, and what downloads save. *)

FilesPlaces == {"login", "auth", "menu", "clear", "size", "sized", "read", "open", "write", "remove", "ended"}

FilesRemembered ==
  [at : FilesPlaces, first : BOOLEAN, user : Users \cup {Files!None}, asked : (Users \cup {Files!None}) \X BOOLEAN,
   token : Users \cup {Files!None}, path : Paths, data : Contents \cup {<<>>}, size : Nat,
       calm : BOOLEAN]

FilesTyped ==
  /\ files \in [Paths -> Seq(Nat) \cup {NoFile}]
  /\ hToken \in Users \cup {Files!None} /\ UserName \in Users \cup {Files!None}
  /\ tokenBy \in Clients \cup {Files!None} /\ nameBy \in Clients \cup {Files!None}
  /\ client \in [Clients -> FilesRemembered]

\* The names and the token follow the last login; a client that never left its
\* first login has neither.
FilesFollows(c) ==
  /\ tokenBy = c => hToken = client[c].user /\ ~ client[c].first
  /\ nameBy = c /\ client[c].at = "auth" => UserName = client[c].asked[1]
  /\ nameBy = c /\ tokenBy = c /\ client[c].at \notin {"login", "auth", "ended"}
       => UserName = hToken

\* A calm download knows the size of the file, and a file that is written is there.
FilesKnows(c) ==
  /\ client[c].at \in {"sized", "read"} /\ client[c].calm =>
       files[client[c].path] # NoFile /\ client[c].size = Len(files[client[c].path])
  /\ client[c].at = "write" => files[client[c].path] # NoFile

FilesIInv == FilesTyped /\ \A c \in Clients : FilesFollows(c) /\ FilesKnows(c)

LEMMA FilesInitIInv == Files!Init => FilesIInv
<1>. SUFFICES ASSUME Files!Init PROVE FilesIInv
  OBVIOUS
<1>1. (CHOOSE p \in Paths : TRUE) \in Paths
  BY FilesAssumption
<1>2. files \in [Paths -> Seq(Nat) \cup {NoFile}]
  BY FilesAssumption DEF Files!Init
<1>3. client \in [Clients -> FilesRemembered]
  BY <1>1 DEF Files!Init, FilesRemembered, FilesPlaces
<1>4. \A c \in Clients : client[c].at = "login" /\ nameBy # c /\ tokenBy # c
  BY FilesAssumption DEF Files!Init, Files!None
<1>5. FilesTyped
  BY <1>2, <1>3 DEF Files!Init, FilesTyped
<1>. QED
  BY <1>4, <1>5 DEF FilesIInv, FilesFollows, FilesKnows

LEMMA FilesIdleIs ==
  ASSUME NEW c \in Clients, client \in [Clients -> FilesRemembered], NEW place \in FilesPlaces
  PROVE  /\ Files!Idle(c, place) \in FilesRemembered
         /\ Files!Idle(c, place).at = place /\ Files!Idle(c, place).first = client[c].first
         /\ Files!Idle(c, place).user = client[c].user
         /\ Files!Idle(c, place).asked = client[c].asked
         /\ Files!Idle(c, place).path = client[c].path
BY ZenonT(60) DEF Files!Idle, FilesRemembered, Files!None

\* What a step leaves alone of the other clients.
LEMMA FilesOneClient ==
  ASSUME FilesTyped, NEW c \in Clients, NEW next \in FilesRemembered,
         client' = [client EXCEPT ![c] = next]
  PROVE  /\ client' \in [Clients -> FilesRemembered]
         /\ client'[c] = next
         /\ \A d \in Clients : d # c => client'[d] = client[d]
BY DEF FilesTyped

LEMMA FilesAuthenticationFiles ==
  ASSUME FilesIInv, NEW c \in Clients, Files!Authentication(c)
  PROVE  FilesIInv'
<1>. USE DEF FilesIInv
<1>1. PICK u \in Users, right \in BOOLEAN :
        /\ UserName' = u /\ nameBy' = c
        /\ client' = [client EXCEPT ![c] = [client[c] EXCEPT !.at = "auth", !.asked = <<u, right>>]]
        /\ client[c].at = "login" /\ UNCHANGED <<files, hToken, tokenBy>>
  BY DEF Files!Authentication, FilesTyped, FilesRemembered
<1>. DEFINE next == [client[c] EXCEPT !.at = "auth", !.asked = <<u, right>>]
<1>2. /\ next \in FilesRemembered /\ next.at = "auth" /\ next.asked = <<u, right>>
      /\ next.first = client[c].first /\ next.user = client[c].user
  BY ZenonT(60) DEF FilesTyped, FilesRemembered, FilesPlaces
<1>. HIDE DEF next
<1>3. /\ client' \in [Clients -> FilesRemembered] /\ client'[c] = next
      /\ \A d \in Clients : d # c => client'[d] = client[d]
  BY <1>1, <1>2, FilesOneClient DEF next
<1>4. FilesTyped'
  BY <1>1, <1>3 DEF FilesTyped
<1>5. ASSUME NEW d \in Clients
      PROVE  FilesFollows(d)' /\ FilesKnows(d)'
  BY <1>1, <1>2, <1>3 DEF FilesFollows, FilesKnows
<1>. QED
  BY <1>4, <1>5

\* Calls about files are nobody's login.
LEMMA FilesFollowsStill ==
  ASSUME FilesTyped, \A c \in Clients : FilesFollows(c), UNCHANGED Files!serverVars,
         \A c \in Clients :
           /\ client'[c].user = client[c].user /\ client'[c].first = client[c].first
           /\ client'[c].asked = client[c].asked
           /\ \/ client'[c].at = client[c].at
              \/ client[c].at \notin {"login", "auth", "ended"} /\ client'[c].at # "auth"
              \/ client'[c].at \in {"login", "ended"}
  PROVE  \A c \in Clients : FilesFollows(c)'
BY DEF FilesFollows, Files!serverVars

LEMMA FilesLogOnFiles ==
  ASSUME FilesIInv, NEW c \in Clients, Files!LogOn(c)
  PROVE  FilesIInv'
<1>. USE DEF FilesIInv
<1>. DEFINE u == client[c].asked[1]
            right == client[c].asked[2]
            Answered(place, user) ==
              [Files!Idle(c, place) EXCEPT !.asked = <<Files!None, FALSE>>, !.user = user,
                                  !.first = client[c].first /\ place = "login"]
<1>1. client[c] \in FilesRemembered /\ u \in Users \cup {Files!None} /\ right \in BOOLEAN
  BY DEF FilesTyped, FilesRemembered
<1>2. ASSUME NEW place \in FilesPlaces, NEW user \in Users \cup {Files!None}
      PROVE  /\ Answered(place, user) \in FilesRemembered
             /\ Answered(place, user).at = place /\ Answered(place, user).user = user
             /\ Answered(place, user).first = (client[c].first /\ place = "login")
  <2>1. Files!Idle(c, place) \in FilesRemembered /\ Files!Idle(c, place).at = place
    BY FilesIdleIs DEF FilesTyped
  <2>2. client[c].first \in BOOLEAN
    BY <1>1 DEF FilesRemembered
  <2>. QED
    BY <2>1, <2>2 DEF FilesRemembered, Files!None
<1>3. /\ hToken' = Files!NewToken(right, u) /\ tokenBy' = (IF right THEN c ELSE tokenBy)
      /\ client[c].at = "auth" /\ UNCHANGED <<files, UserName, nameBy>>
  BY DEF Files!LogOn
<1>4. PICK place \in {"menu", "login", "ended"}, owner \in Users \cup {Files!None} :
        /\ client' = [client EXCEPT ![c] = Answered(place, owner)]
        /\ right => owner = u /\ place = "menu"
        /\ ~ right => owner = client[c].user
        /\ ~ right /\ place = "menu" => client[c].first
  <2>1. client[c].user \in Users \cup {Files!None}
    BY <1>1 DEF FilesRemembered
  <2>. HIDE DEF Answered, u, right
  <2>2. CASE right /\ client' = [client EXCEPT ![c] = Answered("menu", u)]
    BY <1>1, <2>2
  <2>3. CASE ~ right /\ client' = [client EXCEPT ![c] = Answered("login", client[c].user)]
    BY <2>1, <2>3
  <2>4. CASE ~ right /\ client' = [client EXCEPT ![c] =
               Answered(IF client[c].first THEN "menu" ELSE "ended", client[c].user)]
    BY <2>1, <2>4
  <2>. QED
    BY <2>2, <2>3, <2>4 DEF Files!LogOn, Answered, u, right
<1>. HIDE DEF Answered, u, right
<1>. DEFINE next == Answered(place, owner)
<1>5. next \in FilesRemembered /\ next.at = place /\ next.user = owner
      /\ next.first = (client[c].first /\ place = "login")
  BY <1>2, <1>4 DEF FilesPlaces
<1>. HIDE DEF next
<1>6. /\ client' \in [Clients -> FilesRemembered] /\ client'[c] = next
      /\ \A d \in Clients : d # c => client'[d] = client[d]
  BY <1>4, <1>5, FilesOneClient DEF next
<1>7. FilesTyped'
  BY <1>1, <1>3, <1>6 DEF FilesTyped, Files!NewToken
<1>8. ASSUME NEW d \in Clients
      PROVE  FilesKnows(d)'
  BY <1>3, <1>4, <1>5, <1>6 DEF FilesKnows
<1>9. CASE right
  <2>1. hToken' = u /\ tokenBy' = c /\ owner = u /\ place = "menu"
    BY <1>3, <1>4, <1>9 DEF Files!NewToken
  <2>2. FilesFollows(c)'
    BY <1>3, <1>5, <1>6, <2>1 DEF FilesFollows, u
  <2>3. ASSUME NEW d \in Clients, d # c
        PROVE  FilesFollows(d)'
    BY <1>3, <1>6, <2>1, <2>3 DEF FilesFollows
  <2>. QED
    BY <1>7, <1>8, <2>2, <2>3
<1>10. CASE ~ right
  <2>1. hToken' = hToken /\ tokenBy' = tokenBy /\ owner = client[c].user
    BY <1>3, <1>4, <1>10 DEF Files!NewToken
  <2>2. FilesFollows(c)'
    BY <1>1, <1>3, <1>4, <1>5, <1>6, <1>10, <2>1 DEF FilesFollows
  <2>3. ASSUME NEW d \in Clients, d # c
        PROVE  FilesFollows(d)'
    BY <1>3, <1>6, <2>1, <2>3 DEF FilesFollows
  <2>. QED
    BY <1>7, <1>8, <2>2, <2>3
<1>. QED
  BY <1>9, <1>10

LEMMA FilesLeaveMenuFiles ==
  ASSUME FilesIInv, NEW c \in Clients, Files!LeaveMenu(c)
  PROVE  FilesIInv'
<1>. USE DEF FilesIInv
<1>1. PICK place \in {"login", "ended"} : client' = [client EXCEPT ![c] = [client[c] EXCEPT !.at = place]]
  BY DEF Files!LeaveMenu, FilesTyped, FilesRemembered
<1>. DEFINE next == [client[c] EXCEPT !.at = place]
<1>2. /\ next \in FilesRemembered /\ next.at = place /\ next.asked = client[c].asked
      /\ next.first = client[c].first /\ next.user = client[c].user
  BY ZenonT(60) DEF FilesTyped, FilesRemembered, FilesPlaces
<1>. HIDE DEF next
<1>3. /\ client' \in [Clients -> FilesRemembered] /\ client'[c] = next
      /\ \A d \in Clients : d # c => client'[d] = client[d]
  BY <1>1, <1>2, FilesOneClient DEF next
<1>4. UNCHANGED files /\ UNCHANGED Files!serverVars
  BY DEF Files!LeaveMenu
<1>5. FilesTyped'
  BY <1>3, <1>4 DEF FilesTyped, Files!serverVars
<1>6. \A d \in Clients : FilesFollows(d)'
  BY <1>2, <1>3, <1>4, FilesFollowsStill
<1>7. ASSUME NEW d \in Clients
      PROVE  FilesKnows(d)'
  BY <1>2, <1>3, <1>4 DEF FilesKnows
<1>. QED
  BY <1>5, <1>6, <1>7

LEMMA FilesExitUserFiles ==
  ASSUME FilesIInv, NEW c \in Clients, Files!Exit_User(c)
  PROVE  FilesIInv'
<1>. USE DEF FilesIInv
<1>. DEFINE next == Files!Idle(c, "menu")
<1>1. next \in FilesRemembered /\ next.at = "menu" /\ next.first = client[c].first
      /\ next.user = client[c].user /\ next.asked = client[c].asked
  BY FilesIdleIs DEF FilesTyped, FilesPlaces
<1>. HIDE DEF next
<1>2. /\ client' \in [Clients -> FilesRemembered] /\ client'[c] = next
      /\ \A d \in Clients : d # c => client'[d] = client[d]
  BY <1>1, FilesOneClient DEF Files!Exit_User, next
<1>3. /\ client[c].at = "clear" /\ UserName' = Files!None /\ nameBy' = Files!None
      /\ UNCHANGED <<files, hToken, tokenBy>> /\ \A d \in Clients : d # Files!None
  BY FilesAssumption DEF Files!Exit_User, Files!None
<1>4. FilesTyped'
  BY <1>2, <1>3 DEF FilesTyped
<1>5. ASSUME NEW d \in Clients
      PROVE  FilesFollows(d)' /\ FilesKnows(d)'
  BY <1>1, <1>2, <1>3 DEF FilesFollows, FilesKnows
<1>. QED
  BY <1>4, <1>5

\* A step that only moves a client.
LEMMA FilesMoveFiles ==
  ASSUME FilesIInv, NEW c \in Clients, UNCHANGED files, UNCHANGED Files!serverVars,
      NEW next \in FilesRemembered,
         client' = [client EXCEPT ![c] = next],
         next.user = client[c].user, next.first = client[c].first, next.asked = client[c].asked,
         client[c].at \notin {"login", "auth", "ended"}, next.at # "auth",
         next.at \in {"sized", "read"} /\ next.calm =>
           files[next.path] # NoFile /\ next.size = Len(files[next.path]),
         next.at # "write"
  PROVE  FilesIInv'
<1>. USE DEF FilesIInv
<1>1. /\ client' \in [Clients -> FilesRemembered] /\ client'[c] = next
      /\ \A d \in Clients : d # c => client'[d] = client[d]
  BY FilesOneClient
<1>2. FilesTyped'
  BY <1>1 DEF FilesTyped, Files!serverVars
<1>3. \A d \in Clients : FilesFollows(d)'
  BY <1>1, FilesFollowsStill
<1>4. ASSUME NEW d \in Clients
      PROVE  FilesKnows(d)'
  BY <1>1 DEF FilesKnows
<1>. QED
  BY <1>2, <1>3, <1>4

LEMMA FilesToMenuFiles ==
  ASSUME FilesIInv, NEW c \in Clients, UNCHANGED files, UNCHANGED Files!serverVars,
         NEW place \in {"menu", "clear"}, client' = [client EXCEPT ![c] = Files!Idle(c, place)],
         client[c].at \notin {"login", "auth", "ended"}
  PROVE  FilesIInv'
<1>1. place \in FilesPlaces /\ client \in [Clients -> FilesRemembered]
  BY DEF FilesPlaces, FilesIInv, FilesTyped
<1>. DEFINE next == Files!Idle(c, place)
<1>2. next \in FilesRemembered /\ next.at = place /\ next.first = client[c].first
      /\ next.user = client[c].user /\ next.asked = client[c].asked
  BY <1>1, FilesIdleIs
<1>. HIDE DEF next
<1>3. client' = [client EXCEPT ![c] = next]
  BY DEF next
<1>. QED
  BY <1>2, <1>3, FilesMoveFiles

\* A call that takes the token.
LEMMA FilesImpersonateFiles ==
  ASSUME FilesIInv, NEW c \in Clients, NEW next \in FilesRemembered, Files!Impersonate(c, next),
         next.user = client[c].user, next.first = client[c].first, next.asked = client[c].asked,
         client[c].at \notin {"login", "auth", "ended"}, next.at # "auth",
         next.at \in {"sized", "read"} /\ next.calm =>
           files[next.path] # NoFile /\ next.size = Len(files[next.path]),
         next.at # "write"
  PROVE  FilesIInv'
<1>1. UNCHANGED files /\ UNCHANGED Files!serverVars
  BY DEF Files!Impersonate
<1>2. CASE hToken = Files!None
  BY <1>1, <1>2, FilesToMenuFiles DEF Files!Impersonate
<1>3. CASE hToken # Files!None
  <2>. DEFINE called == [next EXCEPT !.token = hToken]
  <2>1. client' = [client EXCEPT ![c] = called]
    BY <1>3 DEF Files!Impersonate
  <2>2. /\ called \in FilesRemembered /\ called.at = next.at /\ called.user = next.user
        /\ called.first = next.first /\ called.asked = next.asked /\ called.path = next.path
        /\ called.size = next.size /\ called.calm = next.calm
    BY DEF FilesRemembered, FilesIInv, FilesTyped
  <2>. HIDE DEF called
  <2>. QED
    BY <1>1, <2>1, <2>2, FilesMoveFiles
<1>. QED
  BY <1>2, <1>3

\* What a place of the menu makes of a client.
LEMMA FilesAskFiles ==
  ASSUME FilesIInv, NEW c \in Clients,
      Files!AskSize(c) \/ Files!AskContent(c) \/ Files!AskUpload(c) \/ Files!AskRemove(c)
  PROVE  FilesIInv'
<1>1. client[c] \in FilesRemembered
  BY DEF FilesIInv, FilesTyped
<1>2. CASE Files!AskSize(c)
  <2>1. PICK path \in Paths : Files!Impersonate(c, [client[c] EXCEPT !.at = "size", !.path = path])
    BY <1>2 DEF Files!AskSize
  <2>. DEFINE next == [client[c] EXCEPT !.at = "size", !.path = path]
  <2>2. /\ next \in FilesRemembered /\ next.at = "size" /\ next.user = client[c].user
        /\ next.first = client[c].first /\ next.asked = client[c].asked
    BY <1>1 DEF FilesRemembered, FilesPlaces
  <2>3. client[c].at = "menu"
    BY <1>2 DEF Files!AskSize
  <2>. HIDE DEF next
  <2>. QED
    BY <2>1, <2>2, <2>3, FilesImpersonateFiles DEF next
<1>3. CASE Files!AskContent(c)
  <2>. DEFINE next == [client[c] EXCEPT !.at = "read"]
  <2>1. Files!Impersonate(c, next) /\ client[c].at = "sized"
    BY <1>3 DEF Files!AskContent
  <2>2. /\ next \in FilesRemembered /\ next.at = "read" /\ next.user = client[c].user
        /\ next.first = client[c].first /\ next.asked = client[c].asked
        /\ next.path = client[c].path /\ next.size = client[c].size /\ next.calm = client[c].calm
    BY <1>1 DEF FilesRemembered, FilesPlaces
  <2>3. next.calm => files[next.path] # NoFile /\ next.size = Len(files[next.path])
    BY <2>1, <2>2 DEF FilesIInv, FilesKnows
  <2>. HIDE DEF next
  <2>. QED
    BY <2>1, <2>2, <2>3, FilesImpersonateFiles
<1>4. CASE Files!AskUpload(c)
  <2>1. PICK path \in Paths, data \in Contents :
          Files!Impersonate(c, [client[c] EXCEPT !.at = "open", !.path = path, !.data = data])
    BY <1>4 DEF Files!AskUpload
  <2>. DEFINE next == [client[c] EXCEPT !.at = "open", !.path = path, !.data = data]
  <2>2. /\ next \in FilesRemembered /\ next.at = "open" /\ next.user = client[c].user
        /\ next.first = client[c].first /\ next.asked = client[c].asked
    BY <1>1 DEF FilesRemembered, FilesPlaces
  <2>3. client[c].at = "menu"
    BY <1>4 DEF Files!AskUpload
  <2>. HIDE DEF next
  <2>. QED
    BY <2>1, <2>2, <2>3, FilesImpersonateFiles DEF next
<1>5. CASE Files!AskRemove(c)
  <2>1. PICK path \in Paths : Files!Impersonate(c, [client[c] EXCEPT !.at = "remove", !.path = path])
    BY <1>5 DEF Files!AskRemove
  <2>. DEFINE next == [client[c] EXCEPT !.at = "remove", !.path = path]
  <2>2. /\ next \in FilesRemembered /\ next.at = "remove" /\ next.user = client[c].user
        /\ next.first = client[c].first /\ next.asked = client[c].asked
    BY <1>1 DEF FilesRemembered, FilesPlaces
  <2>3. client[c].at = "menu"
    BY <1>5 DEF Files!AskRemove
  <2>. HIDE DEF next
  <2>. QED
    BY <2>1, <2>2, <2>3, FilesImpersonateFiles DEF next
<1>. QED
  BY <1>2, <1>3, <1>4, <1>5

LEMMA FilesGetSizeFiles ==
  ASSUME FilesIInv, NEW c \in Clients, Files!Get_Size_File(c)
  PROVE  FilesIInv'
<1>. DEFINE size == IF Files!Opens(c) THEN Files!Size(Files!File(c)) ELSE 0
            next == [Files!Idle(c, "sized") EXCEPT !.size = size, !.calm = Files!Writers(client[c].path) = {}]
<1>1. /\ client[c].at = "size" /\ UNCHANGED files /\ UNCHANGED Files!serverVars
      /\ client' = [client EXCEPT ![c] = IF size = 0 THEN Files!Idle(c, "menu") ELSE next]
  BY DEF Files!Get_Size_File
<1>2. CASE size = 0
  BY <1>1, <1>2, FilesToMenuFiles
<1>3. CASE size # 0
  <2>1. Files!Opens(c) /\ Files!File(c) # NoFile /\ size = Len(Files!File(c)) /\ Files!File(c) = files[client[c].path]
    BY <1>3 DEF Files!Opens, Files!Size, Files!File
  <2>2. client[c] \in FilesRemembered /\ client[c].path \in Paths /\ client \in [Clients -> FilesRemembered]
    BY DEF FilesIInv, FilesTyped, FilesRemembered
  <2>3. Files!File(c) \in Seq(Nat)
    BY <2>1, <2>2 DEF FilesIInv, FilesTyped
  <2>4. size \in Nat
    BY <2>1, <2>3
  <2>. DEFINE idle == Files!Idle(c, "sized")
  <2>5. /\ idle \in FilesRemembered /\ idle.at = "sized" /\ idle.first = client[c].first
        /\ idle.user = client[c].user /\ idle.asked = client[c].asked /\ idle.path = client[c].path
    BY <2>2, FilesIdleIs DEF FilesPlaces
  <2>. HIDE DEF idle, size
  <2>. DEFINE told == [idle EXCEPT !.size = size, !.calm = Files!Writers(client[c].path) = {}]
  <2>6. /\ told \in FilesRemembered /\ told.at = "sized" /\ told.first = client[c].first
        /\ told.user = client[c].user /\ told.asked = client[c].asked /\ told.path = client[c].path
        /\ told.size = size
    BY <2>4, <2>5 DEF FilesRemembered
  <2>7. client' = [client EXCEPT ![c] = told]
    BY <1>1, <1>3 DEF idle
  <2>. HIDE DEF told
  <2>8. told.at # "auth" /\ told.at # "write" /\ client[c].at \notin {"login", "auth", "ended"}
    BY <1>1, <2>6
  <2>9. files[told.path] # NoFile /\ told.size = Len(files[told.path])
    BY <2>1, <2>6
  <2>10. UNCHANGED files /\ UNCHANGED Files!serverVars
    BY <1>1
  <2>. QED
    BY <2>6, <2>7, <2>8, <2>9, <2>10, FilesMoveFiles
<1>. QED
  BY <1>2, <1>3

LEMMA FilesDownloadFiles ==
  ASSUME FilesIInv, NEW c \in Clients, Files!Download_File(c)
  PROVE  FilesIInv'
BY FilesToMenuFiles DEF Files!Download_File

\* A path that is touched: those who copy it are not calm, the others see no difference.
LEMMA FilesTouchFiles ==
  ASSUME FilesIInv, NEW c \in Clients, NEW path \in Paths, NEW stored \in Seq(Nat) \cup {NoFile},
         files' = [files EXCEPT ![path] = stored], UNCHANGED Files!serverVars,
         NEW next \in FilesRemembered, client' = Files!Touched(path, c, next),
         next.user = client[c].user, next.first = client[c].first, next.asked = client[c].asked,
         client[c].at \notin {"login", "auth", "ended"}, next.at \in {"menu", "write"},
         next.at = "write" => next.path = path,
         stored = NoFile => next.at = "menu" /\ \A d \in Clients : d # c
             => d \notin Files!Writers(path)
  PROVE  FilesIInv'
<1>. USE DEF FilesIInv
<1>1. client'[c] = next
  BY DEF Files!Touched
<1>2. ASSUME NEW d \in Clients, d # c
      PROVE  /\ client'[d] \in FilesRemembered
             /\ client'[d].at = client[d].at /\ client'[d].user = client[d].user
             /\ client'[d].first = client[d].first /\ client'[d].asked = client[d].asked
             /\ client'[d].path = client[d].path /\ client'[d].size = client[d].size
             /\ client'[d].calm => client[d].calm
             /\ client'[d].calm /\ client[d].at \in {"sized", "read"} => client[d].path # path
  <2>. DEFINE calm == client[d].calm /\ ~ (client[d].at \in {"sized", "read"} /\ client[d].path = path)
  <2>1. client'[d] = [client[d] EXCEPT !.calm = calm]
    BY <1>2 DEF Files!Touched
  <2>2. client[d] \in FilesRemembered /\ calm \in BOOLEAN
    BY DEF FilesTyped, FilesRemembered
  <2>. DEFINE other == client'[d]
  <2>3. /\ other \in FilesRemembered
        /\ other.at = client[d].at /\ other.user = client[d].user
        /\ other.first = client[d].first /\ other.asked = client[d].asked
        /\ other.path = client[d].path /\ other.size = client[d].size /\ other.calm = calm
    <3>. HIDE DEF calm
    <3>. QED
      BY <2>1, <2>2 DEF FilesRemembered
  <2>. HIDE DEF other
  <2>. QED
    BY <2>3 DEF other
<1>3. client' \in [Clients -> FilesRemembered]
  <2>1. \A d \in Clients : client'[d] \in FilesRemembered
    BY <1>1, <1>2
  <2>2. client' = [d \in Clients |-> client'[d]]
    BY DEF Files!Touched
  <2>. QED
    BY <2>1, <2>2
<1>4. files \in [Paths -> Seq(Nat) \cup {NoFile}]
  BY DEF FilesTyped
<1>5. files'[path] = stored /\ \A q \in Paths : q # path => files'[q] = files[q]
  BY <1>4
<1>6. FilesTyped'
  BY <1>3, <1>4 DEF FilesTyped, Files!serverVars
<1>7. \A d \in Clients : FilesFollows(d)'
  <2>1. \A d \in Clients :
          /\ client'[d].user = client[d].user /\ client'[d].first = client[d].first
          /\ client'[d].asked = client[d].asked
          /\ \/ client'[d].at = client[d].at
             \/ client[d].at \notin {"login", "auth", "ended"} /\ client'[d].at # "auth"
    BY <1>1, <1>2
  <2>. QED
    BY <2>1, FilesFollowsStill
<1>8. FilesKnows(c)'
  BY <1>1, <1>5 DEF FilesKnows
<1>9. ASSUME NEW d \in Clients, d # c
      PROVE  FilesKnows(d)'
  <2>1. client[d].path \in Paths /\ FilesKnows(d)
    BY DEF FilesTyped, FilesRemembered
  <2>2. CASE client[d].path # path
    BY <1>2, <1>5, <1>9, <2>1, <2>2 DEF FilesKnows
  <2>3. CASE client[d].path = path
    <3>1. client[d].at = "write" => d \in Files!Writers(path)
      BY <2>3 DEF Files!Writers
    <3>2. client[d].at = "write" => stored # NoFile
      BY <1>9, <3>1
    <3>. QED
      BY <1>2, <1>5, <1>9, <2>3, <3>2 DEF FilesKnows
  <2>. QED
    BY <2>2, <2>3
<1>. QED
  BY <1>6, <1>7, <1>8, <1>9

LEMMA FilesOpenFiles ==
  ASSUME FilesIInv, NEW c \in Clients, Files!OpenForUpload(c)
  PROVE  FilesIInv'
<1>1. client[c].at = "open" /\ UNCHANGED Files!serverVars
  BY DEF Files!OpenForUpload
<1>2. CASE Files!MayOpen(c)
  <2>. DEFINE next == [client[c] EXCEPT !.at = "write"]
  <2>1. files' = [files EXCEPT ![client[c].path] = <<>>] /\ client' = Files!Touched(client[c].path, c, next)
    BY <1>2 DEF Files!OpenForUpload
  <2>2. /\ next \in FilesRemembered /\ next.at = "write" /\ next.first = client[c].first
        /\ next.user = client[c].user /\ next.asked = client[c].asked /\ next.path = client[c].path
        /\ client[c].path \in Paths
    BY ZenonT(60) DEF FilesIInv, FilesTyped, FilesRemembered, FilesPlaces
  <2>3. <<>> \in Seq(Nat) /\ <<>> # NoFile
    <3>1. <<>> \in Seq(Nat)
      OBVIOUS
    <3>. QED
      BY <3>1, FilesAssumption
  <2>. HIDE DEF next
  <2>. QED
    BY <1>1, <2>1, <2>2, <2>3, FilesTouchFiles
<1>3. CASE ~ Files!MayOpen(c)
  BY <1>1, <1>3, FilesToMenuFiles DEF Files!OpenForUpload
<1>. QED
  BY <1>2, <1>3

LEMMA FilesUploadFiles ==
  ASSUME FilesIInv, NEW c \in Clients, Files!Upload_File(c)
  PROVE  FilesIInv'
<1>. DEFINE path == client[c].path
            old == files[path]
            data == client[c].data
            next == Files!Idle(c, "menu")
<1>1. /\ client[c].at = "write" /\ UNCHANGED Files!serverVars
      /\ files' = [files EXCEPT ![path] = Files!Written(files[path], data)]
      /\ client' = Files!Touched(path, c, next)
  BY DEF Files!Upload_File, FilesIInv, FilesTyped
<1>2. path \in Paths /\ data \in Contents \cup {<<>>} /\ client \in [Clients -> FilesRemembered]
  BY DEF FilesIInv, FilesTyped, FilesRemembered
<1>3. old \in Seq(Nat) /\ data \in Seq(Nat)
  <2>1. old # NoFile
    BY <1>1 DEF FilesIInv, FilesKnows
  <2>2. old \in Seq(Nat) \cup {NoFile}
    BY <1>2 DEF FilesIInv, FilesTyped
  <2>3. <<>> \in Seq(Nat) /\ Contents \subseteq Seq(Nat)
    BY FilesAssumption
  <2>. QED
    BY <1>2, <2>1, <2>2, <2>3
<1>4. Files!Written(old, data) \in Seq(Nat)
  <2>. DEFINE n == IF Len(data) > Len(old) THEN Len(data) ELSE Len(old)
  <2>1. Len(data) \in Nat /\ Len(old) \in Nat /\ n \in Nat
    BY <1>3
  <2>2. \A k \in 1 .. n : (IF k <= Len(data) THEN data[k] ELSE old[k]) \in Nat
    BY <1>3, <2>1, SMTT(30)
  <2>. HIDE DEF n
  <2>3. [k \in 1 .. n |-> IF k <= Len(data) THEN data[k] ELSE old[k]] \in Seq(Nat)
    BY <2>1, <2>2
  <2>. QED
    BY <2>3 DEF Files!Written, n
<1>5. /\ next \in FilesRemembered /\ next.at = "menu" /\ next.first = client[c].first
      /\ next.user = client[c].user /\ next.asked = client[c].asked
  BY <1>2, FilesIdleIs DEF FilesPlaces
<1>. DEFINE stored == Files!Written(old, data)
<1>6. stored # NoFile /\ files' = [files EXCEPT ![path] = stored]
  BY <1>1, <1>4, FilesAssumption
<1>7. stored \in Seq(Nat) \cup {NoFile}
  BY <1>4
<1>. HIDE DEF path, next, stored
<1>. QED
  BY <1>1, <1>2, <1>5, <1>6, <1>7, FilesTouchFiles

LEMMA FilesDeleteFiles ==
  ASSUME FilesIInv, NEW c \in Clients, Files!Delete_File(c)
  PROVE  FilesIInv'
<1>1. client[c].at = "remove" /\ UNCHANGED Files!serverVars
  BY DEF Files!Delete_File
<1>. DEFINE path == client[c].path
            next == Files!Idle(c, "menu")
<1>2. CASE Files!Opens(c) /\ Files!Writers(path) = {}
  <2>1. files' = [files EXCEPT ![path] = NoFile] /\ client' = Files!Touched(path, c, next)
    BY <1>2 DEF Files!Delete_File
  <2>2. path \in Paths /\ client \in [Clients -> FilesRemembered]
    BY DEF FilesIInv, FilesTyped, FilesRemembered
  <2>3. /\ next \in FilesRemembered /\ next.at = "menu" /\ next.first = client[c].first
        /\ next.user = client[c].user /\ next.asked = client[c].asked
    BY <2>2, FilesIdleIs DEF FilesPlaces
  <2>. HIDE DEF path, next
  <2>. QED
    BY <1>1, <1>2, <2>1, <2>2, <2>3, FilesTouchFiles
<1>3. CASE ~ (Files!Opens(c) /\ Files!Writers(path) = {})
  BY <1>1, <1>3, FilesToMenuFiles DEF Files!Delete_File
<1>. QED
  BY <1>2, <1>3

LEMMA FilesNextIInv == FilesIInv /\ [Files!Next]_(Files!vars) => FilesIInv'
<1>. SUFFICES ASSUME FilesIInv, [Files!Next]_(Files!vars) PROVE FilesIInv'
  OBVIOUS
<1>1. CASE UNCHANGED Files!vars
  BY <1>1 DEF Files!vars, Files!serverVars, FilesIInv, FilesTyped, FilesFollows, FilesKnows
<1>2. ASSUME NEW c \in Clients,
             \/ Files!Authentication(c) \/ Files!LogOn(c) \/ Files!LeaveMenu(c) \/ Files!Exit_User(c)
             \/ Files!AskSize(c) \/ Files!Get_Size_File(c) \/ Files!AskContent(c) \/ Files!Download_File(c)
             \/ Files!AskUpload(c) \/ Files!OpenForUpload(c) \/ Files!Upload_File(c)
             \/ Files!AskRemove(c) \/ Files!Delete_File(c)
      PROVE  FilesIInv'
  BY <1>2, FilesAuthenticationFiles, FilesLogOnFiles, FilesLeaveMenuFiles, FilesExitUserFiles,
     FilesAskFiles, FilesGetSizeFiles,
     FilesDownloadFiles, FilesOpenFiles, FilesUploadFiles, FilesDeleteFiles
<1>. QED
  BY <1>1, <1>2 DEF Files!Next

LEMMA FilesHold == FilesIInv => Files!OwnIdentity /\ Files!DownloadsIntact
<1>. SUFFICES ASSUME FilesIInv PROVE Files!OwnIdentity /\ Files!DownloadsIntact
  OBVIOUS
<1>1. Files!OwnIdentity
  BY DEF FilesIInv, FilesFollows, Files!OwnIdentity
<1>2. ASSUME NEW c \in Clients, client[c].at = "read", client[c].calm
      PROVE  Files!Received(c) = Files!File(c)
  <2>. DEFINE file == files[client[c].path]
  <2>1. file # NoFile /\ client[c].size = Len(file)
    BY <1>2 DEF FilesIInv, FilesKnows
  <2>2. client[c].path \in Paths
    BY DEF FilesIInv, FilesTyped, FilesRemembered
  <2>3. file \in Seq(Nat)
    BY <2>1, <2>2 DEF FilesIInv, FilesTyped
  <2>4. Files!Received(c) = [k \in 1 .. Len(file) |-> IF k <= Len(file) THEN file[k] ELSE Files!Junk]
    BY <2>1 DEF Files!Received, Files!File
  <2>. HIDE DEF file
  <2>5. \A k \in 1 .. Len(file) : k <= Len(file)
    BY <2>3
  <2>6. Files!Received(c) = [k \in 1 .. Len(file) |-> file[k]]
    BY <2>4, <2>5
  <2>7. file = [k \in 1 .. Len(file) |-> file[k]]
    BY <2>3
  <2>. QED
    BY <2>6, <2>7 DEF file, Files!File
<1>. QED
  BY <1>1, <1>2 DEF Files!DownloadsIntact

----------------------------------------------------------------------------
(* kernel.cpp: the date of a day and the time of a second. *)

DateDays(year) == 365 * year + ((year + 3) \div 4) - ((year + 99) \div 100) + ((year + 399) \div 400)

LEMMA DateLeapIs ==
  ASSUME NEW year \in Nat
  PROVE  /\ Dates!Leap(year) <=> ~ ((year % 100 = 0 /\ year % 400 # 0) \/ year % 4 # 0)
         /\ Dates!YearDays(year) = IF Dates!Leap(year) THEN 366 ELSE 365
         /\ Dates!YearDays(year) \in Nat
<1>1. year % 400 = 0 => year % 4 = 0
  OBVIOUS
<1>2. year % 100 = 0 => year % 4 = 0
  OBVIOUS
<1>. QED
  BY <1>1, <1>2 DEF Dates!Leap, Dates!YearDays

LEMMA DateDaysOfYear ==
  ASSUME NEW year \in Nat
  PROVE  DateDays(year) \in Nat /\ DateDays(year + 1) = DateDays(year) + Dates!YearDays(year)
<1>1. ((year + 1) + 3) \div 4 - (year + 3) \div 4 = IF year % 4 = 0 THEN 1 ELSE 0
  OBVIOUS
<1>2. ((year + 1) + 99) \div 100 - (year + 99) \div 100 = IF year % 100 = 0 THEN 1 ELSE 0
  OBVIOUS
<1>3. ((year + 1) + 399) \div 400 - (year + 399) \div 400 = IF year % 400 = 0 THEN 1 ELSE 0
  OBVIOUS
<1>4. (year % 400 = 0 => year % 100 = 0) /\ (year % 100 = 0 => year % 4 = 0)
  OBVIOUS
<1>5. DateDays(year) \in Int /\ DateDays(year) >= 0
  BY DEF DateDays
<1>. QED
  BY <1>1, <1>2, <1>3, <1>4, <1>5 DEF DateDays, Dates!YearDays, Dates!Leap

\* A later year begins later.
LEMMA DateLaterYear ==
  ASSUME NEW y \in Nat, NEW z \in Nat, y <= z
  PROVE  DateDays(y) <= DateDays(z) /\ (y < z => DateDays(y + 1) <= DateDays(z))
<1>1. \A a \in Nat : DateDays(a) \in Nat
  BY DateDaysOfYear
<1>2. ASSUME NEW a \in Nat, NEW b \in Nat, a <= b
      PROVE  DateDays(a) <= DateDays(b)
  BY <1>2 DEF DateDays
<1>. QED
  BY <1>2

\* Every day is in a year.
LEMMA DateYearExists ==
  ASSUME NEW t \in Nat
  PROVE  \E z \in Nat : DateDays(z) <= t /\ t < DateDays(z + 1)
<1>. DEFINE S == {z \in Nat : t < DateDays(z + 1)}
<1>1. t \in S
  BY DEF DateDays
<1>2. PICK z \in S : \A x \in S : z <= x
  BY <1>1, LeastElement
<1>3. DateDays(z) <= t
  <2>1. CASE z = 0
    <3>1. DateDays(0) = 0
      BY DEF DateDays
    <3>. QED
      BY <2>1, <3>1
  <2>2. CASE z # 0
    <3>1. z - 1 \in Nat /\ (z - 1) + 1 = z /\ ~ (z <= z - 1)
      BY <2>2
    <3>2. z - 1 \notin S
      BY <1>2, <3>1
    <3>3. ~ (t < DateDays(z)) /\ DateDays(z) \in Nat
      BY <3>1, <3>2, DateDaysOfYear
    <3>. QED
      BY <3>3
  <2>. QED
    BY <2>1, <2>2
<1>. QED
  BY <1>2, <1>3

\* The year of a day, counted from the year 0, and the day of the year.
DateInYear(t) == CHOOSE z \in Nat : DateDays(z) <= t /\ t < DateDays(z + 1)

LEMMA DateInYearIs ==
  ASSUME NEW t \in Nat
  PROVE  /\ DateInYear(t) \in Nat /\ DateDays(DateInYear(t)) <= t /\ t < DateDays(DateInYear(t) + 1)
         /\ \A z \in Nat : DateDays(z) <= t /\ t < DateDays(z + 1) => DateInYear(t) = z
<1>1. DateInYear(t) \in Nat /\ DateDays(DateInYear(t)) <= t /\ t < DateDays(DateInYear(t) + 1)
  BY DateYearExists DEF DateInYear
<1>2. ASSUME NEW z \in Nat, DateDays(z) <= t, t < DateDays(z + 1)
      PROVE  DateInYear(t) = z
  <2>1. DateDays(z) \in Nat /\ DateDays(DateInYear(t)) \in Nat /\ DateDays(z + 1) \in Nat /\ DateDays(DateInYear(t) + 1) \in Nat
    BY <1>1, DateDaysOfYear
  <2>2. CASE DateInYear(t) < z
    BY <1>1, <1>2, <2>1, <2>2, DateLaterYear
  <2>3. CASE z < DateInYear(t)
    BY <1>1, <1>2, <2>1, <2>3, DateLaterYear
  <2>. QED
    BY <1>1, <2>2, <2>3
<1>. QED
  BY <1>1, <1>2

\* What the loop over the years computes.
DateYearAt(t) == <<t - DateDays(DateInYear(t)), DateInYear(t)>>
DateYearFound(d, y) == DateYearAt(d + DateDays(y))

LEMMA DateYearFoundIs ==
  ASSUME NEW d \in Nat, NEW y \in Nat
  PROVE  DateYearFound(d, y) = IF d < Dates!YearDays(y) THEN <<d, y>>
      ELSE DateYearFound(d - Dates!YearDays(y), y + 1)
<1>1. /\ DateDays(y) \in Nat /\ DateDays(y + 1) = DateDays(y) + Dates!YearDays(y)
      /\ Dates!YearDays(y) \in Nat
      /\ d + DateDays(y) \in Nat
  BY DateDaysOfYear, DateLeapIs
<1>2. CASE d < Dates!YearDays(y)
  <2>1. DateInYear(d + DateDays(y)) = y
    BY <1>1, <1>2, DateInYearIs
  <2>. QED
    BY <1>1, <1>2, <2>1 DEF DateYearFound, DateYearAt
<1>3. CASE ~ (d < Dates!YearDays(y))
  <2>1. (d - Dates!YearDays(y)) + DateDays(y + 1) = d + DateDays(y)
    BY <1>1
  <2>. QED
    BY <1>3, <2>1 DEF DateYearFound
<1>. QED
  BY <1>2, <1>3

LEMMA DateYearOfIs ==
  ASSUME NEW days \in Nat, NEW year \in Nat
  PROVE  Dates!YearOf(days, year) = DateYearFound(days, year)
<1>. DEFINE Step(f, x) == IF x[1] < Dates!YearDays(x[2]) THEN x
                          ELSE f[<<x[1] - Dates!YearDays(x[2]), x[2] + 1>>]
            loop == CHOOSE f : f = [x \in Nat \X Nat |-> Step(f, x)]
            found == [x \in Nat \X Nat |-> DateYearFound(x[1], x[2])]
<1>1. ASSUME NEW f, NEW x \in Nat \X Nat,
             ~ (x[1] < Dates!YearDays(x[2])) =>
               f[<<x[1] - Dates!YearDays(x[2]), x[2] + 1>>] = DateYearFound(x[1] - Dates!YearDays(x[2]), x[2] + 1)
      PROVE  Step(f, x) = DateYearFound(x[1], x[2])
  <2>1. x = <<x[1], x[2]>> /\ x[1] \in Nat /\ x[2] \in Nat
    OBVIOUS
  <2>. QED
    BY <1>1, <2>1, DateYearFoundIs
<1>2. ASSUME NEW x \in Nat \X Nat, ~ (x[1] < Dates!YearDays(x[2]))
      PROVE  /\ x[1] - Dates!YearDays(x[2]) \in Nat /\ x[2] + 1 \in Nat
             /\ x[1] - Dates!YearDays(x[2]) < x[1]
  <2>1. x[1] \in Nat /\ x[2] \in Nat
    OBVIOUS
  <2>2. Dates!YearDays(x[2]) \in {365, 366}
    BY <2>1, DateLeapIs
  <2>. QED
    BY <1>2, <2>1, <2>2
<1>3. \A d, y \in Nat : found[<<d, y>>] = DateYearFound(d, y)
  OBVIOUS
<1>4. found = [x \in Nat \X Nat |-> Step(found, x)]
  <2>1. ASSUME NEW x \in Nat \X Nat
        PROVE  DateYearFound(x[1], x[2]) = Step(found, x)
    <3>. HIDE DEF found, Step
    <3>1. ~ (x[1] < Dates!YearDays(x[2])) =>
            found[<<x[1] - Dates!YearDays(x[2]), x[2] + 1>>] = DateYearFound(x[1] - Dates!YearDays(x[2]), x[2] + 1)
      BY <1>2, <1>3
    <3>. QED
      BY <1>1, <3>1
  <2>2. found = [x \in Nat \X Nat |-> DateYearFound(x[1], x[2])]
    OBVIOUS
  <2>. HIDE DEF found, Step
  <2>. QED
    BY <2>1, <2>2
<1>5. loop = [x \in Nat \X Nat |-> Step(loop, x)]
  <2>. HIDE DEF found
  <2>. QED
    BY <1>4
<1>6. \A x \in Nat \X Nat : loop[x] = Step(loop, x)
  <2>. HIDE DEF loop, Step
  <2>. QED
    BY <1>5
<1>. HIDE DEF loop, found, Step
<1>. DEFINE S == {m \in Nat : \A x \in Nat \X Nat : x[1] < m => loop[x] = DateYearFound(x[1], x[2])}
<1>7. 0 \in S
  OBVIOUS
<1>8. ASSUME NEW m \in Nat, m \in S
      PROVE  m + 1 \in S
  <2>1. ASSUME NEW x \in Nat \X Nat, x[1] < m + 1
        PROVE  loop[x] = DateYearFound(x[1], x[2])
    <3>1. ASSUME ~ (x[1] < Dates!YearDays(x[2]))
          PROVE  loop[<<x[1] - Dates!YearDays(x[2]), x[2] + 1>>] = DateYearFound(x[1] - Dates!YearDays(x[2]), x[2] + 1)
      <4>1. PICK e \in Nat : e = x[1] - Dates!YearDays(x[2]) /\ e < m
        <5>1. x[1] \in Nat /\ x[1] - Dates!YearDays(x[2]) \in Nat /\ x[1] - Dates!YearDays(x[2]) < x[1]
          BY <1>2, <3>1
        <5>. QED
          BY <2>1, <5>1
      <4>2. PICK z \in Nat : z = x[2] + 1
        OBVIOUS
      <4>3. <<e, z>> \in Nat \X Nat /\ <<e, z>>[1] = e /\ <<e, z>>[2] = z
        OBVIOUS
      <4>4. loop[<<e, z>>] = DateYearFound(e, z)
        BY <1>8, <4>1, <4>3
      <4>. QED
        BY <4>1, <4>2, <4>4
    <3>2. Step(loop, x) = DateYearFound(x[1], x[2])
      BY <1>1, <3>1
    <3>. QED
      BY <1>6, <3>2
  <2>. QED
    BY <2>1
<1>9. days + 1 \in S
  <2>. HIDE DEF S
  <2>1. Nat \subseteq S
    BY <1>7, <1>8, Induction
  <2>. QED
    BY <2>1
<1>10. PICK x : x = <<days, year>>
  OBVIOUS
<1>11. x \in Nat \X Nat /\ x[1] = days /\ x[2] = year
  BY <1>10
<1>12. loop[x] = DateYearFound(days, year)
  BY <1>9, <1>11
<1>. QED
  BY <1>10, <1>12 DEF Dates!YearOf, loop, Step

\* The next day.
LEMMA DateNextYearDay ==
  ASSUME NEW days \in Nat, NEW year \in Nat, NEW d, NEW y, Dates!YearOf(days, year) = <<d, y>>
  PROVE  /\ d \in Nat /\ y \in Nat /\ d < Dates!YearDays(y)
         /\ Dates!YearOf(days + 1, year) = IF d + 1 < Dates!YearDays(y) THEN <<d + 1, y>>
              ELSE <<0, y + 1>>
<1>. DEFINE t == days + DateDays(year)
<1>1. t \in Nat /\ (days + 1) + DateDays(year) = t + 1 /\ t + 1 \in Nat
  BY DateDaysOfYear
<1>2. y = DateInYear(t) /\ d = t - DateDays(y)
  <2>1. Dates!YearOf(days, year) = <<t - DateDays(DateInYear(t)), DateInYear(t)>>
    BY DateYearOfIs DEF DateYearFound, DateYearAt
  <2>. HIDE DEF t
  <2>. QED
    BY <2>1
<1>. HIDE DEF t
<1>3. /\ y \in Nat /\ DateDays(y) <= t /\ t < DateDays(y + 1) /\ DateDays(y) \in Nat
      /\ y + 1 \in Nat
      /\ DateDays(y + 1) = DateDays(y) + Dates!YearDays(y) /\ Dates!YearDays(y) \in Nat
  <2>1. y \in Nat /\ DateDays(y) <= t /\ t < DateDays(y + 1)
    BY <1>1, <1>2, DateInYearIs
  <2>. QED
    BY <2>1, DateDaysOfYear, DateLeapIs
<1>4. d \in Nat /\ d < Dates!YearDays(y)
  BY <1>1, <1>2, <1>3
<1>5. Dates!YearOf(days + 1, year) = <<(t + 1) - DateDays(DateInYear(t + 1)), DateInYear(t + 1)>>
  <2>1. Dates!YearOf(days + 1, year) = DateYearAt((days + 1) + DateDays(year))
    BY DateYearOfIs DEF DateYearFound
  <2>. QED
    BY <1>1, <2>1 DEF DateYearAt
<1>6. CASE d + 1 < Dates!YearDays(y)
  <2>1. DateDays(y) <= t + 1 /\ t + 1 < DateDays(y + 1)
    BY <1>1, <1>2, <1>3, <1>6
  <2>2. DateInYear(t + 1) = y
    BY <1>1, <1>3, <2>1, DateInYearIs
  <2>. QED
    BY <1>1, <1>2, <1>3, <1>4, <1>5, <1>6, <2>2
<1>7. CASE ~ (d + 1 < Dates!YearDays(y))
  <2>1. t + 1 = DateDays(y + 1)
    BY <1>1, <1>2, <1>3, <1>4, <1>7
  <2>2. DateDays(y + 1) < DateDays((y + 1) + 1) /\ DateDays(y + 1) \in Nat
    <3>1. /\ DateDays((y + 1) + 1) = DateDays(y + 1) + Dates!YearDays(y + 1)
          /\ DateDays(y + 1) \in Nat
          /\ Dates!YearDays(y + 1) \in {365, 366}
      BY <1>3, DateDaysOfYear, DateLeapIs
    <3>. QED
      BY <3>1
  <2>3. DateInYear(t + 1) = y + 1
    BY <1>1, <1>3, <2>1, <2>2, DateInYearIs
  <2>. QED
    BY <1>1, <1>3, <1>4, <1>5, <1>7, <2>1, <2>2, <2>3
<1>. QED
  BY <1>3, <1>4, <1>6, <1>7

\* The days of a year before a month; the thirteenth is the next year.
DateStarts(year) ==
  LET l == IF Dates!Leap(year) THEN 1 ELSE 0
  IN <<0, 31, 59 + l, 90 + l, 120 + l, 151 + l, 181 + l, 212 + l, 243 + l, 273 + l, 304 + l,
       334 + l, 365 + l>>

LEMMA DateStartsAre ==
  ASSUME NEW year \in Nat
  PROVE  /\ \A m \in 1 .. 13 : DateStarts(year)[m] \in Nat
         /\ DateStarts(year)[1] = 0 /\ DateStarts(year)[12] + 31 = Dates!YearDays(year)
         /\ Dates!MonthDays(year)[12] = 31
         /\ \A m \in 1 .. 12 : /\ Dates!MonthDays(year)[m] \in Nat /\ Dates!MonthDays(year)[m] > 0
                               /\ DateStarts(year)[m + 1] = DateStarts(year)[m] + Dates!MonthDays(year)[m]
         /\ \A m \in 1 .. 13 : \A w \in 1 .. 13 : m < w
              => DateStarts(year)[m + 1] <= DateStarts(year)[w]
<1>1. PICK l \in {0, 1} : l = IF Dates!Leap(year) THEN 1 ELSE 0
  OBVIOUS
<1>2. PICK K : K = DateStarts(year)
  OBVIOUS
<1>3. K = <<0, 31, 59 + l, 90 + l, 120 + l, 151 + l, 181 + l, 212 + l, 243 + l, 273 + l,
            304 + l, 334 + l, 365 + l>>
  BY <1>1, <1>2 DEF DateStarts
<1>4. /\ K[1] = 0 /\ K[2] = 31 /\ K[3] = 59 + l /\ K[4] = 90 + l /\ K[5] = 120 + l
      /\ K[6] = 151 + l /\ K[7] = 181 + l /\ K[8] = 212 + l /\ K[9] = 243 + l
      /\ K[10] = 273 + l /\ K[11] = 304 + l /\ K[12] = 334 + l /\ K[13] = 365 + l
  BY <1>3
<1>5. PICK D : D = Dates!MonthDays(year)
  OBVIOUS
<1>6. D = <<31, 28 + l, 31, 30, 31, 30, 31, 31, 30, 31, 30, 31>>
  BY <1>1, <1>5 DEF Dates!MonthDays
<1>7. /\ D[1] = 31 /\ D[2] = 28 + l /\ D[3] = 31 /\ D[4] = 30 /\ D[5] = 31 /\ D[6] = 30
      /\ D[7] = 31 /\ D[8] = 31 /\ D[9] = 30 /\ D[10] = 31 /\ D[11] = 30 /\ D[12] = 31
  BY <1>6
<1>8. Dates!YearDays(year) = 365 + l
  BY <1>1 DEF Dates!YearDays
<1>9. \A m \in 1 .. 12 : /\ D[m] \in Nat /\ D[m] > 0 /\ K[m + 1] = K[m] + D[m]
  <2>. TAKE m \in 1 .. 12
  <2>1. \/ m = 1 \/ m = 2 \/ m = 3 \/ m = 4 \/ m = 5 \/ m = 6
        \/ m = 7 \/ m = 8 \/ m = 9 \/ m = 10 \/ m = 11 \/ m = 12
    OBVIOUS
  <2>. QED
    BY <1>4, <1>7, <2>1
<1>10. \A m \in 1 .. 13 : K[m] \in Nat
  <2>. TAKE m \in 1 .. 13
  <2>1. \/ m = 1 \/ m = 2 \/ m = 3 \/ m = 4 \/ m = 5 \/ m = 6
        \/ m = 7 \/ m = 8 \/ m = 9 \/ m = 10 \/ m = 11 \/ m = 12 \/ m = 13
    OBVIOUS
  <2>. QED
    BY <1>4, <2>1
<1>11. \A m \in 1 .. 13 : \A w \in 1 .. 13 : m < w => K[m + 1] <= K[w]
  <2>1. ASSUME NEW m \in 1 .. 13
        PROVE  \A w \in 1 .. 13 : m < w => K[m + 1] <= K[w]
    <3>. DEFINE S == {w \in 0 .. 13 : m < w => K[m + 1] <= K[w]}
    <3>1. 0 \in S
      OBVIOUS
    <3>2. ASSUME NEW w \in 1 .. 13, w - 1 \in S
          PROVE  w \in S
      <4>1. CASE m = w - 1
        <5>1. m + 1 = w /\ K[w] \in Nat
          BY <1>10, <4>1
        <5>. QED
          BY <5>1
      <4>2. CASE m < w - 1
        <5>1. w - 1 \in 1 .. 12 /\ (w - 1) + 1 = w /\ m + 1 \in 1 .. 13
          BY <4>2
        <5>2. K[m + 1] <= K[w - 1] /\ K[w] = K[w - 1] + D[w - 1] /\ D[w - 1] \in Nat
          BY <1>9, <3>2, <4>2, <5>1
        <5>3. K[m + 1] \in Nat /\ K[w - 1] \in Nat
          BY <1>10, <5>1
        <5>. QED
          BY <5>2, <5>3
      <4>. QED
        BY <4>1, <4>2
    <3>. HIDE DEF S
    <3>3. 0 .. 13 \subseteq S
      BY <3>1, <3>2, UpTo
    <3>. QED
      BY <3>3 DEF S
  <2>. QED
    BY <2>1
<1>. QED
  BY <1>2, <1>4, <1>5, <1>7, <1>8, <1>9, <1>10, <1>11

\* The month of a day of the year.
DateIsMonth(w, t, year) ==
  w \in 1 .. 13 /\ DateStarts(year)[w] <= t /\ (w < 13 => t < DateStarts(year)[w + 1])
DateInMonth(t, year) == CHOOSE w : DateIsMonth(w, t, year)

LEMMA DateInMonthIs ==
  ASSUME NEW t \in Nat, NEW year \in Nat
  PROVE  DateIsMonth(DateInMonth(t, year), t, year) /\ \A w : DateIsMonth(w, t, year)
      => DateInMonth(t, year) = w
<1>. DEFINE S == {w \in 1 .. 13 : w < 13 => t < DateStarts(year)[w + 1]}
<1>1. 13 \in S /\ S \in SUBSET Nat
  OBVIOUS
<1>2. PICK w \in S : \A v \in S : w <= v
  <2>. HIDE DEF S
  <2>. QED
    BY <1>1, LeastElement
<1>3. DateStarts(year)[w] <= t
  <2>1. CASE w = 1
    BY <2>1, DateStartsAre
  <2>2. CASE w # 1
    <3>1. w - 1 \in 1 .. 12 /\ (w - 1) + 1 = w /\ ~ (w <= w - 1) /\ w \in 1 .. 13
      BY <2>2
    <3>2. w - 1 \notin S
      BY <1>2, <3>1
    <3>3. ~ (t < DateStarts(year)[w]) /\ DateStarts(year)[w] \in Nat
      BY <3>1, <3>2, DateStartsAre
    <3>. QED
      BY <3>3
  <2>. QED
    BY <2>1, <2>2
<1>4. DateIsMonth(w, t, year)
  BY <1>2, <1>3 DEF DateIsMonth
<1>5. DateIsMonth(DateInMonth(t, year), t, year)
  BY <1>4 DEF DateInMonth
<1>6. ASSUME NEW v, NEW x, DateIsMonth(v, t, year), DateIsMonth(x, t, year), v < x
      PROVE  FALSE
  <2>1. v \in 1 .. 13 /\ x \in 1 .. 13 /\ v < 13 /\ v + 1 \in 1 .. 13
    BY <1>6 DEF DateIsMonth
  <2>2. t < DateStarts(year)[v + 1] /\ DateStarts(year)[x] <= t
    BY <1>6, <2>1 DEF DateIsMonth
  <2>3. /\ DateStarts(year)[v + 1] <= DateStarts(year)[x]
        /\ DateStarts(year)[v + 1] \in Nat /\ DateStarts(year)[x] \in Nat
    BY <1>6, <2>1, DateStartsAre
  <2>. QED
    BY <2>2, <2>3
<1>7. ASSUME NEW v, DateIsMonth(v, t, year)
      PROVE  DateInMonth(t, year) = v
  <2>1. v \in 1 .. 13 /\ DateInMonth(t, year) \in 1 .. 13
    BY <1>5, <1>7 DEF DateIsMonth
  <2>2. ~ (v < DateInMonth(t, year)) /\ ~ (DateInMonth(t, year) < v)
    BY <1>5, <1>6, <1>7
  <2>. QED
    BY <2>1, <2>2
<1>. QED
  BY <1>5, <1>7

\* What the loop over the months computes.
DateMonthAt(t, year) == <<t - DateStarts(year)[DateInMonth(t, year)] + 1, DateInMonth(t, year)>>
DateMonthFound(d, m, year) == DateMonthAt(d + DateStarts(year)[m], year)

LEMMA DateMonthFoundIs ==
  ASSUME NEW d \in Nat, NEW m \in 1 .. 13, NEW year \in Nat
  PROVE  DateMonthFound(d, m, year) =
           IF m <= 12 /\ d >= Dates!MonthDays(year)[m]
               THEN DateMonthFound(d - Dates!MonthDays(year)[m], m + 1, year)
           ELSE <<d + 1, m>>
<1>. DEFINE t == d + DateStarts(year)[m]
<1>1. DateStarts(year)[m] \in Nat /\ t \in Nat
  BY DateStartsAre
<1>2. m \in 1 .. 12 => /\ Dates!MonthDays(year)[m] \in Nat /\ Dates!MonthDays(year)[m] > 0
                       /\ DateStarts(year)[m + 1] = DateStarts(year)[m] + Dates!MonthDays(year)[m]
  BY DateStartsAre
<1>3. CASE m <= 12 /\ d >= Dates!MonthDays(year)[m]
  <2>1. (d - Dates!MonthDays(year)[m]) + DateStarts(year)[m + 1] = t
    BY <1>1, <1>2, <1>3
  <2>. HIDE DEF t
  <2>2. DateMonthFound(d - Dates!MonthDays(year)[m], m + 1, year) = DateMonthAt(t, year)
    BY <2>1 DEF DateMonthFound
  <2>. QED
    BY <1>3, <2>2 DEF DateMonthFound, t
<1>4. CASE ~ (m <= 12 /\ d >= Dates!MonthDays(year)[m])
  <2>1. DateIsMonth(m, t, year)
    BY <1>1, <1>2, <1>4 DEF DateIsMonth
  <2>2. DateInMonth(t, year) = m
    BY <1>1, <2>1, DateInMonthIs
  <2>3. t - DateStarts(year)[m] + 1 = d + 1
    BY <1>1
  <2>. HIDE DEF t
  <2>4. DateMonthAt(t, year) = <<d + 1, m>>
    BY <2>2, <2>3 DEF DateMonthAt
  <2>. QED
    BY <1>4, <2>4 DEF DateMonthFound, t
<1>. QED
  BY <1>3, <1>4

LEMMA DateMonthOfIs ==
  ASSUME NEW days \in Nat, NEW year \in Nat
  PROVE  Dates!MonthOf(days, year) = DateMonthFound(days, 1, year)
<1>. DEFINE Goes(x) == x[2] <= 12 /\ x[1] >= Dates!MonthDays(year)[x[2]]
            Step(f, x) == IF Goes(x) THEN f[<<x[1] - Dates!MonthDays(year)[x[2]], x[2] + 1>>]
                          ELSE <<x[1] + 1, x[2]>>
            loop == CHOOSE f : f = [x \in Nat \X (1 .. 13) |-> Step(f, x)]
            found == [x \in Nat \X (1 .. 13) |-> DateMonthFound(x[1], x[2], year)]
<1>1. ASSUME NEW f, NEW x \in Nat \X (1 .. 13),
             Goes(x) => f[<<x[1] - Dates!MonthDays(year)[x[2]], x[2] + 1>>]
                          = DateMonthFound(x[1] - Dates!MonthDays(year)[x[2]], x[2] + 1, year)
      PROVE  Step(f, x) = DateMonthFound(x[1], x[2], year)
  <2>1. x[1] \in Nat /\ x[2] \in 1 .. 13
    OBVIOUS
  <2>. QED
    BY <1>1, <2>1, DateMonthFoundIs
<1>2. ASSUME NEW x \in Nat \X (1 .. 13), Goes(x)
      PROVE  /\ x[1] - Dates!MonthDays(year)[x[2]] \in Nat /\ x[2] + 1 \in 1 .. 13
             /\ x[1] - Dates!MonthDays(year)[x[2]] < x[1]
  <2>1. x[1] \in Nat /\ x[2] \in 1 .. 12
    BY <1>2
  <2>2. Dates!MonthDays(year)[x[2]] \in Nat /\ Dates!MonthDays(year)[x[2]] > 0
    BY <2>1, DateStartsAre
  <2>. QED
    BY <1>2, <2>1, <2>2
<1>3. \A d \in Nat, m \in 1 .. 13 : found[<<d, m>>] = DateMonthFound(d, m, year)
  OBVIOUS
<1>4. found = [x \in Nat \X (1 .. 13) |-> Step(found, x)]
  <2>1. ASSUME NEW x \in Nat \X (1 .. 13)
        PROVE  DateMonthFound(x[1], x[2], year) = Step(found, x)
    <3>. HIDE DEF found, Step, Goes
    <3>1. Goes(x) => found[<<x[1] - Dates!MonthDays(year)[x[2]], x[2] + 1>>]
                       = DateMonthFound(x[1] - Dates!MonthDays(year)[x[2]], x[2] + 1, year)
      BY <1>2, <1>3
    <3>. QED
      BY <1>1, <3>1
  <2>2. found = [x \in Nat \X (1 .. 13) |-> DateMonthFound(x[1], x[2], year)]
    OBVIOUS
  <2>. HIDE DEF found, Step
  <2>. QED
    BY <2>1, <2>2
<1>5. loop = [x \in Nat \X (1 .. 13) |-> Step(loop, x)]
  <2>. HIDE DEF found
  <2>. QED
    BY <1>4
<1>6. \A x \in Nat \X (1 .. 13) : loop[x] = Step(loop, x)
  <2>. HIDE DEF loop, Step
  <2>. QED
    BY <1>5
<1>. HIDE DEF loop, found, Step, Goes
<1>. DEFINE S == {k \in Nat : \A x \in Nat \X (1 .. 13) : x[1] < k => loop[x] = DateMonthFound(x[1], x[2], year)}
<1>7. 0 \in S
  OBVIOUS
<1>8. ASSUME NEW k \in Nat, k \in S
      PROVE  k + 1 \in S
  <2>1. ASSUME NEW x \in Nat \X (1 .. 13), x[1] < k + 1
        PROVE  loop[x] = DateMonthFound(x[1], x[2], year)
    <3>1. ASSUME Goes(x)
          PROVE  loop[<<x[1] - Dates!MonthDays(year)[x[2]], x[2] + 1>>]
                   = DateMonthFound(x[1] - Dates!MonthDays(year)[x[2]], x[2] + 1, year)
      <4>1. PICK e \in Nat : e = x[1] - Dates!MonthDays(year)[x[2]] /\ e < k
        <5>1. /\ x[1] \in Nat /\ x[1] - Dates!MonthDays(year)[x[2]] \in Nat
              /\ x[1] - Dates!MonthDays(year)[x[2]] < x[1]
          BY <1>2, <3>1
        <5>. QED
          BY <2>1, <5>1
      <4>2. PICK z \in 1 .. 13 : z = x[2] + 1
        BY <1>2, <3>1
      <4>3. <<e, z>> \in Nat \X (1 .. 13) /\ <<e, z>>[1] = e /\ <<e, z>>[2] = z
        OBVIOUS
      <4>4. loop[<<e, z>>] = DateMonthFound(e, z, year)
        BY <1>8, <4>1, <4>3
      <4>. QED
        BY <4>1, <4>2, <4>4
    <3>2. Step(loop, x) = DateMonthFound(x[1], x[2], year)
      BY <1>1, <3>1
    <3>. QED
      BY <1>6, <3>2
  <2>. QED
    BY <2>1
<1>9. days + 1 \in S
  <2>. HIDE DEF S
  <2>1. Nat \subseteq S
    BY <1>7, <1>8, Induction
  <2>. QED
    BY <2>1
<1>10. PICK x : x = <<days, 1>>
  OBVIOUS
<1>11. x \in Nat \X (1 .. 13) /\ x[1] = days /\ x[2] = 1
  BY <1>10
<1>12. loop[x] = DateMonthFound(days, 1, year)
  BY <1>9, <1>11
<1>. QED
  BY <1>10, <1>12 DEF Dates!MonthOf, loop, Step, Goes

\* The first day, and the next one.
LEMMA DateFirstMonthDay ==
  ASSUME NEW year \in Nat
  PROVE  Dates!MonthOf(0, year) = <<1, 1>>
<1>1. DateStarts(year)[1] = 0 /\ DateStarts(year)[2] > 0
  <2>1. /\ DateStarts(year)[1 + 1] = DateStarts(year)[1] + Dates!MonthDays(year)[1]
        /\ Dates!MonthDays(year)[1] \in Nat /\ Dates!MonthDays(year)[1] > 0
    BY DateStartsAre
  <2>. QED
    BY <2>1, DateStartsAre
<1>2. DateIsMonth(1, 0, year)
  BY <1>1 DEF DateIsMonth
<1>3. DateInMonth(0, year) = 1
  BY <1>2, DateInMonthIs
<1>4. Dates!MonthOf(0, year) = DateMonthAt(0, year)
  BY <1>1, DateMonthOfIs DEF DateMonthFound
<1>. QED
  BY <1>1, <1>3, <1>4 DEF DateMonthAt

LEMMA DateNextMonthDay ==
  ASSUME NEW d \in Nat, NEW year \in Nat, d < Dates!YearDays(year),
         NEW day, NEW month, Dates!MonthOf(d, year) = <<day, month>>
  PROVE  /\ month \in 1 .. 12 /\ day \in 1 .. Dates!MonthDays(year)[month]
         /\ d + 1 < Dates!YearDays(year) =>
              Dates!MonthOf(d + 1, year) =
                IF day < Dates!MonthDays(year)[month] THEN <<day + 1, month>> ELSE <<1, month + 1>>
         /\ day = Dates!MonthDays(year)[month] /\ month = 12 <=> d + 1 = Dates!YearDays(year)
<1>1. DateStarts(year)[1] = 0 /\ d + 1 \in Nat
  BY DateStartsAre
<1>2. month = DateInMonth(d, year) /\ day = d - DateStarts(year)[month] + 1
  <2>1. Dates!MonthOf(d, year) = DateMonthAt(d, year)
    BY <1>1, DateMonthOfIs DEF DateMonthFound
  <2>. QED
    BY <2>1 DEF DateMonthAt
<1>3. DateIsMonth(month, d, year)
  BY <1>2, DateInMonthIs
<1>4. Dates!YearDays(year) = DateStarts(year)[12] + 31 /\ Dates!YearDays(year) = DateStarts(year)[13]
  <2>1. DateStarts(year)[12 + 1] = DateStarts(year)[12] + Dates!MonthDays(year)[12]
    BY DateStartsAre
  <2>. QED
    BY <2>1, DateStartsAre
<1>5. month \in 1 .. 12
  <2>1. month \in 1 .. 13 /\ DateStarts(year)[month] <= d /\ DateStarts(year)[13] \in Nat
    BY <1>3, DateStartsAre DEF DateIsMonth
  <2>2. month # 13
    BY <1>4, <2>1
  <2>. QED
    BY <2>1, <2>2
<1>6. /\ DateStarts(year)[month] \in Nat /\ Dates!MonthDays(year)[month] \in Nat
      /\ DateStarts(year)[month + 1] = DateStarts(year)[month] + Dates!MonthDays(year)[month]
      /\ DateStarts(year)[month] <= d /\ d < DateStarts(year)[month + 1]
  BY <1>3, <1>5, DateStartsAre DEF DateIsMonth
<1>7. day \in 1 .. Dates!MonthDays(year)[month]
  BY <1>2, <1>6
<1>8. Dates!MonthOf(d + 1, year) = DateMonthAt(d + 1, year)
  BY <1>1, DateMonthOfIs DEF DateMonthFound
<1>9. CASE day < Dates!MonthDays(year)[month]
  <2>1. d + 1 < DateStarts(year)[month + 1] /\ DateStarts(year)[month] <= d + 1
    BY <1>2, <1>6, <1>9
  <2>2. DateIsMonth(month, d + 1, year)
    BY <1>5, <2>1 DEF DateIsMonth
  <2>3. DateInMonth(d + 1, year) = month
    BY <1>1, <2>2, DateInMonthIs
  <2>4. (d + 1) - DateStarts(year)[month] + 1 = day + 1
    BY <1>2, <1>6
  <2>5. Dates!MonthOf(d + 1, year) = <<day + 1, month>>
    BY <1>8, <2>3, <2>4 DEF DateMonthAt
  <2>6. month = 12 => d + 1 < Dates!YearDays(year)
    BY <1>4, <2>1
  <2>7. month # 12 => d + 1 < Dates!YearDays(year)
    <3>1. month # 12 => DateStarts(year)[month + 1] <= DateStarts(year)[13]
      BY <1>5, DateStartsAre
    <3>. HIDE DEF DateStarts
    <3>2. DateStarts(year)[13] \in Nat /\ DateStarts(year)[month + 1] \in Nat
      BY <1>5, DateStartsAre
    <3>. QED
      BY <1>4, <2>1, <3>1, <3>2
  <2>. QED
    BY <1>5, <1>7, <1>9, <2>5, <2>6, <2>7, DateLeapIs
<1>10. CASE day = Dates!MonthDays(year)[month]
  <2>1. d + 1 = DateStarts(year)[month + 1]
    BY <1>2, <1>6, <1>10
  <2>2. month = 12 => d + 1 = Dates!YearDays(year)
    BY <1>4, <2>1
  <2>3. ASSUME month # 12
        PROVE  d + 1 < Dates!YearDays(year) /\ Dates!MonthOf(d + 1, year) = <<1, month + 1>>
    <3>1. month + 1 \in 1 .. 12
      BY <1>5, <2>3
    <3>2. /\ DateStarts(year)[month + 1] \in Nat /\ Dates!MonthDays(year)[month + 1] > 0
          /\ Dates!MonthDays(year)[month + 1] \in Nat
          /\ DateStarts(year)[(month + 1) + 1] = DateStarts(year)[month + 1] + Dates!MonthDays(year)[month + 1]
      BY <3>1, DateStartsAre
    <3>3. DateIsMonth(month + 1, d + 1, year)
      BY <2>1, <3>1, <3>2 DEF DateIsMonth
    <3>4. DateInMonth(d + 1, year) = month + 1
      BY <1>1, <3>3, DateInMonthIs
    <3>5. Dates!MonthOf(d + 1, year) = <<1, month + 1>>
      BY <1>8, <2>1, <3>2, <3>4 DEF DateMonthAt
    <3>6. DateStarts(year)[(month + 1) + 1] <= DateStarts(year)[13]
      <4>1. month + 1 = 12 => (month + 1) + 1 = 13
        OBVIOUS
      <4>2. month + 1 # 12 => DateStarts(year)[(month + 1) + 1] <= DateStarts(year)[13]
        BY <3>1, DateStartsAre
      <4>3. DateStarts(year)[13] \in Nat
        BY DateStartsAre
      <4>. QED
        BY <4>1, <4>2, <4>3
    <3>7. DateStarts(year)[13] \in Nat
      BY DateStartsAre
    <3>. QED
      BY <1>4, <2>1, <3>2, <3>5, <3>6, <3>7
  <2>. QED
    BY <1>5, <1>7, <1>10, <2>2, <2>3, DateLeapIs
<1>. QED
  BY <1>6, <1>7, <1>9, <1>10

\* The next date is the day after.
LEMMA DateNextDate ==
  ASSUME NEW n \in Nat, NEW first \in Nat
  PROVE  Dates!Date(n + 1, first) = Dates!DayAfter(Dates!Date(n, first))
<1>1. PICK d, y : Dates!YearOf(n, first) = <<d, y>>
  BY DateYearOfIs DEF DateYearFound, DateYearAt
<1>2. /\ d \in Nat /\ y \in Nat /\ d < Dates!YearDays(y)
      /\ Dates!YearOf(n + 1, first) = IF d + 1 < Dates!YearDays(y) THEN <<d + 1, y>>
           ELSE <<0, y + 1>>
  BY <1>1, DateNextYearDay
<1>3. PICK day, month : Dates!MonthOf(d, y) = <<day, month>>
  BY <1>2, DateMonthOfIs DEF DateMonthFound, DateMonthAt
<1>4. /\ month \in 1 .. 12 /\ day \in 1 .. Dates!MonthDays(y)[month]
      /\ d + 1 < Dates!YearDays(y) =>
           Dates!MonthOf(d + 1, y) =
             IF day < Dates!MonthDays(y)[month] THEN <<day + 1, month>> ELSE <<1, month + 1>>
      /\ day = Dates!MonthDays(y)[month] /\ month = 12 <=> d + 1 = Dates!YearDays(y)
  BY <1>2, <1>3, DateNextMonthDay
<1>5. Dates!Date(n, first) = [day |-> day, month |-> month, year |-> y]
  BY <1>1, <1>3 DEF Dates!Date
<1>6. Dates!MonthDays(y)[month] =
        CASE month \in {4, 6, 9, 11} -> 30
          [] month = 2 -> IF (y % 100 = 0 /\ y % 400 # 0) \/ y % 4 # 0 THEN 28 ELSE 29
          [] OTHER -> 31
  <2>1. \/ month = 1 \/ month = 2 \/ month = 3 \/ month = 4 \/ month = 5 \/ month = 6
        \/ month = 7 \/ month = 8 \/ month = 9 \/ month = 10 \/ month = 11 \/ month = 12
    BY <1>4
  <2>2. (IF Dates!Leap(y) THEN 29 ELSE 28)
          = IF (y % 100 = 0 /\ y % 400 # 0) \/ y % 4 # 0 THEN 28 ELSE 29
    BY <1>2, DateLeapIs
  <2>3. PICK D : D = Dates!MonthDays(y)
    OBVIOUS
  <2>4. /\ D[1] = 31 /\ D[2] = (IF Dates!Leap(y) THEN 29 ELSE 28) /\ D[3] = 31 /\ D[4] = 30 /\ D[5] = 31
        /\ D[6] = 30 /\ D[7] = 31 /\ D[8] = 31 /\ D[9] = 30 /\ D[10] = 31 /\ D[11] = 30
        /\ D[12] = 31
    BY <2>3 DEF Dates!MonthDays
  <2>. QED
    BY <2>1, <2>2, <2>3, <2>4
<1>7. Dates!DayAfter(Dates!Date(n, first)) =
        IF day < Dates!MonthDays(y)[month] THEN [day |-> day + 1, month |-> month, year |-> y]
        ELSE IF month < 12 THEN [day |-> 1, month |-> month + 1, year |-> y]
        ELSE [day |-> 1, month |-> 1, year |-> y + 1]
  <2>1. PICK date : date = Dates!Date(n, first)
    OBVIOUS
  <2>2. date = [day |-> day, month |-> month, year |-> y]
    BY <1>5, <2>1
  <2>3. date.day = day /\ date.month = month /\ date.year = y
    BY <2>2
  <2>4. [date EXCEPT !.day = @ + 1] = [day |-> day + 1, month |-> month, year |-> y]
    BY <2>2
  <2>6. Dates!MonthDays(y)[month] =
          CASE date.month \in {4, 6, 9, 11} -> 30
            [] date.month = 2 -> IF (date.year % 100 = 0 /\ date.year % 400 # 0)
                                    \/ date.year % 4 # 0 THEN 28 ELSE 29
            [] OTHER -> 31
    BY <1>6, <2>3
  <2>7. Dates!DayAfter(date) =
          IF date.day < Dates!MonthDays(y)[month] THEN [date EXCEPT !.day = @ + 1]
          ELSE IF date.month < 12 THEN [day |-> 1, month |-> date.month + 1, year |-> date.year]
          ELSE [day |-> 1, month |-> 1, year |-> date.year + 1]
    BY <2>6 DEF Dates!DayAfter
  <2>. QED
    BY <2>1, <2>3, <2>4, <2>7
<1>8. CASE d + 1 < Dates!YearDays(y)
  <2>1. Dates!YearOf(n + 1, first) = <<d + 1, y>>
    BY <1>2, <1>8
  <2>2. ~ (day = Dates!MonthDays(y)[month] /\ month = 12)
    BY <1>2, <1>4, <1>8, DateLeapIs
  <2>3. CASE day < Dates!MonthDays(y)[month]
    <3>1. Dates!Date(n + 1, first) = [day |-> day + 1, month |-> month, year |-> y]
      BY <1>4, <1>8, <2>1, <2>3 DEF Dates!Date
    <3>. QED
      BY <1>7, <2>3, <3>1
  <2>4. CASE ~ (day < Dates!MonthDays(y)[month])
    <3>1. month < 12 /\ month + 1 = month + 1
      <4>1. Dates!MonthDays(y)[month] \in Nat
        BY <1>2, <1>4, DateStartsAre
      <4>. QED
        BY <1>4, <2>2, <2>4, <4>1
    <3>2. Dates!Date(n + 1, first) = [day |-> 1, month |-> month + 1, year |-> y]
      BY <1>4, <1>8, <2>1, <2>4 DEF Dates!Date
    <3>. QED
      BY <1>7, <2>4, <3>1, <3>2
  <2>. QED
    BY <2>3, <2>4
<1>9. CASE ~ (d + 1 < Dates!YearDays(y))
  <2>1. Dates!YearOf(n + 1, first) = <<0, y + 1>> /\ y + 1 \in Nat
    BY <1>2, <1>9
  <2>2. day = Dates!MonthDays(y)[month] /\ month = 12
    BY <1>2, <1>4, <1>9, DateLeapIs
  <2>3. Dates!MonthOf(0, y + 1) = <<1, 1>>
    BY <2>1, DateFirstMonthDay
  <2>4. Dates!Date(n + 1, first) = [day |-> 1, month |-> 1, year |-> y + 1]
    BY <2>1, <2>3 DEF Dates!Date
  <2>5. ~ (day < Dates!MonthDays(y)[month]) /\ ~ (month < 12)
    BY <1>4, <2>2
  <2>. QED
    BY <1>7, <2>4, <2>5
<1>. QED
  BY <1>8, <1>9

LEMMA DateFirstDate ==
  ASSUME NEW first \in Nat
  PROVE  Dates!Date(0, first) = [day |-> 1, month |-> 1, year |-> first]
<1>1. Dates!YearOf(0, first) = <<0, first>>
  <2>1. 0 < Dates!YearDays(first)
    BY DateLeapIs
  <2>. QED
    BY <2>1, DateYearOfIs, DateYearFoundIs
<1>. QED
  BY <1>1, DateFirstMonthDay DEF Dates!Date

\* Hours, minutes and seconds.
LEMMA DateClockIs ==
  ASSUME NEW seconds \in SecondsOfDay
  PROVE  /\ Dates!Clock(seconds) \in (0 .. 23) \X (0 .. 59) \X (0 .. 59)
         /\ Dates!Clock(seconds)[1] * 3600 + Dates!Clock(seconds)[2] * 60 + Dates!Clock(seconds)[3] = seconds
<1>1. seconds \in Nat /\ seconds < 86400
  BY DateAssumption
<1>. PICK q : q = seconds \div 60
  OBVIOUS
<1>. PICK s : s = seconds % 60
  OBVIOUS
<1>. PICK h : h = q \div 60
  OBVIOUS
<1>. PICK m : m = q % 60
  OBVIOUS
<1>2. q \in Nat /\ q < 1440 /\ s \in 0 .. 59 /\ seconds = q * 60 + s
  BY <1>1
<1>3. h \in 0 .. 23 /\ m \in 0 .. 59 /\ q = h * 60 + m
  BY <1>2
<1>5. seconds = h * 3600 + m * 60 + s
  BY <1>2, <1>3
<1>6. seconds \div 3600 = h
  BY <1>1, <1>5
<1>7. (seconds \div 3600) % 24 = h /\ (seconds \div 60) % 60 = m /\ seconds % 60 = s
  BY <1>1, <1>2, <1>3, <1>6
<1>4. Dates!Clock(seconds) = <<h, m, s>>
  BY <1>7 DEF Dates!Clock
<1>. QED
  BY <1>2, <1>3, <1>4, <1>5

DateIInv ==
  /\ first_year \in FirstYears /\ number \in 0 .. MaxDay
  /\ Dates!Date(number, first_year) = calendar

LEMMA DateInitIInv == Dates!Init => DateIInv
<1>. SUFFICES ASSUME Dates!Init PROVE DateIInv
  OBVIOUS
<1>1. first_year \in Nat /\ MaxDay \in Nat
  BY DateAssumption DEF Dates!Init
<1>. QED
  BY <1>1, DateFirstDate DEF Dates!Init, DateIInv

LEMMA DateNextIInv == DateIInv /\ [Dates!Next]_(Dates!dateVars) => DateIInv'
<1>. SUFFICES ASSUME DateIInv, [Dates!Next]_(Dates!dateVars) PROVE DateIInv'
  OBVIOUS
<1>1. CASE UNCHANGED Dates!dateVars
  BY <1>1 DEF Dates!dateVars, DateIInv
<1>2. CASE Dates!NextDay
  <2>1. first_year \in Nat /\ MaxDay \in Nat /\ number \in Nat
    BY DateAssumption DEF DateIInv
  <2>2. Dates!Date(number + 1, first_year) = Dates!DayAfter(calendar)
    BY <2>1, DateNextDate DEF DateIInv
  <2>. QED
    BY <1>2, <2>1, <2>2 DEF Dates!NextDay, DateIInv
<1>. QED
  BY <1>1, <1>2 DEF Dates!Next

LEMMA DateHolds == DateIInv => Dates!DateRight
BY DateClockIs DEF DateIInv, Dates!DateRight

----------------------------------------------------------------------------
(* DataBase Dormitories.cpp: the list and the bag of its records. *)

LEMMA DormCounts == \A S : Dorm!Cardinality(S) = Cardinality(S)
BY DEF Dorm!Cardinality, Cardinality

DormPlaces(list, s) == {i \in DOMAIN list : list[i] = s}

LEMMA DormPlacesFinite ==
  ASSUME NEW S, NEW list \in Seq(S), NEW s
  PROVE  /\ IsFiniteSet(DormPlaces(list, s)) /\ Cardinality(DormPlaces(list, s)) \in Nat
         /\ Cardinality(DormPlaces(list, s)) = 0 <=> s \notin Dorm!RecordsOf(list)
<1>1. DormPlaces(list, s) \subseteq 1 .. Len(list) /\ Len(list) \in Nat
  BY DEF DormPlaces
<1>2. IsFiniteSet(DormPlaces(list, s))
  <2>1. IsFiniteSet(1 .. Len(list))
    BY <1>1, FS_Interval
  <2>. QED
    BY <1>1, <2>1, FS_Subset
<1>3. DormPlaces(list, s) = {} <=> s \notin Dorm!RecordsOf(list)
  BY DEF DormPlaces, Dorm!RecordsOf
<1>. QED
  BY <1>2, <1>3, FS_CardinalityType, FS_EmptySet

\* A bag has what it has, each with its copies.
LEMMA DormBagOfIs ==
  ASSUME NEW S, NEW list \in Seq(S)
  PROVE  /\ Dorm!BagOf(list) = [s \in Dorm!RecordsOf(list) |-> Cardinality(DormPlaces(list, s))]
         /\ DOMAIN Dorm!BagOf(list) = Dorm!RecordsOf(list)
         /\ \A s : Dorm!Promised!Copies(Dorm!BagOf(list), s) = Cardinality(DormPlaces(list, s))
         /\ \A s \in Dorm!RecordsOf(list) : Dorm!BagOf(list)[s] \in Nat /\ Dorm!BagOf(list)[s] > 0
<1>1. Dorm!BagOf(list) = [s \in Dorm!RecordsOf(list) |-> Cardinality(DormPlaces(list, s))]
  <2>1. \A s : {i \in DOMAIN list : list[i] = s} = DormPlaces(list, s)
    BY DEF DormPlaces
  <2>. QED
    BY <2>1, DormCounts DEF Dorm!BagOf
<1>2. \A s : Dorm!Promised!Copies(Dorm!BagOf(list), s) = Cardinality(DormPlaces(list, s))
  <2>. TAKE s
  <2>1. s \notin Dorm!RecordsOf(list) => Cardinality(DormPlaces(list, s)) = 0
    BY DormPlacesFinite
  <2>. HIDE DEF Dorm!BagOf
  <2>. QED
    BY <1>1, <2>1 DEF Dorm!Promised!Copies
<1>3. \A s \in Dorm!RecordsOf(list) : Cardinality(DormPlaces(list, s)) \in Nat /\ Cardinality(DormPlaces(list, s)) # 0
  BY DormPlacesFinite
<1>4. ASSUME NEW s \in Dorm!RecordsOf(list)
      PROVE  Dorm!BagOf(list)[s] \in Nat /\ Dorm!BagOf(list)[s] > 0
  <2>1. Cardinality(DormPlaces(list, s)) \in Nat /\ Cardinality(DormPlaces(list, s)) # 0
    BY <1>3
  <2>. QED
    BY <1>1, <2>1
<1>. QED
  BY <1>1, <1>2, <1>4

\* A record that is put into a list is added to its bag.
LEMMA DormOneMore ==
  ASSUME NEW S, NEW l \in Seq(S), NEW m \in Seq(S), NEW p \in 1 .. Len(l) + 1,
         Len(m) = Len(l) + 1,
         \A i \in 1 .. Len(l) : i < p => m[i] = l[i],
         \A i \in 1 .. Len(l) : i >= p => m[i + 1] = l[i]
  PROVE  Dorm!BagOf(m) = Dorm!Promised!With(Dorm!BagOf(l), m[p])
<1>1. /\ DOMAIN l = 1 .. Len(l) /\ DOMAIN m = 1 .. Len(l) + 1 /\ Len(l) \in Nat
      /\ p \in Nat /\ p \in DOMAIN m
  OBVIOUS
<1>2. ASSUME NEW s
      PROVE  Cardinality(DormPlaces(m, s)) =
               IF s = m[p] THEN Cardinality(DormPlaces(l, s)) + 1 ELSE Cardinality(DormPlaces(l, s))
  <2>. DEFINE Rest == DormPlaces(m, s) \ {p}
              Moved(i) == IF i < p THEN i ELSE i + 1
              Back(k) == IF k < p THEN k ELSE k - 1
              move == [i \in DormPlaces(l, s) |-> Moved(i)]
  <2>1. \A i \in DormPlaces(l, s) : Moved(i) \in Rest
    BY <1>1 DEF DormPlaces
  <2>2. \A i, j \in DormPlaces(l, s) : Moved(i) = Moved(j) => i = j
    BY <1>1 DEF DormPlaces
  <2>3. ASSUME NEW k \in Rest
        PROVE  \E i \in DormPlaces(l, s) : Moved(i) = k
    <3>1. k \in 1 .. Len(l) + 1 /\ k # p /\ m[k] = s
      BY <1>1 DEF DormPlaces
    <3>2. Back(k) \in 1 .. Len(l) /\ Moved(Back(k)) = k
      BY <1>1, <3>1
    <3>3. l[Back(k)] = m[k]
      <4>1. CASE k < p
        <5>1. k \in 1 .. Len(l) /\ Back(k) = k
          BY <1>1, <3>1, <4>1
        <5>. QED
          BY <4>1, <5>1
      <4>2. CASE ~ (k < p)
        <5>1. k - 1 \in 1 .. Len(l) /\ k - 1 >= p /\ (k - 1) + 1 = k /\ Back(k) = k - 1
          BY <1>1, <3>1, <4>2
        <5>. QED
          BY <5>1
      <4>. QED
        BY <4>1, <4>2
    <3>4. Back(k) \in DormPlaces(l, s)
      BY <1>1, <3>1, <3>2, <3>3 DEF DormPlaces
    <3>. QED
      BY <3>2, <3>4
  <2>4. move \in Bijection(DormPlaces(l, s), Rest)
    <3>. HIDE DEF Rest, Moved
    <3>1. move \in [DormPlaces(l, s) -> Rest]
      BY <2>1
    <3>2. \A i, j \in DormPlaces(l, s) : move[i] = move[j] => i = j
      BY <2>2
    <3>3. \A k \in Rest : \E i \in DormPlaces(l, s) : move[i] = k
      BY <2>3
    <3>. QED
      BY <3>1, <3>2, <3>3 DEF Bijection, Injection, Surjection, IsInjective
  <2>5. IsFiniteSet(Rest) /\ Cardinality(Rest) = Cardinality(DormPlaces(l, s))
    <3>. HIDE DEF Rest, move
    <3>1. IsFiniteSet(DormPlaces(l, s))
      BY DormPlacesFinite
    <3>. QED
      BY <2>4, <3>1, FS_Bijection DEF ExistsBijection
  <2>6. CASE s = m[p]
    <3>1. DormPlaces(m, s) = Rest \cup {p} /\ p \notin Rest
      BY <1>1, <2>6 DEF DormPlaces
    <3>. HIDE DEF Rest
    <3>. QED
      BY <2>5, <2>6, <3>1, FS_AddElement
  <2>7. CASE s # m[p]
    <3>1. DormPlaces(m, s) = Rest
      BY <2>7 DEF DormPlaces
    <3>. QED
      BY <2>5, <2>7, <3>1
  <2>. QED
    BY <2>6, <2>7
<1>3. Dorm!RecordsOf(m) = Dorm!RecordsOf(l) \cup {m[p]}
  <2>1. \A s : s \in Dorm!RecordsOf(m) <=> s \in Dorm!RecordsOf(l) \/ s = m[p]
    <3>. TAKE s
    <3>1. /\ Cardinality(DormPlaces(m, s)) \in Nat /\ Cardinality(DormPlaces(l, s)) \in Nat
          /\ Cardinality(DormPlaces(m, s)) = 0 <=> s \notin Dorm!RecordsOf(m)
          /\ Cardinality(DormPlaces(l, s)) = 0 <=> s \notin Dorm!RecordsOf(l)
      BY DormPlacesFinite
    <3>. QED
      BY <1>2, <3>1
  <2>. QED
    BY <2>1
<1>. HIDE DEF Dorm!BagOf
<1>4. /\ Dorm!BagOf(m) = [s \in Dorm!RecordsOf(m) |-> Cardinality(DormPlaces(m, s))]
      /\ Dorm!BagOf(l) = [s \in Dorm!RecordsOf(l) |-> Cardinality(DormPlaces(l, s))]
      /\ Dorm!Promised!Copies(Dorm!BagOf(l), m[p]) = Cardinality(DormPlaces(l, m[p]))
  BY DormBagOfIs
<1>5. DOMAIN Dorm!BagOf(l) = Dorm!RecordsOf(l)
  BY <1>4
<1>6. \A s \in Dorm!RecordsOf(m) :
        Cardinality(DormPlaces(m, s)) =
          IF s = m[p] THEN Dorm!Promised!Copies(Dorm!BagOf(l), m[p]) + 1 ELSE Dorm!BagOf(l)[s]
  BY <1>2, <1>3, <1>4
<1>. QED
  BY <1>3, <1>4, <1>5, <1>6 DEF Dorm!Promised!With
LEMMA DormNoRecords == Dorm!BagOf(<<>>) = Dorm!Promised!EmptyBag
<1>1. Dorm!RecordsOf(<<>>) = {}
  BY DEF Dorm!RecordsOf
<1>. QED
  BY <1>1 DEF Dorm!BagOf, Dorm!Promised!EmptyBag

\* The first k of a list.
DormFirst(list, k) == [i \in 1 .. k |-> list[i]]

LEMMA DormFirstIs ==
  ASSUME NEW S, NEW list \in Seq(S)
  PROVE  /\ DormFirst(list, 0) = <<>> /\ DormFirst(list, Len(list)) = list
         /\ \A k \in 0 .. Len(list) : DormFirst(list, k) \in Seq(S)
         /\ \A k \in 1 .. Len(list) :
              Dorm!BagOf(DormFirst(list, k)) = Dorm!Promised!With(Dorm!BagOf(DormFirst(list, k - 1)), list[k])
<1>1. DormFirst(list, 0) = <<>> /\ DormFirst(list, Len(list)) = list
  BY DEF DormFirst
<1>2. \A k \in 0 .. Len(list) : DormFirst(list, k) \in Seq(S) /\ Len(DormFirst(list, k)) = k
  <2>. TAKE k \in 0 .. Len(list)
  <2>1. DormFirst(list, k) \in [1 .. k -> S] /\ k \in Nat
    BY DEF DormFirst
  <2>. QED
    BY <2>1
<1>3. ASSUME NEW k \in 1 .. Len(list)
      PROVE  Dorm!BagOf(DormFirst(list, k)) = Dorm!Promised!With(Dorm!BagOf(DormFirst(list, k - 1)), list[k])
  <2>1. /\ k - 1 \in 0 .. Len(list) /\ k \in 0 .. Len(list) /\ k \in 1 .. (k - 1) + 1
        /\ k = (k - 1) + 1 /\ DormFirst(list, k)[k] = list[k]
    BY DEF DormFirst
  <2>2. \A i \in 1 .. k - 1 : DormFirst(list, k)[i] = DormFirst(list, k - 1)[i]
    BY DEF DormFirst
  <2>3. /\ DormFirst(list, k - 1) \in Seq(S) /\ Len(DormFirst(list, k - 1)) = k - 1
        /\ DormFirst(list, k) \in Seq(S) /\ Len(DormFirst(list, k)) = k
    BY <1>2, <2>1
  <2>. HIDE DEF Dorm!BagOf, DormFirst
  <2>. DEFINE l == DormFirst(list, k - 1)
              m == DormFirst(list, k)
  <2>4. /\ l \in Seq(S) /\ m \in Seq(S) /\ k \in 1 .. Len(l) + 1 /\ Len(m) = Len(l) + 1
        /\ \A i \in 1 .. Len(l) : i < k => m[i] = l[i]
        /\ \A i \in 1 .. Len(l) : i >= k => m[i + 1] = l[i]
        /\ m[k] = list[k]
    BY <2>1, <2>2, <2>3
  <2>. HIDE DEF l, m
  <2>5. Dorm!BagOf(m) = Dorm!Promised!With(Dorm!BagOf(l), m[k])
    BY <2>4, DormOneMore
  <2>. QED
    BY <2>4, <2>5 DEF l, m
<1>. QED
  BY <1>1, <1>2, <1>3

LEMMA DormInsertedIs ==
  ASSUME NEW S, NEW list \in Seq(S), NEW r \in S
  PROVE  /\ Dorm!Inserted(list, r) \in Seq(S) /\ Len(Dorm!Inserted(list, r)) = Len(list) + 1
         /\ Dorm!BagOf(Dorm!Inserted(list, r)) = Dorm!Promised!With(Dorm!BagOf(list), r)
<1>. DEFINE m == Dorm!Inserted(list, r)
<1>1. CASE list = <<>>
  <2>1. m = <<r>> /\ m \in Seq(S) /\ Len(m) = 1 /\ m[1] = r /\ Len(list) = 0
    BY <1>1 DEF Dorm!Inserted
  <2>. HIDE DEF m
  <2>2. /\ 1 \in 1 .. Len(list) + 1 /\ Len(m) = Len(list) + 1
        /\ \A i \in 1 .. Len(list) : i < 1 => m[i] = list[i]
        /\ \A i \in 1 .. Len(list) : i >= 1 => m[i + 1] = list[i]
    BY <2>1
  <2>3. m \in Seq(S)
    BY <2>1
  <2>4. Dorm!BagOf(m) = Dorm!Promised!With(Dorm!BagOf(list), m[1])
    BY ONLY <2>2, <2>3, list \in Seq(S), DormOneMore
  <2>. QED
    BY <2>1, <2>4 DEF m
<1>2. CASE list # <<>>
  <2>1. /\ Len(list) \in Nat /\ Len(list) >= 1 /\ Head(list) = list[1] /\ list[1] \in S
        /\ Tail(list) \in Seq(S) /\ Len(Tail(list)) = Len(list) - 1
        /\ \A i \in 1 .. Len(list) - 1 : Tail(list)[i] = list[i + 1]
    BY <1>2
  <2>2. m = <<Head(list), r>> \o Tail(list)
    BY <1>2 DEF Dorm!Inserted
  <2>3. m \in Seq(S) /\ Len(m) = Len(list) + 1 /\ m[1] = list[1] /\ m[2] = r
    BY <2>1, <2>2
  <2>4. \A i \in 1 .. Len(list) : i >= 2 => m[i + 1] = list[i]
    <3>. TAKE i \in 1 .. Len(list)
    <3>. HAVE i >= 2
    <3>1. (i + 1) - 2 \in 1 .. Len(list) - 1 /\ i + 1 \in 3 .. Len(list) + 1 /\ ((i + 1) - 2) + 1 = i
      OBVIOUS
    <3>2. m[i + 1] = Tail(list)[(i + 1) - 2]
      BY <2>1, <2>2, <3>1
    <3>. QED
      BY <2>1, <3>1, <3>2
  <2>. HIDE DEF m
  <2>5. \A i \in 1 .. Len(list) : i < 2 => m[i] = list[i]
    BY <2>3
  <2>6. 2 \in 1 .. Len(list) + 1
    BY <2>1
  <2>7. Dorm!BagOf(m) = Dorm!Promised!With(Dorm!BagOf(list), m[2])
    BY <2>3, <2>4, <2>5, <2>6, DormOneMore
  <2>. QED
    BY <2>3, <2>7 DEF m
<1>. QED
  BY <1>1, <1>2

LEMMA DormAppendedIs ==
  ASSUME NEW S, NEW list \in Seq(S), NEW r \in S
  PROVE  /\ Append(list, r) \in Seq(S)
         /\ Dorm!BagOf(Append(list, r)) = Dorm!Promised!With(Dorm!BagOf(list), r)
<1>1. PICK m : m = Append(list, r)
  OBVIOUS
<1>2. m \in Seq(S) /\ Len(m) = Len(list) + 1 /\ m[Len(list) + 1] = r
  BY <1>1
<1>3. Len(list) + 1 \in 1 .. Len(list) + 1 /\ \A i \in 1 .. Len(list) : ~ (i >= Len(list) + 1)
  OBVIOUS
<1>4. \A i \in 1 .. Len(list) : m[i] = list[i]
  BY <1>1
<1>5. Dorm!BagOf(m) = Dorm!Promised!With(Dorm!BagOf(list), m[Len(list) + 1])
  BY <1>2, <1>3, <1>4, DormOneMore
<1>. QED
  BY <1>1, <1>2, <1>5

\* Reading a file keeps its bag.
LEMMA DormLoadedIs ==
  ASSUME NEW S, NEW lines \in Seq(S)
  PROVE  /\ Dorm!add_from_file(lines) \in Seq(S) /\ Len(Dorm!add_from_file(lines)) = Len(lines)
         /\ Dorm!BagOf(Dorm!add_from_file(lines)) = Dorm!BagOf(lines)
<1>. DEFINE n == Len(lines)
            Step(f, k) == IF k = 0 THEN <<>> ELSE Dorm!Inserted(f[k - 1], lines[k])
            added == CHOOSE f : f = [k \in 0 .. n |-> Step(f, k)]
            step == [x \in (1 .. n) \X Seq(S) |-> Dorm!Inserted(x[2], lines[x[1]])]
<1>1. n \in Nat /\ \A k \in 1 .. n : lines[k] \in S
  OBVIOUS
<1>2. step \in [(1 .. n) \X Seq(S) -> Seq(S)]
  <2>1. ASSUME NEW x \in (1 .. n) \X Seq(S)
        PROVE  Dorm!Inserted(x[2], lines[x[1]]) \in Seq(S)
    <3>1. x[2] \in Seq(S) /\ lines[x[1]] \in S
      BY <1>1
    <3>. QED
      BY <3>1, DormInsertedIs
  <2>. QED
    BY <2>1
<1>3. PICK f : Recurs(f, n, Seq(S), <<>>, step)
  <2>1. <<>> \in Seq(S)
    OBVIOUS
  <2>. HIDE DEF step, n
  <2>. QED
    BY <1>1, <1>2, <2>1, Recursion
<1>4. f = [k \in 0 .. n |-> Step(f, k)]
  <2>1. f \in [0 .. n -> Seq(S)] /\ f[0] = <<>> /\ \A k \in 1 .. n : f[k] = step[<<k, f[k - 1]>>]
    BY <1>3 DEF Recurs
  <2>2. ASSUME NEW k \in 0 .. n
        PROVE  f[k] = Step(f, k)
    <3>1. CASE k = 0
      BY <2>1, <3>1
    <3>2. CASE k # 0
      <4>1. k \in 1 .. n /\ f[k - 1] \in Seq(S)
        BY <1>1, <2>1, <3>2
      <4>2. step[<<k, f[k - 1]>>] = Dorm!Inserted(f[k - 1], lines[k])
        BY <4>1
      <4>. QED
        BY <2>1, <3>2, <4>1, <4>2
    <3>. QED
      BY <3>1, <3>2
  <2>. HIDE DEF step, n
  <2>. QED
    BY <2>1, <2>2
<1>5. added = [k \in 0 .. n |-> Step(added, k)]
  BY <1>4
<1>6. added[0] = <<>> /\ \A k \in 1 .. n : added[k] = Dorm!Inserted(added[k - 1], lines[k])
  <2>. HIDE DEF added
  <2>. QED
    BY <1>1, <1>5
<1>. DEFINE Good == {k \in 0 .. n : /\ added[k] \in Seq(S) /\ Len(added[k]) = k
                                    /\ Dorm!BagOf(added[k]) = Dorm!BagOf(DormFirst(lines, k))}
<1>. HIDE DEF added, Dorm!BagOf
<1>7. 0 \in Good
  BY <1>1, <1>6, DormFirstIs
<1>8. ASSUME NEW k \in 1 .. n, k - 1 \in Good
      PROVE  k \in Good
  <2>1. /\ added[k - 1] \in Seq(S) /\ Len(added[k - 1]) = k - 1 /\ lines[k] \in S
        /\ Dorm!BagOf(added[k - 1]) = Dorm!BagOf(DormFirst(lines, k - 1))
    BY <1>1, <1>8
  <2>2. /\ added[k] \in Seq(S) /\ Len(added[k]) = (k - 1) + 1
        /\ Dorm!BagOf(added[k]) = Dorm!Promised!With(Dorm!BagOf(added[k - 1]), lines[k])
    <3>1. added[k] = Dorm!Inserted(added[k - 1], lines[k])
      BY <1>6
    <3>2. /\ Dorm!Inserted(added[k - 1], lines[k]) \in Seq(S)
          /\ Len(Dorm!Inserted(added[k - 1], lines[k])) = Len(added[k - 1]) + 1
          /\ Dorm!BagOf(Dorm!Inserted(added[k - 1], lines[k])) = Dorm!Promised!With(Dorm!BagOf(added[k - 1]), lines[k])
      BY <2>1, DormInsertedIs
    <3>. QED
      BY <2>1, <3>1, <3>2
  <2>. QED
    BY <2>1, <2>2, DormFirstIs
<1>9. n \in Good
  <2>. HIDE DEF Good, n
  <2>1. 0 .. n \subseteq Good
    BY <1>1, <1>7, <1>8, UpTo
  <2>. QED
    BY <1>1, <2>1
<1>10. Dorm!add_from_file(lines) = added[n]
  BY DEF Dorm!add_from_file, added
<1>. QED
  BY <1>9, <1>10, DormFirstIs

\* A record that is taken out of a list is taken out of its bag.
LEMMA DormDeletedIs ==
  ASSUME NEW S, NEW list \in Seq(S), NEW i \in DOMAIN list
  PROVE  /\ Dorm!delete_student(list, i) \in Seq(S) /\ Len(Dorm!delete_student(list, i)) = Len(list) - 1
         /\ Dorm!BagOf(Dorm!delete_student(list, i)) = Dorm!Promised!Without(Dorm!BagOf(list), list[i])
<1>. DEFINE l == Dorm!delete_student(list, i)
<1>1. i \in 1 .. Len(list) /\ Len(list) \in Nat /\ list \in [1 .. Len(list) -> S]
  OBVIOUS
<1>2. l = [k \in 1 .. Len(list) - 1 |-> IF k < i THEN list[k] ELSE list[k + 1]]
  BY DEF Dorm!delete_student
<1>3. \A k \in 1 .. Len(list) - 1 : k \in 1 .. Len(list) /\ k + 1 \in 1 .. Len(list)
  OBVIOUS
<1>4. l \in Seq(S) /\ Len(l) = Len(list) - 1
  <2>1. l \in [1 .. Len(list) - 1 -> S] /\ Len(list) - 1 \in Nat
    BY <1>1, <1>2, <1>3
  <2>. HIDE DEF l
  <2>. QED
    BY <2>1
<1>5. \A k \in 1 .. Len(l) : k < i => list[k] = l[k]
  BY <1>1, <1>2, <1>4
<1>6. \A k \in 1 .. Len(l) : k >= i => list[k + 1] = l[k]
  BY <1>1, <1>2, <1>4
<1>. HIDE DEF l, Dorm!BagOf
<1>7. Dorm!BagOf(list) = Dorm!Promised!With(Dorm!BagOf(l), list[i])
  <2>1. i \in 1 .. Len(l) + 1 /\ Len(list) = Len(l) + 1
    BY <1>1, <1>4
  <2>. QED
    BY <1>4, <1>5, <1>6, <2>1, DormOneMore
<1>8. /\ Dorm!BagOf(l) = [s \in DOMAIN Dorm!BagOf(l) |-> Dorm!BagOf(l)[s]]
      /\ \A s \in DOMAIN Dorm!BagOf(l) : Dorm!BagOf(l)[s] \in Nat /\ Dorm!BagOf(l)[s] > 0
  BY <1>4, DormBagOfIs
<1>9. Dorm!BagOf(l) = Dorm!Promised!Without(Dorm!Promised!With(Dorm!BagOf(l), list[i]), list[i])
  <2>1. ASSUME NEW b, NEW r, b = [s \in DOMAIN b |-> b[s]],
               \A s \in DOMAIN b : b[s] \in Nat /\ b[s] > 0
        PROVE  b = Dorm!Promised!Without(Dorm!Promised!With(b, r), r)
    <3>1. PICK w : w = Dorm!Promised!With(b, r)
      OBVIOUS
    <3>2. /\ w = [s \in DOMAIN b \cup {r} |-> w[s]]
          /\ w[r] = IF r \in DOMAIN b THEN b[r] + 1 ELSE 1
          /\ \A s \in DOMAIN b : s # r => w[s] = b[s]
      BY <3>1 DEF Dorm!Promised!With, Dorm!Promised!Copies
    <3>3. {s \in DOMAIN w : s = r => w[r] > 1} = DOMAIN b
      <4>1. DOMAIN w = DOMAIN b \cup {r}
        BY <3>2
      <4>2. w[r] > 1 <=> r \in DOMAIN b
        BY <2>1, <3>2
      <4>. QED
        BY <4>1, <4>2
    <3>4. ASSUME NEW s \in DOMAIN b
          PROVE  (IF s = r THEN w[r] - 1 ELSE w[s]) = b[s]
      <4>1. s = r => w[r] = b[r] + 1 /\ b[r] \in Nat
        BY <2>1, <3>2, <3>4
      <4>. QED
        BY <3>2, <3>4, <4>1
    <3>5. Dorm!Promised!Without(w, r) = [s \in DOMAIN b |-> IF s = r THEN w[r] - 1 ELSE w[s]]
      BY <3>3 DEF Dorm!Promised!Without
    <3>. QED
      BY <2>1, <3>1, <3>4, <3>5
  <2>. QED
    BY <1>8, <2>1
<1>. QED
  BY <1>4, <1>7, <1>9 DEF l

\* The copies of some records.
DormOnly(bag, X) == [s \in DOMAIN bag \cap X |-> bag[s]]

LEMMA DormOnlyWith ==
  ASSUME NEW b, NEW X, NEW r
  PROVE  DormOnly(Dorm!Promised!With(b, r), X) = IF r \in X
      THEN Dorm!Promised!With(DormOnly(b, X), r) ELSE DormOnly(b, X)
<1>1. PICK w : w = Dorm!Promised!With(b, r)
  OBVIOUS
<1>2. /\ DOMAIN w = DOMAIN b \cup {r}
      /\ w[r] = Dorm!Promised!Copies(b, r) + 1
      /\ \A s \in DOMAIN b : s # r => w[s] = b[s]
  BY <1>1 DEF Dorm!Promised!With
<1>3. DOMAIN DormOnly(b, X) = DOMAIN b \cap X /\ \A s \in DOMAIN b \cap X : DormOnly(b, X)[s] = b[s]
  BY DEF DormOnly
<1>4. CASE r \in X
  <2>1. Dorm!Promised!Copies(DormOnly(b, X), r) = Dorm!Promised!Copies(b, r)
    BY <1>3, <1>4 DEF Dorm!Promised!Copies
  <2>2. DOMAIN w \cap X = DOMAIN DormOnly(b, X) \cup {r}
    BY <1>2, <1>3, <1>4
  <2>3. \A s \in DOMAIN w \cap X :
          w[s] = IF s = r THEN Dorm!Promised!Copies(DormOnly(b, X), r) + 1 ELSE DormOnly(b, X)[s]
    BY <1>2, <1>3, <1>4, <2>1
  <2>4. DormOnly(w, X) = [s \in DOMAIN w \cap X |-> w[s]]
    BY DEF DormOnly
  <2>5. Dorm!Promised!With(DormOnly(b, X), r)
          = [s \in DOMAIN DormOnly(b, X) \cup {r} |->
               IF s = r THEN Dorm!Promised!Copies(DormOnly(b, X), r) + 1 ELSE DormOnly(b, X)[s]]
    BY DEF Dorm!Promised!With
  <2>. QED
    BY <1>1, <1>4, <2>2, <2>3, <2>4, <2>5
<1>5. CASE r \notin X
  <2>1. DOMAIN w \cap X = DOMAIN b \cap X
    BY <1>2, <1>5
  <2>2. \A s \in DOMAIN b \cap X : w[s] = b[s]
    BY <1>2, <1>5
  <2>. QED
    BY <1>1, <1>5, <2>1, <2>2 DEF DormOnly
<1>. QED
  BY <1>4, <1>5

DormAgreeWith(S, r, kind) == {s \in S : s[kind] = r[kind]}

\* What is shown is the bag of the records that agree.
LEMMA DormAgreeingIs ==
  ASSUME NEW S, NEW list \in Seq(S), NEW r, NEW kind
  PROVE  /\ Dorm!Agreeing(list, r, kind) \in Seq(S)
         /\ Dorm!BagOf(Dorm!Agreeing(list, r, kind)) = DormOnly(Dorm!BagOf(list), DormAgreeWith(S, r, kind))
<1>. DEFINE n == Len(list)
            X == DormAgreeWith(S, r, kind)
            Next1(l, k) == IF list[k][kind] = r[kind] THEN Append(l, list[k]) ELSE l
            Step(f, k) == IF k = 0 THEN <<>>
                          ELSE IF list[k][kind] = r[kind] THEN Append(f[k - 1], list[k])
                          ELSE f[k - 1]
            chosen == CHOOSE f : f = [k \in 0 .. n |-> Step(f, k)]
            step == [x \in (1 .. n) \X Seq(S) |-> Next1(x[2], x[1])]
<1>1. n \in Nat /\ \A k \in 1 .. n : list[k] \in S
  OBVIOUS
<1>2. step \in [(1 .. n) \X Seq(S) -> Seq(S)]
  <2>1. ASSUME NEW x \in (1 .. n) \X Seq(S)
        PROVE  Next1(x[2], x[1]) \in Seq(S)
    <3>1. x[2] \in Seq(S) /\ list[x[1]] \in S
      BY <1>1
    <3>. QED
      BY <3>1
  <2>. QED
    BY <2>1
<1>3. PICK f : Recurs(f, n, Seq(S), <<>>, step)
  <2>1. <<>> \in Seq(S)
    OBVIOUS
  <2>. HIDE DEF step, n
  <2>. QED
    BY <1>1, <1>2, <2>1, Recursion
<1>4. f = [k \in 0 .. n |-> Step(f, k)]
  <2>1. f \in [0 .. n -> Seq(S)] /\ f[0] = <<>> /\ \A k \in 1 .. n : f[k] = step[<<k, f[k - 1]>>]
    BY <1>3 DEF Recurs
  <2>2. ASSUME NEW k \in 0 .. n
        PROVE  f[k] = Step(f, k)
    <3>1. CASE k = 0
      BY <2>1, <3>1
    <3>2. CASE k # 0
      <4>1. k \in 1 .. n /\ f[k - 1] \in Seq(S)
        BY <1>1, <2>1, <3>2
      <4>2. step[<<k, f[k - 1]>>] = Next1(f[k - 1], k)
        BY <4>1
      <4>. QED
        BY <2>1, <3>2, <4>1, <4>2
    <3>. QED
      BY <3>1, <3>2
  <2>. HIDE DEF step, n
  <2>. QED
    BY <2>1, <2>2
<1>5. chosen = [k \in 0 .. n |-> Step(chosen, k)]
  BY <1>4
<1>6. chosen[0] = <<>> /\ \A k \in 1 .. n : chosen[k] = Next1(chosen[k - 1], k)
  <2>. HIDE DEF chosen
  <2>1. \A k \in 0 .. n : chosen[k] = Step(chosen, k)
    <3>. HIDE DEF Step
    <3>. QED
      BY <1>5
  <2>2. \A k \in 1 .. n : k \in 0 .. n /\ k # 0
    BY <1>1
  <2>. QED
    BY <1>1, <2>1, <2>2
<1>. DEFINE Good == {k \in 0 .. n : /\ chosen[k] \in Seq(S)
                                    /\ Dorm!BagOf(chosen[k]) = DormOnly(Dorm!BagOf(DormFirst(list, k)), X)}
<1>. HIDE DEF chosen, Dorm!BagOf
<1>7. 0 \in Good
  <2>1. DormOnly(Dorm!BagOf(<<>>), X) = Dorm!BagOf(<<>>)
    BY DormNoRecords DEF DormOnly, Dorm!Promised!EmptyBag
  <2>. QED
    BY <1>1, <1>6, <2>1, DormFirstIs
<1>8. ASSUME NEW k \in 1 .. n, k - 1 \in Good
      PROVE  k \in Good
  <2>1. /\ chosen[k - 1] \in Seq(S) /\ list[k] \in S
        /\ Dorm!BagOf(chosen[k - 1]) = DormOnly(Dorm!BagOf(DormFirst(list, k - 1)), X)
    BY <1>1, <1>8
  <2>2. Dorm!BagOf(DormFirst(list, k)) = Dorm!Promised!With(Dorm!BagOf(DormFirst(list, k - 1)), list[k])
    BY DormFirstIs
  <2>3. list[k] \in X <=> list[k][kind] = r[kind]
    BY <2>1 DEF DormAgreeWith
  <2>. HIDE DEF X
  <2>4. CASE list[k] \in X
    <3>1. chosen[k] = Append(chosen[k - 1], list[k])
      BY <1>6, <2>3, <2>4
    <3>2. chosen[k] \in Seq(S) /\ Dorm!BagOf(chosen[k]) = Dorm!Promised!With(Dorm!BagOf(chosen[k - 1]), list[k])
      BY <2>1, <3>1, DormAppendedIs
    <3>. QED
      BY <2>1, <2>2, <2>4, <3>2, DormOnlyWith
  <2>5. CASE list[k] \notin X
    <3>1. chosen[k] = chosen[k - 1]
      BY <1>6, <2>3, <2>5
    <3>. QED
      BY <2>1, <2>2, <2>5, <3>1, DormOnlyWith
  <2>. QED
    BY <2>4, <2>5
<1>9. n \in Good
  <2>. HIDE DEF Good, n
  <2>1. 0 .. n \subseteq Good
    BY <1>1, <1>7, <1>8, UpTo
  <2>. QED
    BY <1>1, <2>1
<1>10. Dorm!Agreeing(list, r, kind) = chosen[n]
  BY DEF Dorm!Agreeing, chosen
<1>. QED
  BY <1>9, <1>10, DormFirstIs

----------------------------------------------------------------------------
\* The inductive invariant.
DormPersons == Students \cup {Dorm!Entered(r) : r \in Students}
DormIInv ==
  /\ base \in Seq(DormPersons) /\ Len(base) <= MaxStudents
  /\ based \in Seq(DormPersons) /\ Len(based) <= MaxStudents
  /\ up \in BOOLEAN

LEMMA DormInitIInv ==
  Dorm!Init => DormIInv /\ Dorm!Promised!RegInit
<1>. SUFFICES ASSUME Dorm!Init PROVE DormIInv /\ Dorm!Promised!RegInit
  OBVIOUS
<1>1. PICK k \in 0 .. MaxStudents : \E lines \in [1 .. k -> Students] : based = lines /\ base = Dorm!add_from_file(lines)
  BY DEF Dorm!Init
<1>2. based \in [1 .. k -> Students] /\ base = Dorm!add_from_file(based)
  BY <1>1
<1>3. k \in Nat /\ k <= MaxStudents
  BY DormitoryAssumption
<1>4. based \in Seq(DormPersons) /\ Len(based) = k
  BY <1>2, <1>3 DEF DormPersons
<1>5. /\ base \in Seq(DormPersons) /\ Len(base) = k /\ Dorm!BagOf(base) = Dorm!BagOf(based)
  BY <1>2, <1>4, DormLoadedIs
<1>6. Dorm!BagOf(shown) = Dorm!Promised!EmptyBag /\ up = TRUE
  BY DormNoRecords DEF Dorm!Init
<1>. QED
  BY <1>3, <1>4, <1>5, <1>6 DEF DormIInv, Dorm!Promised!RegInit

LEMMA DormAddStep ==
  ASSUME DormIInv, Dorm!add_to_base_rb_consol
  PROVE  DormIInv' /\ Dorm!Promised!Enrol
<1>1. PICK r \in Students : base' = Dorm!Inserted(base, Dorm!Entered(r))
  BY DEF Dorm!add_to_base_rb_consol
<1>2. Dorm!Entered(r) \in DormPersons
  BY DEF DormPersons
<1>3. /\ base' \in Seq(DormPersons) /\ Len(base') = Len(base) + 1
      /\ Dorm!BagOf(base') = Dorm!Promised!With(Dorm!BagOf(base), Dorm!Entered(r))
  BY <1>1, <1>2, DormInsertedIs DEF DormIInv
<1>4. DormIInv'
  <2>1. Len(base) \in Nat /\ Len(base) < MaxStudents /\ MaxStudents \in Nat
    BY DormitoryAssumption DEF DormIInv, Dorm!add_to_base_rb_consol
  <2>. QED
    BY <1>3, <2>1 DEF DormIInv, Dorm!add_to_base_rb_consol, Dorm!Command
<1>5. Dorm!BagOf(shown') = Dorm!Promised!EmptyBag
  BY DormNoRecords DEF Dorm!add_to_base_rb_consol
<1>6. Dorm!Entered(r) = [r EXCEPT !.gender = "male"]
  BY DEF Dorm!Entered
<1>7. up /\ based' = based /\ up' = up
  BY DEF Dorm!add_to_base_rb_consol, Dorm!Command
<1>. QED
  BY <1>3, <1>4, <1>5, <1>6, <1>7 DEF Dorm!Promised!Enrol

LEMMA DormDeleteStep ==
  ASSUME DormIInv, Dorm!delete_from_base
  PROVE  DormIInv' /\ Dorm!Promised!Expel
<1>. DEFINE Found(r) == {i \in DOMAIN base : Dorm!Matches(r, base[i])}
<1>1. PICK r \in Students :
        base' = IF Found(r) = {} THEN base
                ELSE Dorm!delete_student(base, CHOOSE i \in Found(r) : \A j \in Found(r) : i <= j)
  BY DEF Dorm!delete_from_base
<1>2. up /\ based' = based /\ up' = up /\ Dorm!BagOf(shown') = Dorm!Promised!EmptyBag
  BY DormNoRecords DEF Dorm!delete_from_base, Dorm!Command
<1>3. DOMAIN Dorm!BagOf(base) = {base[i] : i \in DOMAIN base}
  BY DormBagOfIs DEF DormIInv, Dorm!RecordsOf
<1>4. \A s : Dorm!Matches(r, s) <=> Dorm!Promised!SameName(r, s)
  BY DEF Dorm!Matches, Dorm!Promised!SameName
<1>5. CASE Found(r) = {}
  <2>1. base' = base
    BY <1>1, <1>5
  <2>2. ~ (\E s \in DOMAIN Dorm!BagOf(base) : Dorm!Promised!SameName(r, s))
    BY <1>3, <1>4, <1>5
  <2>3. DormIInv'
    BY <1>2, <2>1 DEF DormIInv
  <2>4. Dorm!BagOf(base') = Dorm!BagOf(base)
    BY <2>1
  <2>. QED
    BY <1>2, <2>2, <2>3, <2>4 DEF Dorm!Promised!Expel
<1>6. CASE Found(r) # {}
  <2>1. Found(r) \in SUBSET Nat
    BY DEF DormIInv
  <2>2. \E i \in Found(r) : \A j \in Found(r) : i <= j
    <3>. HIDE DEF Found
    <3>. QED
      BY <1>6, <2>1, LeastElement
  <2>3. PICK i \in Found(r) : base' = Dorm!delete_student(base, i)
    <3>. HIDE DEF Found
    <3>. QED
      BY <1>1, <1>6, <2>2
  <2>4. i \in DOMAIN base /\ Dorm!Promised!SameName(r, base[i])
    BY <1>4
  <2>5. /\ base' \in Seq(DormPersons) /\ Len(base') = Len(base) - 1
        /\ Dorm!BagOf(base') = Dorm!Promised!Without(Dorm!BagOf(base), base[i])
    BY <2>3, <2>4, DormDeletedIs DEF DormIInv
  <2>6. DormIInv'
    BY <1>2, <2>5, DormitoryAssumption DEF DormIInv
  <2>7. base[i] \in DOMAIN Dorm!BagOf(base)
    BY <1>3, <2>4
  <2>. QED
    BY <1>2, <2>4, <2>5, <2>6, <2>7 DEF Dorm!Promised!Expel
<1>. QED
  BY <1>5, <1>6

LEMMA DormPrintStep ==
  ASSUME DormIInv, Dorm!print_base_console
  PROVE  DormIInv' /\ Dorm!Promised!Show
<1>1. up /\ based' = based /\ up' = up /\ base' = base /\ Dorm!BagOf(shown') = Dorm!BagOf(base)
  BY DEF Dorm!print_base_console, Dorm!Command
<1>. QED
  BY <1>1 DEF DormIInv, Dorm!Promised!Show

LEMMA DormFindStep ==
  ASSUME DormIInv, Dorm!poisk_data
  PROVE  DormIInv' /\ Dorm!Promised!Show
<1>. PICK q \in Students : \E kind \in DOMAIN q : Dorm!poisk_student(kind)
  BY DEF Dorm!poisk_data
<1>1. PICK kind \in DOMAIN q : Dorm!poisk_student(kind)
  OBVIOUS
<1>2. PICK r \in Students : shown' = Dorm!Agreeing(base, r, kind)
  BY <1>1 DEF Dorm!poisk_student
<1>3. up /\ based' = based /\ up' = up /\ base' = base
  BY <1>1 DEF Dorm!poisk_student, Dorm!Command
<1>4. kind \in DOMAIN r
  BY <1>1, DormitoryAssumption
<1>. DEFINE X == DormAgreeWith(DormPersons, r, kind)
            those == {s \in DOMAIN Dorm!BagOf(base) : s[kind] = r[kind]}
<1>5. Dorm!BagOf(shown') = DormOnly(Dorm!BagOf(base), X)
  <2>1. base \in Seq(DormPersons)
    BY DEF DormIInv
  <2>. QED
    BY <1>2, <2>1, DormAgreeingIs
<1>6. DOMAIN Dorm!BagOf(base) \subseteq DormPersons
  <2>1. base \in Seq(DormPersons) /\ DOMAIN Dorm!BagOf(base) = Dorm!RecordsOf(base)
    BY DormBagOfIs DEF DormIInv
  <2>. QED
    BY <2>1 DEF Dorm!RecordsOf
<1>7. DOMAIN Dorm!BagOf(base) \cap X = those
  BY <1>6 DEF DormAgreeWith
<1>8. Dorm!BagOf(shown') = [s \in those |-> Dorm!BagOf(base)[s]]
  BY <1>5, <1>7 DEF DormOnly
<1>9. Dorm!Promised!Show
  BY <1>3, <1>4, <1>8 DEF Dorm!Promised!Show
<1>. QED
  BY <1>3, <1>9 DEF DormIInv

LEMMA DormNextIInv ==
  DormIInv /\ [Dorm!Next]_(Dorm!vars)
      => DormIInv' /\ [Dorm!Promised!RegNext]_(Dorm!Promised!regVars)
<1>. SUFFICES ASSUME DormIInv, [Dorm!Next]_(Dorm!vars)
              PROVE  DormIInv' /\ [Dorm!Promised!RegNext]_(Dorm!Promised!regVars)
  OBVIOUS
<1>1. CASE UNCHANGED Dorm!vars
  <2>1. base' = base /\ based' = based /\ up' = up /\ shown' = shown
    BY <1>1 DEF Dorm!vars
  <2>. QED
    BY <2>1 DEF DormIInv, Dorm!Promised!regVars
<1>2. CASE Dorm!add_to_base_rb_consol
  BY <1>2, DormAddStep DEF Dorm!Promised!RegNext
<1>3. CASE Dorm!delete_from_base
  BY <1>3, DormDeleteStep DEF Dorm!Promised!RegNext
<1>4. CASE Dorm!print_base_console
  BY <1>4, DormPrintStep DEF Dorm!Promised!RegNext
<1>5. CASE Dorm!poisk_data
  BY <1>5, DormFindStep DEF Dorm!Promised!RegNext
<1>6. CASE Dorm!saving_data
  <2>1. /\ up /\ up' = FALSE /\ base' = base /\ Dorm!BagOf(based') = Dorm!BagOf(base)
        /\ Dorm!BagOf(shown') = Dorm!Promised!EmptyBag
    BY <1>6, DormNoRecords DEF Dorm!saving_data
  <2>2. DormIInv'
    BY <1>6, <2>1 DEF DormIInv, Dorm!saving_data
  <2>. QED
    BY <2>1, <2>2 DEF Dorm!Promised!Save, Dorm!Promised!RegNext
<1>7. CASE Dorm!WrongNumber
  <2>1. up /\ up' = FALSE /\ base' = base /\ based' = based /\ Dorm!BagOf(shown') = Dorm!Promised!EmptyBag
    BY <1>7, DormNoRecords DEF Dorm!WrongNumber
  <2>. QED
    BY <2>1 DEF DormIInv, Dorm!Promised!Quit, Dorm!Promised!RegNext
<1>8. CASE Dorm!Start
  <2>1. ~ up /\ up' = TRUE /\ based' = based /\ Dorm!BagOf(shown') = Dorm!Promised!EmptyBag
    BY <1>8, DormNoRecords DEF Dorm!Start
  <2>2. base' \in Seq(DormPersons) /\ Len(base') = Len(based) /\ Dorm!BagOf(base') = Dorm!BagOf(based)
    BY <1>8, DormLoadedIs DEF Dorm!Start, DormIInv
  <2>3. DormIInv'
    BY <2>1, <2>2 DEF DormIInv
  <2>. QED
    BY <2>1, <2>2, <2>3 DEF Dorm!Promised!Restart, Dorm!Promised!RegNext
<1>. QED
  BY <1>1, <1>2, <1>3, <1>4, <1>5, <1>6, <1>7, <1>8 DEF Dorm!Next

----------------------------------------------------------------------------
(* The invariants give types. *)

LEMMA ConsoleTyped == ConsoleIInv /\ ConsoleKeys => Console!TypeOK
<1>. SUFFICES ASSUME ConsoleIInv, ConsoleKeys PROVE Console!TypeOK
  OBVIOUS
<1>1. video \in [Console!Cells -> Console!Letters \cup {Console!Nul, Console!Hash, Console!Text}]
  BY DEF ConsoleIInv, ConsoleScreenTypes, ConsoleCharacters
<1>. QED
  BY <1>1 DEF ConsoleIInv, ConsoleLineInv, ConsoleLineTypes, ConsoleScreenTypes, ConsoleKeys,
     Console!TypeOK

LEMMA ConvertTyped == ConvertIInv => Convert!TypeOK
<1>. SUFFICES ASSUME ConvertIInv PROVE Convert!TypeOK
  OBVIOUS
<1>. DEFINE Kinds == {"error", "numeral", "size", "nothing"}
<1>1. /\ \A message : Convert!Error(message).kind \in Kinds
      /\ \A digits : Convert!Numeral(digits).kind \in Kinds
      /\ \A integer, d1, d2 : Convert!Size(integer, d1, d2).kind \in Kinds
      /\ Convert!Nothing.kind \in Kinds
  BY DEF Convert!Error, Convert!Numeral, Convert!Size, Convert!Nothing
<1>. HIDE DEF Kinds
<1>2. \A digits, from, to : Convert!NsConv(digits, from, to).kind \in Kinds
  BY <1>1 DEF Convert!NsConv
<1>3. ASSUME NEW digits, NEW from, NEW to
      PROVE  Convert!SzConv(digits, from, to).kind \in Kinds
  <2>. PICK k : k = Convert!ValueOf(digits, 10)
    OBVIOUS
  <2>1. \A i : Convert!InBytes(k, i).kind \in Kinds
    BY <1>1 DEF Convert!InBytes
  <2>2. \A i, j : Convert!InMultiple(k, i, j).kind \in Kinds
    BY <1>1 DEF Convert!InMultiple
  <2>3. \A i : Convert!InTera(k, i).kind \in Kinds
    BY <1>1 DEF Convert!InTera, Convert!Division
  <2>4. Convert!Converted(k, from, to).kind \in Kinds
    BY <1>1, <2>1, <2>2, <2>3 DEF Convert!Converted
  <2>. QED
    BY <1>1, <2>4 DEF Convert!SzConv
<1>4. answer.kind \in Kinds
  BY <1>1, <1>2, <1>3 DEF ConvertIInv
<1>. QED
  BY <1>4 DEF ConvertIInv, Convert!TypeOK, Kinds

LEMMA StringTyped == SP!IsString(str) => String!TypeOK
BY DEF SP!IsString, SP!Byte, SP!Nul, SP!Junk, String!TypeOK, String!Nul, String!Junk

LEMMA FilesTypeOK == FilesIInv => Files!TypeOK
<1>. SUFFICES ASSUME FilesIInv PROVE Files!TypeOK
  OBVIOUS
<1>1. \A path \in Paths : files[path] = NoFile \/ files[path] \in Seq(Nat)
  BY DEF FilesIInv, FilesTyped
<1>2. ASSUME NEW c \in Clients
      PROVE  /\ client[c].at \in FilesPlaces
             /\ client[c].user \in Users \cup {Files!None}
             /\ client[c].token \in Users \cup {Files!None}
             /\ client[c].size \in Nat /\ client[c].path \in Paths
  <2>1. client[c] \in FilesRemembered
    BY DEF FilesIInv, FilesTyped
  <2>. QED
    BY <2>1 DEF FilesRemembered
<1>. QED
  BY <1>1, <1>2 DEF FilesIInv, FilesTyped, Files!TypeOK, FilesPlaces

LEMMA DateTyped == DateIInv => Dates!TypeOK
BY DEF DateIInv, Dates!TypeOK

LEMMA DormTyped == DormIInv => Dorm!TypeOK
BY DEF DormIInv, DormPersons, Dorm!TypeOK

----------------------------------------------------------------------------
(* The programs together. *)

\* A step of the composition is a step of the program that runs, or none of its.
LEMMA RunsConsole ==
  ASSUME [Next]_vars, program = "console"
  PROVE  program' = program /\ [Console!Next]_(Console!consoleVars)
<1>1. CASE UNCHANGED vars
  BY <1>1 DEF vars, consoleVars, convertVars, dateVars, searchVars, filesVars, crosswordVars,
     dormVars, commentVars, kernelVars, textVars, listVars, Console!consoleVars,
     Console!screenVars, Console!lineVars, Console!keyVars
<1>2. CASE Next
  BY <1>2 DEF Next, Runs
<1>. QED
  BY <1>1, <1>2

LEMMA RunsConvert ==
  ASSUME [Next]_vars, program = "convert"
  PROVE  program' = program /\ [Convert!Next]_(Convert!convertVars)
<1>1. CASE UNCHANGED vars
  BY <1>1 DEF vars, consoleVars, convertVars, dateVars, searchVars, filesVars, crosswordVars,
     dormVars, commentVars, kernelVars, textVars, listVars, Convert!convertVars
<1>2. CASE Next
  BY <1>2 DEF Next, Runs
<1>. QED
  BY <1>1, <1>2

LEMMA RunsSearch ==
  ASSUME [Next]_vars, program = "search"
  PROVE  program' = program /\ [Search!Next]_(Search!searchVars)
<1>1. CASE UNCHANGED vars
  BY <1>1 DEF vars, consoleVars, convertVars, dateVars, searchVars, filesVars, crosswordVars,
     dormVars, commentVars, kernelVars, textVars, listVars, Search!searchVars
<1>2. CASE Next
  BY <1>2 DEF Next, Runs
<1>. QED
  BY <1>1, <1>2

LEMMA RunsCrossword ==
  ASSUME [Next]_vars, program = "crossword"
  PROVE  program' = program /\ [Crossword!Next]_(Crossword!vars)
<1>1. CASE UNCHANGED vars
  BY <1>1 DEF vars, consoleVars, convertVars, dateVars, searchVars, filesVars, crosswordVars,
     dormVars, commentVars, kernelVars, textVars, listVars, Crossword!vars
<1>2. CASE Next
  BY <1>2 DEF Next, Runs
<1>. QED
  BY <1>1, <1>2

LEMMA RunsString ==
  ASSUME [Next]_vars, program = "string"
  PROVE  program' = program /\ [String!Next]_(str)
<1>1. CASE UNCHANGED vars
  BY <1>1 DEF vars, consoleVars, convertVars, dateVars, searchVars, filesVars, crosswordVars,
     dormVars, commentVars, kernelVars, textVars, listVars
<1>2. CASE Next
  BY <1>2 DEF Next, Runs
<1>. QED
  BY <1>1, <1>2

LEMMA RunsFiles ==
  ASSUME [Next]_vars, program = "files"
  PROVE  program' = program /\ [Files!Next]_(Files!vars)
<1>1. CASE UNCHANGED vars
  BY <1>1 DEF vars, consoleVars, convertVars, dateVars, searchVars, filesVars, crosswordVars,
     dormVars, commentVars, kernelVars, textVars, listVars, Files!vars, Files!serverVars
<1>2. CASE Next
  BY <1>2 DEF Next, Runs
<1>. QED
  BY <1>1, <1>2

LEMMA RunsDates ==
  ASSUME [Next]_vars, program = "date"
  PROVE  program' = program /\ [Dates!Next]_(Dates!dateVars)
<1>1. CASE UNCHANGED vars
  BY <1>1 DEF vars, consoleVars, convertVars, dateVars, searchVars, filesVars, crosswordVars,
     dormVars, commentVars, kernelVars, textVars, listVars, Dates!dateVars
<1>2. CASE Next
  BY <1>2 DEF Next, Runs
<1>. QED
  BY <1>1, <1>2

LEMMA RunsDorm ==
  ASSUME [Next]_vars, program = "dormitory"
  PROVE  program' = program /\ [Dorm!Next]_(Dorm!vars)
<1>1. CASE UNCHANGED vars
  BY <1>1 DEF vars, consoleVars, convertVars, dateVars, searchVars, filesVars, crosswordVars,
     dormVars, commentVars, kernelVars, textVars, listVars, Dorm!vars
<1>2. CASE Next
  BY <1>2 DEF Next, Runs
<1>. QED
  BY <1>1, <1>2

\* The inductive invariant.
IInv ==
  /\ program = "console" => ConsoleIInv /\ ConsoleKeys
  /\ program = "convert" => ConvertIInv
  /\ program = "search" => SearchIInv
  /\ program = "crossword" => CrossIInv
  /\ program = "string" => SP!IsString(str)
  /\ program = "files" => FilesIInv
  /\ program = "date" => DateIInv
  /\ program = "dormitory" => DormIInv
  /\ program = "comments" => CommIInv

LEMMA InitIInv == Init => IInv
<1>. SUFFICES ASSUME Init PROVE IInv
  OBVIOUS
<1>1. program = "console" => ConsoleIInv /\ ConsoleKeys
  BY ConsoleInitIInv, ConsoleInitKeys DEF Init
<1>2. program = "convert" => ConvertIInv
  BY ConvertInitIInv DEF Init
<1>3. program = "search" => SearchIInv
  BY SearchInitIInv DEF Init
<1>4. program = "crossword" => CrossIInv
  BY CrossInitIInv DEF Init
<1>5. program = "string" => SP!IsString(str)
  BY InitString, SameStrings DEF Init
<1>6. program = "files" => FilesIInv
  BY FilesInitIInv DEF Init
<1>7. program = "date" => DateIInv
  BY DateInitIInv DEF Init
<1>8. program = "dormitory" => DormIInv
  BY DormInitIInv DEF Init
<1>9. program = "comments" => CommIInv
  BY CommInitIInv DEF Init
<1>. QED
  BY <1>1, <1>2, <1>3, <1>4, <1>5, <1>6, <1>7, <1>8, <1>9 DEF IInv

LEMMA NextIInv == IInv /\ [Next]_vars => IInv'
<1>. SUFFICES ASSUME IInv, [Next]_vars PROVE IInv'
  OBVIOUS
<1>0. program' = program
  BY DEF Next, Runs, vars
<1>1. program = "console" => (ConsoleIInv /\ ConsoleKeys)'
  BY RunsConsole, ConsoleNextIInv, ConsoleNextKeys DEF IInv
<1>2. program = "convert" => (ConvertIInv)'
  BY RunsConvert, ConvertNextIInv DEF IInv
<1>3. program = "search" => (SearchIInv)'
  BY RunsSearch, SearchNextIInv DEF IInv
<1>4. program = "crossword" => (CrossIInv)'
  BY RunsCrossword, CrossNextIInv DEF IInv
<1>5. program = "string" => (SP!IsString(str))'
  BY RunsString, NextString, SameStrings DEF IInv
<1>6. program = "files" => (FilesIInv)'
  BY RunsFiles, FilesNextIInv DEF IInv
<1>7. program = "date" => (DateIInv)'
  BY RunsDates, DateNextIInv DEF IInv
<1>8. program = "dormitory" => (DormIInv)'
  BY RunsDorm, DormNextIInv DEF IInv
<1>9. program = "comments" => (CommIInv)'
  BY RunsComments, CommNextIInv DEF IInv
<1>. QED
  BY <1>0, <1>1, <1>2, <1>3, <1>4, <1>5, <1>6, <1>7, <1>8, <1>9 DEF IInv

LEMMA AlwaysIInv == Spec => []IInv
BY InitIInv, NextIInv, PTL DEF Spec

----------------------------------------------------------------------------
(* What the programs promise, as the runs check it. *)

\* kernel.cpp: whatever the keys, the line fits its buffer, ends where its count says,
\* and every character that will be executed is on the screen in its order
\* (keyb_process_keys, out_char).
THEOREM LineShown == Spec => []ConsoleLine
<1>1. IInv => ConsoleLine
  BY ConsoleHolds DEF IInv, ConsoleLine
<1>. QED
  BY <1>1, AlwaysIInv, PTL

\* kernel.cpp: a number is printed in its new base modulo 2^32, and from base 10 only if it is
\* below that; a size is printed rounded down, in bytes modulo 2^32, and in other units only
\* if it is below that; "overflow" is said of a decimal numeral that is no number, too long or
\* not below 2^32, of a size that is not below it, and of terabytes in gigabytes from
\* 4096 on.  Hundredths are right where nothing is divided and in terabytes from megabytes on
\* (nsconv, szconv, overflow, in_byte, in_kbyte, in_mbyte, in_gbyte, in_tbyte).
THEOREM ConversionsRight == Spec => []ConversionsExact
<1>1. IInv => ConversionsExact
  BY ConvertHolds DEF IInv, ConversionsExact
<1>. QED
  BY <1>1, AlwaysIInv, PTL

\* chess.cpp: for any board and any number of pieces but none, the number that is written
\* is that of the placements of so many pieces besides the preset ones, no two of which
\* attack each other (seed_tasks, dfs_count, main).
THEOREM PlacementsFound == Spec => []PlacementsCounted
<1>1. IInv => PlacementsCounted
  BY SearchHolds DEF IInv, PlacementsCounted
<1>. QED
  BY <1>1, AlwaysIInv, PTL

\* Island.cpp: the search prints grids that solve the puzzle, none of them twice, and when
\* it is over it has missed none (trytry, field_checking, all_to_left, win).
THEOREM SolutionsFound == Spec => []SolutionsExact
<1>1. IInv => SolutionsExact
  BY CrossHolds DEF IInv, SolutionsExact
<1>. QED
  BY <1>1, AlwaysIInv, PTL

\* MyString.cpp: every edit makes of a string what it makes of a sequence, within its
\* buffer, after any calls (insert, append, erase, replace, operator=).
THEOREM EditsLikeSequences == Spec => []EditsRight
<1>1. IInv => EditsRight
  BY EditsOfStrings, SameStrings DEF IInv, EditsRight
<1>. QED
  BY <1>1, AlwaysIInv, PTL

\* MyString.cpp: comparisons, searches, parts and sums are those of sequences
\* (compare, find, substr, operator+).
THEOREM QueriesLikeSequences == Spec => []QueriesRight
<1>1. IInv => QueriesRight
  BY QueriesOfStrings, SameStrings DEF IInv, QueriesRight
<1>. QED
  BY <1>1, AlwaysIInv, PTL

\* server.cpp: a client acts as the user it logged in as until another one logs in,
\* though all clients share one token and one name (Authentication, Exit_User).
THEOREM ActsAsItself == Spec => []OwnIdentity
<1>1. IInv => OwnIdentity
  BY FilesHold DEF IInv, OwnIdentity
<1>. QED
  BY <1>1, AlwaysIInv, PTL

\* server.cpp, client.cpp: a download is the file, whole, if nobody touches it between
\* the call for its size and the call for its bytes (Get_Size_File, Download_File).
THEOREM CalmDownloads == Spec => []DownloadsIntact
<1>1. IInv => DownloadsIntact
  BY FilesHold DEF IInv, DownloadsIntact
<1>. QED
  BY <1>1, AlwaysIInv, PTL

\* kernel.cpp: the date that is printed for a day is the one a calendar shows that was
\* advanced to it day by day, and the time is that of the seconds (date).
THEOREM DatesCounted == Spec => []DateRight
<1>1. IInv => DateRight
  BY DateHolds DEF IInv, DateRight
<1>. QED
  BY <1>1, AlwaysIInv, PTL


\* The variables of the program that runs hold values of their types: what the screen,
\* the line, a string's buffer, a list or a copied file may hold, and where a cursor, a
\* row or a place in a file may be (every Next of the nine programs).
THEOREM TypesKept == Spec => []TypeOK
<1>1. IInv => TypeOK
  BY ConsoleTyped, ConvertTyped, DateTyped, SearchTyped, StringTyped, FilesTypeOK, CrossTyped,
     DormTyped, CommTyped DEF IInv, TypeOK
<1>. QED
  BY <1>1, AlwaysIInv, PTL

\* DataBase Dormitories.cpp: the list and its file implement the bag of Register: no
\* command, save, lost session or restart loses, repeats or changes another student's
\* record (add_from_file, add_to_base_rb_consol, delete_student, saving_data).
THEOREM ListKeepsRegister == Spec => KeepsRegister
<1>. DEFINE Step == program = "dormitory" => [Dorm!Promised!RegNext]_(Dorm!Promised!regVars)
<1>1. Init => (program = "dormitory" => Dorm!Promised!RegInit)
  BY DormInitIInv DEF Init
<1>2. IInv /\ [Next]_vars => Step
  BY RunsDorm, DormNextIInv DEF IInv
<1>3. Spec => [][Step]_vars
  <2>. HIDE DEF Step
  <2>. QED
    BY <1>2, AlwaysIInv, PTL DEF Spec
<1>. QED
  BY <1>1, <1>3, PTL DEF Spec, KeepsRegister
=============================================================================
