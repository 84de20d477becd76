---------------------------- MODULE KernelConsole ----------------------------
(***************************************************************************)
(* The console of the kernel (2/ОСИ/ОС1/kernel.cpp): the video memory, the *)
(* cursor, and the line that the keyboard handler collects and hands to    *)
(* parsing_command.  The handler runs with interrupts off and start() ends *)
(* before the first key, so a key press is one step.                       *)
(*                                                                         *)
(* What a command prints is not told from its name: a command prints some  *)
(* lines of text, or clears the screen, or turns the machine off.          *)
(***************************************************************************)
EXTENDS MachineConstants

VARIABLES
  video,        \* the characters of the video memory, row after row
  cur_strnum, cur_position,
  str_inputing, \* the line, ended by a Nul
  string_count, \* its length
  lshift, rshift, caps,
  powered       \* FALSE once a shutdown has been sent to the port

screenVars == <<video, cur_strnum, cur_position>>
lineVars == <<str_inputing, string_count>>
keyVars == <<lshift, rshift, caps>>
consoleVars == <<screenVars, lineVars, keyVars, powered>>

Nul == "nul"
Hash == "#"
Text == "t"            \* any character of a printed text
Letters == {"a", "A"}  \* one key, without and with shift
Prompt == 2            \* the "# " that out_hash writes

At(row, position) == row * Width + position

\* The rows of the screen, and behind them what tabs reach.
Cells == 0 .. At(LastRow + 2, MaxPos)
Blank == [c \in Cells |-> Nul]

Cleared == [k \in 0 .. StrLen |-> Nul]

\* memset leaves the last of the STR_LEN + 1 characters alone.
Memset(str) == [k \in 0 .. StrLen |-> IF k < StrLen THEN Nul ELSE str[k]]

\* A slip: the last row is one more.
ScrolledPast(screen) ==
  IF screen.row # LastRow + 1 THEN [screen EXCEPT !.row = @ + 1] ELSE screen

\* What scrolling_screen makes of the memory and the row.
Scrolled(screen) ==
  IF screen.row # LastRow
  THEN [screen EXCEPT !.row = @ + 1]
  ELSE [screen EXCEPT !.cells =
          [c \in Cells |-> IF c < At(LastRow, 0) THEN screen.cells[c + Width]
                           ELSE IF c < At(LastRow + 1, 0) THEN Nul ELSE screen.cells[c]]]

\* output_string(text, row): it scrolls whatever row it wrote to.
Printed(screen, row) ==
  Scrolled([screen EXCEPT !.cells =
              [c \in Cells |-> IF c \in At(row, 0) .. At(row, TextLen - 1) THEN Text ELSE @[c]]])

\* A command that prints n lines, one after the other.
PrintedLines(screen, n) ==
  LET printed[k \in 0 .. n] == IF k = 0 THEN screen ELSE Printed(printed[k - 1], printed[k - 1].row)
  IN printed[n]

\* wintime prints the date and then "bag catch", always on row 0.
PrintedWintime(screen) == Printed(Printed(screen, screen.row), 0)

\* clear(): the rows of the screen.
ClearScreen(screen) ==
  [cells |-> [c \in Cells |-> IF c < At(LastRow + 2, 0) THEN Nul ELSE screen.cells[c]], row |-> 0]

\* What parsing_command may make of the screen: the empty line is no command.
Outcomes(screen, line) ==
  IF line[0] = Nul THEN {Printed(screen, screen.row)}
  ELSE {PrintedLines(screen, n) : n \in 0 .. MaxPrints}
         \cup {PrintedWintime(screen), ClearScreen(screen)}

\* out_hash, with the cursor at the start of the row.
WithHash(screen) ==
  [screen EXCEPT !.cells[At(screen.row, 0)] = Hash, !.cells[At(screen.row, 1)] = Nul]

Show(screen) == video' = screen.cells /\ cur_strnum' = screen.row

\* start(): the memory is blank, one line is printed, the prompt is shown.
Init ==
  /\ LET screen == WithHash(Printed([cells |-> Blank, row |-> 0], 0))
     IN video = screen.cells /\ cur_strnum = screen.row
  /\ cur_position = Prompt
  /\ str_inputing = Cleared /\ string_count = 0
  /\ lshift = FALSE /\ rshift = FALSE /\ caps = FALSE
  /\ powered = TRUE

\* input_string: the shift key is not held, it is for the next character.
Symbol == IF (lshift \/ rshift) = caps THEN "a" ELSE "A"

\* out_char.
Echo(symbol) ==
  /\ video' = [video EXCEPT ![At(cur_strnum, cur_position)] = symbol]
  /\ IF cur_position < StrLen + 2
     THEN /\ str_inputing' = [str_inputing EXCEPT ![string_count] = symbol]
          /\ cur_position' = cur_position + 1
          /\ string_count' = string_count + 1
     ELSE UNCHANGED <<str_inputing, cur_position, string_count>>

Letter ==
  /\ IF cur_position # StrLen THEN Echo(Symbol) ELSE UNCHANGED <<video, cur_position, lineVars>>
  /\ lshift' = FALSE /\ rshift' = FALSE
  /\ UNCHANGED <<cur_strnum, caps, powered>>

ShiftKey ==
  /\ \/ lshift' = TRUE /\ UNCHANGED rshift
     \/ rshift' = TRUE /\ UNCHANGED lshift
  /\ UNCHANGED <<screenVars, lineVars, caps, powered>>

CapsLock == caps' = ~caps /\ UNCHANGED <<screenVars, lineVars, lshift, rshift, powered>>

\* A slip: the erased character stays in the line.
BackspaceKeeping ==
  /\ video' = [video EXCEPT ![At(cur_strnum, cur_position) - 1] = Nul]
  /\ cur_position' = IF cur_position > Prompt THEN cur_position - 1 ELSE cur_position
  /\ string_count' = IF string_count > 0 THEN string_count - 1 ELSE 0
  /\ UNCHANGED <<cur_strnum, str_inputing, keyVars, powered>>

Backspace ==
  /\ video' = [video EXCEPT ![At(cur_strnum, cur_position) - 1] = Nul]
  /\ cur_position' = IF cur_position > Prompt THEN cur_position - 1 ELSE cur_position
  /\ LET n == IF string_count > 0 THEN string_count - 1 ELSE 0
     IN string_count' = n /\ str_inputing' = [str_inputing EXCEPT ![n] = Nul]
  /\ UNCHANGED <<cur_strnum, keyVars, powered>>

\* The line is not told of the tab; after the left shift key nothing happens.
Tab ==
  /\ ~lshift
  /\ cur_position + 4 <= MaxPos
  /\ cur_position' = cur_position + 4
  /\ UNCHANGED <<video, cur_strnum, lineVars, keyVars, powered>>

\* The line is executed, whatever the cursor says, and a new prompt is shown.
Enter ==
  /\ LET line == [str_inputing EXCEPT ![string_count] = Nul]
         screen == Scrolled([cells |-> video, row |-> cur_strnum])
     IN /\ \E outcome \in Outcomes(screen, line) : Show(WithHash(outcome))
        /\ str_inputing' = Memset(line)
  /\ cur_position' = Prompt
  /\ string_count' = 0
  /\ UNCHANGED <<keyVars, powered>>

\* The command shutdown or exit: the machine is off, and its memory is lost.
PowerOff ==
  /\ string_count > 0
  /\ powered' = FALSE
  /\ video' = Blank /\ cur_strnum' = 0
  /\ cur_position' = Prompt
  /\ str_inputing' = Cleared /\ string_count' = 0
  /\ lshift' = FALSE /\ rshift' = FALSE /\ caps' = FALSE

\* keyb_process_keys.
Next ==
  /\ powered
  /\ Letter \/ ShiftKey \/ CapsLock \/ Backspace \/ Tab \/ Enter \/ PowerOff

Spec == Init /\ [][Next]_consoleVars

----------------------------------------------------------------------------
\* Types.
TypeOK ==
  /\ video \in [Cells -> Letters \cup {Nul, Hash, Text}]
  /\ cur_strnum \in 0 .. LastRow
  /\ cur_position \in Nat
  /\ str_inputing \in [0 .. StrLen -> Letters \cup {Nul}]
  /\ string_count \in Nat
  /\ <<lshift, rshift, caps>> \in BOOLEAN \X BOOLEAN \X BOOLEAN
  /\ powered \in BOOLEAN

\* Letters, tabs and backspaces in any order leave a line that fits the buffer
\* of a command with its end, and nothing of an erased or executed line behind
\* the end: parsing_command and nsconv find the end by reading, not by the count.
LineFits ==
  /\ string_count < StrLen - 1
  /\ \A k \in 0 .. StrLen : str_inputing[k] = Nul <=> k >= string_count

\* What the cursor's row shows of the line, without the gaps that tabs leave.
Shown == [k \in 1 .. cur_position - Prompt |-> video[At(cur_strnum, Prompt + k - 1)]]
Line == [k \in 1 .. string_count |-> str_inputing[k - 1]]

\* Every character that will be executed is on the screen, in this order; and
\* while the cursor says that no tab is between them, nothing else is.
LineIsShown ==
  /\ powered => video[At(cur_strnum, 0)] = Hash
  /\ IF cur_position = Prompt + string_count THEN Shown = Line
     ELSE \E f \in [1 .. string_count -> 1 .. Len(Shown)] :
            \A k \in 1 .. string_count :
              Shown[f[k]] = Line[k] /\ (k > 1 => f[k - 1] < f[k])
=============================================================================
