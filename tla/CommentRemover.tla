---------------------------- MODULE CommentRemover ----------------------------
(***************************************************************************)
(* The program that copies a C file without its comments (1/.../Удаление   *)
(* комментариев/Удаление комментариев.cpp).  An iteration of its loop      *)
(* reads two symbols, passes them through a row of functions that set and  *)
(* test flags, and as a rule seeks back to the second.                     *)
(*                                                                         *)
(* A flag is in flags when it is 1.  An action is a way through the loop,  *)
(* named for what it does; flag_continue leaves an iteration at once, but  *)
(* the one that flag_transfer_comment_1 sets is found by the next.         *)
(***************************************************************************)
EXTENDS MachineConstants

VARIABLES text, pos, eof, flags, out
vars == <<text, pos, eof, flags, out>>

Cr == "CR"
Lf == "LF"
Ends == {Cr, Lf}
Eof == "EOF"
Slash == "/"
Star == "*"
Quote == "'"
DoubleQuote == "\""
Backslash == "\\"

InComments == {"in_comment", "comment", "transfer_comment"}
InLiterals == {"in_str", "in_one_str"}

Has(f, names) == f \cap names # {}
Put(f, name, b) == IF b THEN f \cup {name} ELSE f \ {name}

----------------------------------------------------------------------------
\* The two reads at the head of the loop.

At(k) == IF k < Len(text) THEN text[k + 1] ELSE Eof
simvol1 == At(pos)
simvol2 == At(pos + 1)
Pair == <<simvol1, simvol2>>

\* The second read, at least, has met the end.
AtEnd == simvol2 = Eof
Behind == IF AtEnd THEN Len(text) ELSE pos + 2

\* A slip: a continued line is not told from a new one.
check_new_lineAlways(f) ==
  IF simvol1 # Lf THEN f
  ELSE (f \ (InLiterals \cup {"transfer_str", "transfer_false_symbol"})) \cup {"false_symbol"}

\* A line begins: a literal is closed unless it has been continued, and a
\* backslash is no escape unless the line before it has been.
check_new_line(f) ==
  IF simvol1 # Lf THEN f
  ELSE Put(Put(f \ {"in_one_str", "transfer_str", "transfer_false_symbol"},
               "in_str", "transfer_str" \in f),
           "false_symbol", "transfer_false_symbol" \notin f)

check_false_symbol(f) == IF simvol1 # Backslash THEN f \ {"false_symbol"} ELSE f

check_transfer_str(f) ==
  IF simvol1 # Backslash \/ simvol2 \notin Ends \/ Has(f, InComments) THEN f
  ELSE f \cup {"transfer_false_symbol"}
         \cup (IF "in_str" \in f THEN {"transfer_str"} ELSE {})

\* The flags that the rest of the iteration tests.
Known == check_transfer_str(check_new_line(check_false_symbol(flags)))

----------------------------------------------------------------------------
\* What the flags and the symbols make the iteration do.

Lingers == "continue" \in flags
Escapes ==
  simvol1 = Backslash /\ simvol2 # Slash /\ ~ Has(Known, InComments \cup {"false_symbol"})
OpensLiteral == simvol1 = Quote /\ ~ Has(Known, InComments \cup InLiterals)
ClosesLiteral == simvol1 = Quote /\ "in_one_str" \in Known /\ "in_str" \notin Known
OpensString == simvol1 = DoubleQuote /\ ~ Has(Known, InComments \cup InLiterals)
ClosesString == simvol1 = DoubleQuote /\ "in_str" \in Known /\ "in_one_str" \notin Known
OpensComment ==
  Pair = <<Slash, Star>> /\ ~ Has(Known, InLiterals \cup {"in_comment", "comment"})
ClosesComment == Pair = <<Star, Slash>> /\ "in_comment" \in Known /\ ~ Has(Known, InLiterals)
OpensLine == Pair = <<Slash, Slash>> /\ ~ Has(Known, InLiterals \cup {"in_comment"})
EndsLine == simvol1 \in Ends /\ "comment" \in Known
ContinuesLine == simvol1 = Backslash /\ simvol2 \in Ends /\ "comment" \in Known
EndsTransferred ==
  simvol1 # Backslash /\ simvol2 \in Ends \cup {Backslash} /\ "transfer_comment" \in Known
SkipsTransferred ==
  simvol1 = Backslash /\ simvol2 \in Ends \cup {Backslash} /\ "transfer_comment" \in Known

----------------------------------------------------------------------------
Init ==
  /\ text \in CFiles
  /\ pos = 0 /\ eof = FALSE /\ flags = {"false_symbol"} /\ out = <<>>

\* The iteration ends without a seek that clears the end of the file.  At the end
\* nothing is written but, behind the loop, the last symbol.
EndsWith(written, f, to) ==
  /\ flags' = f /\ eof' = AtEnd
  /\ pos' = IF AtEnd THEN Behind ELSE to
  /\ out' = out \o (IF ~ AtEnd THEN written
                    ELSE IF simvol1 = Eof \/ Has(f, InComments) THEN <<>> ELSE <<simvol1>>)
  /\ UNCHANGED text

\* It ends with one that does.
Seeks(to, f) == flags' = f /\ eof' = FALSE /\ pos' = to /\ UNCHANGED <<text, out>>

Linger == Lingers /\ EndsWith(<<>>, Known \ {"continue"}, Behind)

Escape == ~ Lingers /\ Escapes /\ EndsWith(Pair, Known, Behind)

OpenLiteral ==
  ~ Lingers /\ OpensLiteral /\ EndsWith(<<simvol1>>, Known \cup {"in_one_str"}, pos + 1)

\* flag_in_str_0
CloseString ==
  /\ ~ Lingers /\ ClosesString
  /\ EndsWith(IF Has(Known, InComments) THEN <<>> ELSE <<simvol1>>, Known \ {"in_str"}, pos + 1)

\* flag_in_comment_0
CloseComment == ~ Lingers /\ ClosesComment /\ EndsWith(<<>>, Known \ {"in_comment"}, Behind)

\* flag_in_comment_1: the symbol it skips is the one seek() goes back to.
OpenComment == ~ Lingers /\ OpensComment /\ Seeks(Behind, Known \cup {"in_comment"})

\* flag_comment_0: the end of the line is read again, as code.
EndLine == ~ Lingers /\ EndsLine /\ Seeks(Behind - 2, Known \ {"comment"})

\* flag_transfer_comment_1, where continue lingers.
ContinueLine ==
  /\ ~ Lingers /\ ContinuesLine
  /\ LET skipped == (IF SkipsTransferred THEN 1 ELSE 0) + (IF simvol2 = Cr THEN 1 ELSE 0)
     IN Seeks(Behind + skipped - 1, (Known \ {"comment"}) \cup {"transfer_comment", "continue"})

\* flag_transfer_comment_0
EndTransferred ==
  /\ ~ Lingers /\ EndsTransferred /\ ~ ClosesString /\ ~ EndsLine
  /\ Seeks(Behind - 1, (Known \ {"transfer_comment"})
                         \ (IF ClosesLiteral THEN {"in_one_str"} ELSE {}))
SkipTransferred ==
  ~ Lingers /\ SkipsTransferred /\ ~ ContinuesLine /\ Seeks(Behind, Known)

\* Any other symbol is written unless it is in a comment.
Pass ==
  /\ ~ (Lingers \/ Escapes \/ OpensLiteral \/ ClosesString \/ ClosesComment \/ OpensComment)
  /\ ~ (EndsLine \/ ContinuesLine \/ EndsTransferred \/ SkipsTransferred)
  /\ LET f == (Known \ (IF ClosesLiteral THEN {"in_one_str"} ELSE {}))
                \cup (IF OpensString THEN {"in_str"} ELSE {})
                \cup (IF OpensLine THEN {"comment"} ELSE {})
     IN EndsWith(IF Has(f, InComments) THEN <<>> ELSE <<simvol1>>, f, pos + 1)

\* deleting_of_comments
Next ==
  /\ ~ eof
  /\ \/ Linger \/ Escape \/ OpenLiteral \/ CloseString \/ CloseComment \/ OpenComment
     \/ EndLine \/ ContinueLine \/ EndTransferred \/ SkipTransferred \/ Pass

Spec == Init /\ [][Next]_vars

----------------------------------------------------------------------------
TypeOK ==
  /\ pos \in 0 .. Len(text) /\ eof \in BOOLEAN
  /\ flags \subseteq InComments \cup InLiterals
       \cup {"false_symbol", "transfer_str", "transfer_false_symbol", "continue"}
  /\ \A i \in DOMAIN out : \E k \in DOMAIN text : out[i] = text[k]

Modes == {"code", "line", "block", "str", "one_str"}

\* Two symbols of a file, and a line that goes on in the next.
Pairs(file, i, a, b) == i < Len(file) /\ file[i] = a /\ file[i + 1] = b
Continued(file, i) == Pairs(file, i, Backslash, Cr)

\* The token that begins at a symbol: what it belongs to, its symbols, and the mode
\* behind it.
Token(file, i, mode) ==
  LET tok(kind, len, then) == [mode |-> kind, len |-> len, then |-> then]
      closing == IF mode = "str" THEN DoubleQuote ELSE Quote
  IN CASE mode = "code" ->
            IF Pairs(file, i, Slash, Slash) THEN tok("line", 2, "line")
            ELSE IF Pairs(file, i, Slash, Star) THEN tok("block", 2, "block")
            ELSE tok("code", 1, IF file[i] = DoubleQuote THEN "str"
                                ELSE IF file[i] = Quote THEN "one_str" ELSE "code")
       [] mode = "line" ->
            IF Continued(file, i) THEN tok("line", 3, "line")
            ELSE IF file[i] = Cr THEN tok("code", 2, "code") ELSE tok("line", 1, "line")
       [] mode = "block" ->
            IF Pairs(file, i, Star, Slash) THEN tok("block", 2, "code") ELSE tok("block", 1, "block")
       [] OTHER ->
            IF Continued(file, i) THEN tok(mode, 3, mode)
            ELSE IF file[i] = Backslash /\ i < Len(file) THEN tok(mode, 2, mode)
            ELSE tok(mode, 1, IF file[i] \in {closing, Cr} THEN "code" ELSE mode)

\* What is left, from a symbol on, of a file without its comments.
Uncommented(file) ==
  LET rest[i \in 1 .. Len(file) + 3] ==
        [mode \in Modes |->
           IF i > Len(file) THEN <<>>
           ELSE LET t == Token(file, i, mode)
                IN (IF t.mode \in {"line", "block"} THEN <<>>
                    ELSE SubSeq(file, i, i + t.len - 1)) \o rest[i + t.len][t.then]]
  IN rest[1]["code"]

\* Two symbols at least, no backslash and no opening of a comment up to the next
\* end of line.
PlainLine(file, i) ==
  \E end \in i .. Len(file) + 1 :
    /\ end = Len(file) + 1 \/ (file[end] = Cr /\ end >= i + 2)
    /\ \A k \in i .. end - 1 : file[k] \notin {Cr, Backslash} /\ ~ Pairs(file, k, Slash, Star)

\* What the program is written for: in code a backslash stands only before the end
\* of a line, no character literal goes on in the next line, and a comment of one
\* line goes on in plain lines.
Usual(file) ==
  LET usual[i \in 1 .. Len(file) + 3] ==
        [mode \in Modes |->
           \/ i > Len(file)
           \/ LET t == Token(file, i, mode)
              IN /\ t.mode = "code" /\ file[i] = Backslash => Continued(file, i)
                 /\ t.mode = "one_str" => ~ Continued(file, i)
                 /\ t.mode = "line" /\ Continued(file, i) => PlainLine(file, i + 3)
                 /\ usual[i + t.len][t.then]]
  IN usual[1]["code"]

\* The copy of a usual text is the text without its comments: a comment in a
\* literal is none, nor is a quote in a comment, an escaped quote closes nothing,
\* and the end of the line stays.
CommentsRemoved == eof /\ Usual(text) => out = Uncommented(text)
=============================================================================
