----------------------------- MODULE CommentsProofs -----------------------------
(***************************************************************************)
(* The copy that the comment remover makes of a usual text, as MCMachines  *)
(* composes it: for every text it is the text without its comments.        *)
(*                                                                         *)
(* Uncommented and Usual are functions defined from the end of the text;   *)
(* they exist by induction, and a lemma for each kind of token says how    *)
(* they go on behind it.  The flags tell in which token the loop is (nine  *)
(* places, Somewhere), and Copied says that what is written and what is    *)
(* left from there on make the copy.  A lemma for each place shows that an *)
(* iteration keeps it.                                                     *)
(***************************************************************************)
EXTENDS MachineLemmas

----------------------------------------------------------------------------
(* Sequences. *)

LEMMA CommSingle == ASSUME NEW a PROVE <<a>> = [i \in 1 .. 1 |-> a]
OBVIOUS

LEMMA CommSubOne ==
  ASSUME NEW S, NEW s \in Seq(S), NEW i \in 1 .. Len(s)
  PROVE  SubSeq(s, i, i) = <<s[i]>>
<1>1. SubSeq(s, i, i) = [k \in 1 .. 1 |-> s[i]]
  OBVIOUS
<1>. QED
  BY <1>1, CommSingle

LEMMA CommSameSeq ==
  ASSUME NEW S, NEW s \in Seq(S), NEW t \in Seq(S), Len(s) = Len(t),
      \A i \in 1 .. Len(s) : s[i] = t[i]
  PROVE  s = t
<1>1. s = [i \in 1 .. Len(s) |-> s[i]] /\ t = [i \in 1 .. Len(t) |-> t[i]]
  OBVIOUS
<1>. QED
  BY <1>1

LEMMA CommJoined ==
  ASSUME NEW S, NEW s \in Seq(S), NEW t \in Seq(S)
  PROVE  /\ s \o t \in Seq(S) /\ Len(s \o t) = Len(s) + Len(t)
         /\ \A i \in 1 .. Len(s) : (s \o t)[i] = s[i]
         /\ \A i \in 1 .. Len(t) : (s \o t)[Len(s) + i] = t[i]
OBVIOUS

LEMMA CommPart ==
  ASSUME NEW S, NEW s \in Seq(S), NEW i \in 1 .. Len(s), NEW k \in i .. Len(s)
  PROVE  /\ SubSeq(s, i, k) \in Seq(S) /\ Len(SubSeq(s, i, k)) = k - i + 1
         /\ \A j \in 1 .. k - i + 1 : SubSeq(s, i, k)[j] = s[i + j - 1]
OBVIOUS

LEMMA CommSubFirst ==
  ASSUME NEW S, NEW s \in Seq(S), NEW i \in 1 .. Len(s), NEW k \in i + 1 .. Len(s)
  PROVE  SubSeq(s, i, k) = <<s[i]>> \o SubSeq(s, i + 1, k)
<1>1. s[i] \in S /\ i + 1 \in 1 .. Len(s) /\ k \in i .. Len(s)
  OBVIOUS
<1>2. <<s[i]>> \in Seq(S) /\ Len(<<s[i]>>) = 1 /\ <<s[i]>>[1] = s[i]
  BY <1>1
<1>3. PICK t : t = SubSeq(s, i + 1, k)
  OBVIOUS
<1>4. PICK u : u = SubSeq(s, i, k)
  OBVIOUS
<1>5. PICK v : v = <<s[i]>> \o t
  OBVIOUS
<1>6. /\ t \in Seq(S) /\ Len(t) = k - (i + 1) + 1
      /\ \A j \in 1 .. k - (i + 1) + 1 : t[j] = s[(i + 1) + j - 1]
  BY <1>1, <1>3, CommPart
<1>7. /\ u \in Seq(S) /\ Len(u) = k - i + 1
      /\ \A j \in 1 .. k - i + 1 : u[j] = s[i + j - 1]
  BY <1>1, <1>4, CommPart
<1>8. /\ v \in Seq(S) /\ Len(v) = 1 + Len(t) /\ v[1] = s[i]
      /\ \A j \in 1 .. Len(t) : v[1 + j] = t[j]
  <2>1. PICK w : w = <<s[i]>>
    OBVIOUS
  <2>2. w \in Seq(S) /\ Len(w) = 1 /\ w[1] = s[i] /\ v = w \o t
    BY <1>2, <1>5, <2>1
  <2>3. w \in Seq(S) /\ t \in Seq(S)
    BY <1>6, <2>2
  <2>4. /\ w \o t \in Seq(S) /\ Len(w \o t) = Len(w) + Len(t)
        /\ \A j \in 1 .. Len(w) : (w \o t)[j] = w[j]
        /\ \A j \in 1 .. Len(t) : (w \o t)[Len(w) + j] = t[j]
    BY <2>3
  <2>5. 1 \in 1 .. Len(w)
    BY <2>2
  <2>6. v[1] = s[i]
    BY <2>2, <2>4, <2>5
  <2>. QED
    BY <2>2, <2>4, <2>6
<1>9. ASSUME NEW j \in 1 .. k - i + 1
      PROVE  u[j] = v[j]
  <2>1. u[j] = s[i + j - 1]
    BY <1>7
  <2>2. CASE j = 1
    BY <1>8, <2>1, <2>2
  <2>3. CASE j # 1
    <3>1. PICK h \in 1 .. k - (i + 1) + 1 : j = 1 + h
      BY <2>3
    <3>2. v[1 + h] = t[h]
      <4>1. h \in 1 .. Len(t)
        BY <1>6, <3>1
      <4>. QED
        BY <1>8, <4>1
    <3>3. t[h] = s[(i + 1) + h - 1]
      BY <1>6, <3>1
    <3>4. (i + 1) + h - 1 = i + j - 1
      BY <3>1
    <3>. QED
      BY <2>1, <3>1, <3>2, <3>3, <3>4
  <2>. QED
    BY <2>2, <2>3
<1>10. u = v
  <2>1. Len(u) = Len(v) /\ Len(u) = k - i + 1
    BY <1>6, <1>7, <1>8
  <2>. QED
    BY <1>7, <1>8, <1>9, <2>1, CommSameSeq
<1>. QED
  BY <1>3, <1>4, <1>5, <1>10

LEMMA CommAssoc ==
  ASSUME NEW S, NEW s \in Seq(S), NEW t \in Seq(S), NEW u \in Seq(S)
  PROVE  (s \o t) \o u = s \o (t \o u)
OBVIOUS

LEMMA CommNoneLeft ==
  ASSUME NEW S, NEW s \in Seq(S)
  PROVE  <<>> \o s = s /\ s \o <<>> = s
OBVIOUS

\* A function on 1 .. n + 3 can be defined from the end: at a place and in a mode by its value at a
\* later place, at most three on, in the mode that is next.
CommBacks(f, n, M, A, last, len, then, step) ==
  /\ f \in [1 .. n + 3 -> [M -> A]]
  /\ \A i \in 1 .. n + 3 : \A m \in M :
       f[i][m] = IF i > n THEN last ELSE step[i][m][f[i + len[i][m]][then[i][m]]]

LEMMA CommBackwards ==
  ASSUME NEW n \in Nat, NEW M, NEW A, NEW last \in A, NEW len \in [1 .. n -> [M -> 1 .. 3]],
         NEW then \in [1 .. n -> [M -> M]], NEW step \in [1 .. n -> [M -> [A -> A]]]
  PROVE  \E f : CommBacks(f, n, M, A, last, len, then, step)
<1>. DEFINE Good(f, i) == \A m \in M :
                 f[i][m] = IF i > n THEN last ELSE step[i][m][f[i + len[i][m]][then[i][m]]]
            S == {d \in 0 .. n : \E f \in [1 .. n + 3 -> [M -> A]] :
                                   \A i \in 1 .. n + 3 : i > n - d => Good(f, i)}
<1>1. 0 \in S
  <2>1. PICK f : f = [i \in 1 .. n + 3 |-> [m \in M |-> last]]
    OBVIOUS
  <2>2. f \in [1 .. n + 3 -> [M -> A]]
    BY <2>1
  <2>3. \A i \in 1 .. n + 3 : i > n - 0 => Good(f, i)
    BY <2>1
  <2>4. 0 \in 0 .. n
    OBVIOUS
  <2>. QED
    BY <2>2, <2>3, <2>4
<1>2. ASSUME NEW d \in 1 .. n, d - 1 \in S
      PROVE  d \in S
  <2>1. PICK f \in [1 .. n + 3 -> [M -> A]] : \A i \in 1 .. n + 3 : i > n - (d - 1) => Good(f, i)
    BY <1>2
  <2>2. PICK j : j = n - (d - 1)
    OBVIOUS
  <2>3. j \in 1 .. n /\ j \in 1 .. n + 3
    BY <2>2
  <2>4. PICK e : e = [m \in M |-> step[j][m][f[j + len[j][m]][then[j][m]]]]
    OBVIOUS
  <2>5. PICK g : g = [i \in 1 .. n + 3 |-> IF i = j THEN e ELSE f[i]]
    OBVIOUS
  <2>6. ASSUME NEW i \in 1 .. n, NEW m \in M
        PROVE  /\ len[i][m] \in 1 .. 3 /\ then[i][m] \in M /\ step[i][m] \in [A -> A]
               /\ i + len[i][m] \in 1 .. n + 3
    <3>1. len[i] \in [M -> 1 .. 3] /\ then[i] \in [M -> M] /\ step[i] \in [M -> [A -> A]]
      OBVIOUS
    <3>2. len[i][m] \in 1 .. 3 /\ then[i][m] \in M /\ step[i][m] \in [A -> A]
      BY <3>1
    <3>. QED
      BY <3>2
  <2>7. e \in [M -> A]
    <3>1. ASSUME NEW m \in M
          PROVE  step[j][m][f[j + len[j][m]][then[j][m]]] \in A
      <4>1. f[j + len[j][m]] \in [M -> A]
        BY <2>3, <2>6
      <4>2. f[j + len[j][m]][then[j][m]] \in A
        BY <2>3, <2>6, <4>1
      <4>. QED
        BY <2>3, <2>6, <4>2
    <3>. QED
      BY <2>4, <3>1
  <2>8. g \in [1 .. n + 3 -> [M -> A]]
    BY <2>5, <2>7
  <2>9. g[j] = e /\ \A i \in 1 .. n + 3 : i # j => g[i] = f[i]
    BY <2>3, <2>5
  <2>10. ASSUME NEW i \in 1 .. n + 3, i > n - d
         PROVE  Good(g, i)
    <3>1. ASSUME NEW m \in M, i <= n
          PROVE  g[i + len[i][m]] = f[i + len[i][m]]
      <4>1. i \in 1 .. n
        BY <3>1
      <4>2. PICK h \in 1 .. 3 : h = len[i][m] /\ i + h \in 1 .. n + 3
        BY <2>6, <3>1, <4>1
      <4>3. i + h # j
        BY <2>2, <2>10, <4>2
      <4>. QED
        BY <2>9, <4>2, <4>3
    <3>2. CASE i = j
      <4>1. ASSUME NEW m \in M
            PROVE  g[i][m] = step[i][m][g[i + len[i][m]][then[i][m]]]
        <5>1. g[i][m] = step[j][m][f[j + len[j][m]][then[j][m]]]
          <6>1. g[i] = e
            BY <2>9, <3>2
          <6>2. e[m] = step[j][m][f[j + len[j][m]][then[j][m]]]
            BY <2>4
          <6>. QED
            BY <6>1, <6>2
        <5>2. g[i + len[i][m]] = f[i + len[i][m]]
          BY <2>3, <3>1, <3>2
        <5>3. f[j + len[j][m]] = g[i + len[i][m]] /\ then[j][m] = then[i][m] /\ step[j][m] = step[i][m]
          BY <3>2, <5>2
        <5>. QED
          BY <5>1, <5>3
      <4>. QED
        BY <2>3, <3>2, <4>1
    <3>3. CASE i # j
      <4>1. Good(f, i) /\ g[i] = f[i]
        BY <2>1, <2>2, <2>9, <2>10, <3>3, SMTT(30)
      <4>. QED
        BY <3>1, <4>1
    <3>. QED
      BY <3>2, <3>3
  <2>11. d \in 0 .. n
    OBVIOUS
  <2>. HIDE DEF Good
  <2>. QED
    BY <2>8, <2>10, <2>11
<1>3. n \in S
  <2>. HIDE DEF S
  <2>1. 0 .. n \subseteq S
    BY <1>1, <1>2, UpTo
  <2>. QED
    BY <2>1
<1>4. PICK f \in [1 .. n + 3 -> [M -> A]] : \A i \in 1 .. n + 3 : i > n - n => Good(f, i)
  BY <1>3
<1>5. \A i \in 1 .. n + 3 : Good(f, i)
  BY <1>4
<1>6. CommBacks(f, n, M, A, last, len, then, step)
  BY <1>4, <1>5 DEF CommBacks
<1>. QED
  BY <1>6

\* What a symbol, and a mode, leave of a file.
CommKept(file, i, mode, rest) ==
  LET t == Comments!Token(file, i, mode)
  IN (IF t.mode \in {"line", "block"} THEN <<>>
      ELSE SubSeq(file, i, i + t.len - 1)) \o rest[i + t.len][t.then]

CommRestFrom(file) ==
  CHOOSE rest : rest = [i \in 1 .. Len(file) + 3 |->
                          [mode \in Comments!Modes |-> IF i > Len(file) THEN <<>> ELSE CommKept(file, i, mode, rest)]]

CommFits(file, i, mode) ==
  LET t == Comments!Token(file, i, mode)
  IN
    /\ t.mode = "code" /\ file[i] = Comments!Backslash => Comments!Continued(file, i)
    /\ t.mode = "one_str" => ~ Comments!Continued(file, i)
    /\ t.mode = "line" /\ Comments!Continued(file, i) => Comments!PlainLine(file, i + 3)

CommUsualFrom(file) ==
  CHOOSE usual : usual = [i \in 1 .. Len(file) + 3 |->
    [mode \in Comments!Modes |->
       \/ i > Len(file)
       \/ LET t == Comments!Token(file, i, mode)
          IN
            /\ t.mode = "code" /\ file[i] = Comments!Backslash => Comments!Continued(file, i)
            /\ t.mode = "one_str" => ~ Comments!Continued(file, i)
            /\ t.mode = "line" /\ Comments!Continued(file, i) => Comments!PlainLine(file, i + 3)
            /\ usual[i + t.len][t.then]]]

CommTok(kind, len, then) == [mode |-> kind, len |-> len, then |-> then]

\* The tokens of each mode.
LEMMA CommTokenOfCode ==
  ASSUME NEW t, NEW i
  PROVE  Comments!Token(t, i, "code") =
           IF Comments!Pairs(t, i, Comments!Slash, Comments!Slash) THEN CommTok("line", 2, "line")
           ELSE IF Comments!Pairs(t, i, Comments!Slash, Comments!Star)
               THEN CommTok("block", 2, "block")
           ELSE CommTok("code", 1, IF t[i] = Comments!DoubleQuote THEN "str"
                               ELSE IF t[i] = Comments!Quote THEN "one_str" ELSE "code")
BY DEF Comments!Token, CommTok

LEMMA CommTokenOfLine ==
  ASSUME NEW t, NEW i
  PROVE  Comments!Token(t, i, "line") =
           IF Comments!Continued(t, i) THEN CommTok("line", 3, "line")
           ELSE IF t[i] = Comments!Cr THEN CommTok("code", 2, "code")
               ELSE CommTok("line", 1, "line")
BY DEF Comments!Token, CommTok

LEMMA CommTokenOfBlock ==
  ASSUME NEW t, NEW i
  PROVE  Comments!Token(t, i, "block") =
           IF Comments!Pairs(t, i, Comments!Star, Comments!Slash) THEN CommTok("block", 2, "code")
               ELSE CommTok("block", 1, "block")
BY DEF Comments!Token, CommTok

LEMMA CommTokenOfLiteral ==
  ASSUME NEW t, NEW i, NEW mode \in {"str", "one_str"}
  PROVE  Comments!Token(t, i, mode) =
           IF Comments!Continued(t, i) THEN CommTok(mode, 3, mode)
           ELSE IF t[i] = Comments!Backslash /\ i < Len(t) THEN CommTok(mode, 2, mode)
           ELSE CommTok(mode, 1, IF t[i] \in {IF mode = "str" THEN Comments!DoubleQuote ELSE Comments!Quote, Comments!Cr}
                             THEN "code" ELSE mode)
BY DEF Comments!Token, CommTok

LEMMA CommTokenFields ==
  ASSUME NEW t, NEW i, NEW mode \in Comments!Modes
  PROVE  /\ Comments!Token(t, i, mode).len \in 1 .. 3 /\ Comments!Token(t, i, mode).then \in Comments!Modes
         /\ Comments!Token(t, i, mode).mode \in Comments!Modes
<1>1. ASSUME NEW kind \in Comments!Modes, NEW len \in 1 .. 3, NEW then \in Comments!Modes
      PROVE  CommTok(kind, len, then).len \in 1 .. 3 /\ CommTok(kind, len, then).then \in Comments!Modes
             /\ CommTok(kind, len, then).mode \in Comments!Modes
  BY DEF CommTok
<1>2. /\ "code" \in Comments!Modes /\ "line" \in Comments!Modes /\ "block" \in Comments!Modes
      /\ "str" \in Comments!Modes /\ "one_str" \in Comments!Modes
      /\ 1 \in 1 .. 3 /\ 2 \in 1 .. 3 /\ 3 \in 1 .. 3
  BY DEF Comments!Modes
<1>3. CASE mode = "code"
  BY <1>1, <1>2, <1>3, CommTokenOfCode
<1>4. CASE mode = "line"
  BY <1>1, <1>2, <1>4, CommTokenOfLine
<1>5. CASE mode = "block"
  BY <1>1, <1>2, <1>5, CommTokenOfBlock
<1>6. CASE mode \in {"str", "one_str"}
  <2>1. PICK next \in {"code", mode} :
          Comments!Token(t, i, mode) \in {CommTok(mode, 3, mode), CommTok(mode, 2, mode), CommTok(mode, 1, next)}
    BY <1>6, CommTokenOfLiteral
  <2>2. mode \in Comments!Modes /\ next \in Comments!Modes
    BY <1>2, <2>1
  <2>. QED
    BY <1>1, <1>2, <2>1, <2>2
<1>. QED
  BY <1>3, <1>4, <1>5, <1>6 DEF Comments!Modes

\* Every end of a line has both its symbols.
CommPaired(t) == \A i \in 1 .. Len(t) : t[i] = Comments!Cr => i < Len(t) /\ t[i + 1] = Comments!Lf

\* What a token leaves.
CommPiece(t, i, mode) ==
  IF Comments!Token(t, i, mode).mode \in {"line", "block"} THEN <<>>
  ELSE SubSeq(t, i, i + Comments!Token(t, i, mode).len - 1)

LEMMA CommPieceIn ==
  ASSUME NEW S, NEW t \in Seq(S), CommPaired(t), NEW i \in 1 .. Len(t), NEW mode \in Comments!Modes
  PROVE  CommPiece(t, i, mode) \in Seq(S)
<1>1. PICK tok : tok = Comments!Token(t, i, mode)
  OBVIOUS
<1>2. tok.len \in 1 .. 3
  BY <1>1, CommTokenFields
<1>3. Len(t) \in Nat
  OBVIOUS
<1>4. tok.mode \notin {"line", "block"} => i + tok.len - 1 \in i .. Len(t)
  <2>1. \A kind, len, then : CommTok(kind, len, then).mode = kind /\ CommTok(kind, len, then).len = len
    BY DEF CommTok
  <2>2. Comments!Continued(t, i) => i + 2 <= Len(t)
    <3>. SUFFICES ASSUME Comments!Continued(t, i) PROVE i + 2 <= Len(t)
      OBVIOUS
    <3>1. i + 1 \in 1 .. Len(t) /\ t[i + 1] = Comments!Cr
      BY <1>3 DEF Comments!Continued, Comments!Pairs
    <3>. QED
      BY <1>3, <3>1 DEF CommPaired
  <2>3. CASE mode = "code"
    BY <1>1, <1>3, <2>1, <2>3, CommTokenOfCode
  <2>4. CASE mode = "line"
    <3>1. t[i] = Comments!Cr => i + 1 <= Len(t)
      BY <1>3 DEF CommPaired
    <3>. QED
      BY <1>1, <1>3, <2>1, <2>4, <3>1, CommTokenOfLine
  <2>5. CASE mode = "block"
    BY <1>1, <2>1, <2>5, CommTokenOfBlock
  <2>6. CASE mode \in {"str", "one_str"}
    <3>1. PICK next \in {"code", mode} :
            tok = IF Comments!Continued(t, i) THEN CommTok(mode, 3, mode)
                  ELSE IF t[i] = Comments!Backslash /\ i < Len(t) THEN CommTok(mode, 2, mode)
                  ELSE CommTok(mode, 1, next)
      BY <1>1, <2>6, CommTokenOfLiteral
    <3>. QED
      BY <1>3, <2>1, <2>2, <3>1
  <2>. QED
    BY <2>3, <2>4, <2>5, <2>6 DEF Comments!Modes
<1>5. CASE tok.mode \in {"line", "block"}
  BY <1>1, <1>5 DEF CommPiece
<1>6. CASE tok.mode \notin {"line", "block"}
  <2>1. PICK k \in i .. Len(t) : k = i + tok.len - 1
    BY <1>4, <1>6
  <2>2. SubSeq(t, i, k) \in Seq(S)
    BY CommPart
  <2>. QED
    BY <1>1, <1>6, <2>1, <2>2 DEF CommPiece
<1>. QED
  BY <1>5, <1>6

CommRestEq(t, f) ==
  f = [i \in 1 .. Len(t) + 3 |->
         [mode \in Comments!Modes |-> IF i > Len(t) THEN <<>> ELSE CommKept(t, i, mode, f)]]

LEMMA CommKeptIs ==
  ASSUME NEW t, NEW i, NEW mode, NEW f
  PROVE  CommKept(t, i, mode, f) = CommPiece(t, i, mode) \o f[i + Comments!Token(t, i, mode).len][Comments!Token(t, i, mode).then]
BY DEF CommKept, CommPiece

LEMMA CommRestExists ==
  ASSUME NEW S, NEW t \in Seq(S), CommPaired(t)
  PROVE  CommRestEq(t, CommRestFrom(t))
<1>. DEFINE n == Len(t)
            len == [i \in 1 .. n |-> [m \in Comments!Modes |-> Comments!Token(t, i, m).len]]
            then == [i \in 1 .. n |-> [m \in Comments!Modes |-> Comments!Token(t, i, m).then]]
            step == [i \in 1 .. n |-> [m \in Comments!Modes |-> [a \in Seq(S) |-> CommPiece(t, i, m) \o a]]]
<1>1. n \in Nat /\ <<>> \in Seq(S)
  OBVIOUS
<1>2. len \in [1 .. n -> [Comments!Modes -> 1 .. 3]] /\ then \in [1 .. n -> [Comments!Modes -> Comments!Modes]]
  BY CommTokenFields
<1>3. step \in [1 .. n -> [Comments!Modes -> [Seq(S) -> Seq(S)]]]
  <2>1. ASSUME NEW i \in 1 .. n, NEW m \in Comments!Modes, NEW a \in Seq(S)
        PROVE  CommPiece(t, i, m) \o a \in Seq(S)
    BY CommPieceIn, CommJoined
  <2>. QED
    BY <2>1
<1>4. PICK f : CommBacks(f, n, Comments!Modes, Seq(S), <<>>, len, then, step)
  <2>. HIDE DEF len, then, step, n
  <2>. QED
    BY <1>1, <1>2, <1>3, CommBackwards
<1>5. ASSUME NEW i \in 1 .. n + 3, NEW m \in Comments!Modes
      PROVE  f[i][m] = IF i > Len(t) THEN <<>> ELSE CommKept(t, i, m, f)
  <2>1. CASE i > n
    <3>. HIDE DEF step, len, then
    <3>. QED
      BY <1>4, <2>1 DEF CommBacks
  <2>2. CASE i <= n
    <3>1. i \in 1 .. n
      BY <2>2
    <3>2. len[i][m] = Comments!Token(t, i, m).len /\ then[i][m] = Comments!Token(t, i, m).then
      BY <3>1
    <3>3. PICK k \in 1 .. 3 : k = Comments!Token(t, i, m).len
      BY CommTokenFields
    <3>4. PICK next \in Comments!Modes : next = Comments!Token(t, i, m).then
      BY CommTokenFields
    <3>5. i + k \in 1 .. n + 3
      BY <1>1, <3>1
    <3>6. f[i + k] \in [Comments!Modes -> Seq(S)]
      BY <1>4, <3>5 DEF CommBacks
    <3>7. PICK a \in Seq(S) : a = f[i + k][next]
      BY <3>6
    <3>8. step[i][m][a] = CommPiece(t, i, m) \o a
      BY <3>1
    <3>9. f[i][m] = step[i][m][f[i + len[i][m]][then[i][m]]]
      <4>1. i \in 1 .. n + 3 /\ ~ (i > n)
        BY <1>1, <3>1
      <4>. HIDE DEF step, len, then, n
      <4>. QED
        BY <1>4, <4>1 DEF CommBacks
    <3>10. f[i][m] = CommPiece(t, i, m) \o f[i + Comments!Token(t, i, m).len][Comments!Token(t, i, m).then]
      <4>. HIDE DEF step, len, then
      <4>. QED
        BY <3>2, <3>3, <3>4, <3>7, <3>8, <3>9
    <3>. QED
      BY <1>1, <2>2, <3>10, CommKeptIs
  <2>. QED
    BY <2>1, <2>2, <1>1
<1>6. CommRestEq(t, f)
  <2>1. ASSUME NEW i \in 1 .. n + 3
        PROVE  f[i] = [m \in Comments!Modes |-> IF i > Len(t) THEN <<>> ELSE CommKept(t, i, m, f)]
    <3>1. f[i] \in [Comments!Modes -> Seq(S)]
      BY <1>4 DEF CommBacks
    <3>. QED
      BY <1>5, <3>1
  <2>. QED
    BY <1>4, <2>1 DEF CommRestEq, CommBacks
<1>. QED
  BY <1>6 DEF CommRestEq, CommRestFrom

LEMMA CommUncommenting ==
  ASSUME NEW t
  PROVE  Comments!Uncommented(t) = CommRestFrom(t)[1]["code"]
BY DEF Comments!Uncommented, CommRestFrom, CommKept

LEMMA CommUsualFiles ==
  ASSUME NEW t
  PROVE  Comments!Usual(t) <=> CommUsualFrom(t)[1]["code"]
BY DEF Comments!Usual, CommUsualFrom

LEMMA CommRestTyped ==
  ASSUME NEW S, NEW t \in Seq(S), CommPaired(t), NEW i \in 1 .. Len(t) + 3,
      NEW mode \in Comments!Modes
  PROVE  CommRestFrom(t)[i][mode] \in Seq(S)
<1>. DEFINE n == Len(t)
<1>1. n \in Nat
  OBVIOUS
<1>2. PICK f : f = CommRestFrom(t)
  OBVIOUS
<1>0. CommRestEq(t, f)
  BY <1>2, CommRestExists
<1>3. ASSUME NEW j \in 1 .. n + 3, NEW m \in Comments!Modes
      PROVE  f[j][m] = IF j > n THEN <<>> ELSE CommKept(t, j, m, f)
  BY <1>0, <1>1 DEF CommRestEq
<1>. HIDE DEF n
<1>7. <<>> \in Seq(S)
  OBVIOUS
<1>8. ASSUME NEW j \in 1 .. n + 3, j > n, NEW m \in Comments!Modes
      PROVE  f[j][m] \in Seq(S)
  BY <1>3, <1>7, <1>8
<1>. DEFINE T == {d \in 0 .. n : \A j \in 1 .. n + 3 : j > n - d => \A m \in Comments!Modes : f[j][m] \in Seq(S)}
<1>4. 0 \in T
  BY <1>1, <1>8
<1>5. ASSUME NEW d \in 1 .. n, d - 1 \in T
      PROVE  d \in T
  <2>1. ASSUME NEW j \in 1 .. n + 3, j > n - (d - 1), NEW m \in Comments!Modes
        PROVE  f[j][m] \in Seq(S)
    BY <1>5, <2>1
  <2>2. ASSUME NEW j \in 1 .. n + 3, j > n - d, NEW m \in Comments!Modes
        PROVE  f[j][m] \in Seq(S)
    <3>1. CASE j > n
      BY <1>8, <3>1
    <3>2. CASE j <= n
      <4>1. f[j][m] = CommPiece(t, j, m) \o f[j + Comments!Token(t, j, m).len][Comments!Token(t, j, m).then]
        <5>1. f[j][m] = CommKept(t, j, m, f)
          BY <1>1, <1>3, <3>2
        <5>. QED
          BY <5>1, CommKeptIs
      <4>2. PICK k \in 1 .. 3 : k = Comments!Token(t, j, m).len
        BY CommTokenFields
      <4>3. PICK next \in Comments!Modes : next = Comments!Token(t, j, m).then
        BY CommTokenFields
      <4>4. j + k \in 1 .. n + 3 /\ j + k > n - (d - 1) /\ j \in 1 .. Len(t)
        BY <1>1, <2>2, <3>2 DEF n
      <4>5. f[j + k][next] \in Seq(S)
        BY <2>1, <4>4
      <4>6. CommPiece(t, j, m) \in Seq(S)
        BY <4>4, CommPieceIn
      <4>. QED
        BY <4>1, <4>2, <4>3, <4>5, <4>6, CommJoined
    <3>. QED
      BY <1>1, <3>1, <3>2
  <2>. QED
    BY <2>2
<1>6. n \in T
  <2>. HIDE DEF T
  <2>1. 0 .. n \subseteq T
    BY <1>1, <1>4, <1>5, UpTo
  <2>. QED
    BY <1>1, <2>1
<1>. QED
  BY <1>1, <1>2, <1>6 DEF n

LEMMA CommRestIs ==
  ASSUME NEW S, NEW t \in Seq(S), CommPaired(t), NEW i \in 1 .. Len(t) + 3,
      NEW mode \in Comments!Modes
  PROVE  CommRestFrom(t)[i][mode] =
           IF i > Len(t) THEN <<>>
           ELSE CommPiece(t, i, mode) \o CommRestFrom(t)[i + Comments!Token(t, i, mode).len][Comments!Token(t, i, mode).then]
<1>1. PICK f : f = CommRestFrom(t)
  OBVIOUS
<1>2. CommRestEq(t, f)
  BY <1>1, CommRestExists
<1>3. f[i][mode] = IF i > Len(t) THEN <<>> ELSE CommKept(t, i, mode, f)
  BY <1>2 DEF CommRestEq
<1>. QED
  BY <1>1, <1>3, CommKeptIs

CommUsualEq(t, f) ==
  f = [i \in 1 .. Len(t) + 3 |-> [mode \in Comments!Modes |->
         \/ i > Len(t)
         \/ LET tok == Comments!Token(t, i, mode)
            IN
              /\ tok.mode = "code" /\ t[i] = Comments!Backslash => Comments!Continued(t, i)
              /\ tok.mode = "one_str" => ~ Comments!Continued(t, i)
              /\ tok.mode = "line" /\ Comments!Continued(t, i) => Comments!PlainLine(t, i + 3)
              /\ f[i + tok.len][tok.then]]]

LEMMA CommSameBooleans ==
  ASSUME NEW D, NEW f \in [D -> BOOLEAN], NEW g \in [D -> BOOLEAN], \A m \in D : f[m] <=> g[m]
  PROVE  f = g
<1>1. ASSUME NEW m \in D PROVE f[m] = g[m]
  <2>1. f[m] \in BOOLEAN /\ g[m] \in BOOLEAN
    OBVIOUS
  <2>2. f[m] <=> g[m]
    OBVIOUS
  <2>. QED
    BY <2>1, <2>2
<1>. QED
  BY <1>1

LEMMA CommUsualExists ==
  ASSUME NEW S, NEW t \in Seq(S)
  PROVE  CommUsualEq(t, CommUsualFrom(t))
<1>. DEFINE n == Len(t)
            len == [i \in 1 .. n |-> [m \in Comments!Modes |-> Comments!Token(t, i, m).len]]
            then == [i \in 1 .. n |-> [m \in Comments!Modes |-> Comments!Token(t, i, m).then]]
            step == [i \in 1 .. n |-> [m \in Comments!Modes |-> [a \in BOOLEAN |-> CommFits(t, i, m) /\ a]]]
<1>1. n \in Nat
  OBVIOUS
<1>0. PICK yes \in BOOLEAN : yes
  OBVIOUS
<1>2. len \in [1 .. n -> [Comments!Modes -> 1 .. 3]] /\ then \in [1 .. n -> [Comments!Modes -> Comments!Modes]]
  BY CommTokenFields
<1>3. step \in [1 .. n -> [Comments!Modes -> [BOOLEAN -> BOOLEAN]]]
  OBVIOUS
<1>4. PICK f : CommBacks(f, n, Comments!Modes, BOOLEAN, yes, len, then, step)
  <2>. HIDE DEF len, then, step, n
  <2>. QED
    BY <1>1, <1>2, <1>3, CommBackwards
<1>5. ASSUME NEW i \in 1 .. n + 3, NEW m \in Comments!Modes
      PROVE  f[i][m] <=> (i > Len(t) \/ (CommFits(t, i, m) /\ f[i + Comments!Token(t, i, m).len][Comments!Token(t, i, m).then]))
  <2>1. CASE i > n
    <3>1. f[i][m] = yes
      <4>. HIDE DEF step, len, then
      <4>. QED
        BY <1>4, <2>1 DEF CommBacks
    <3>. QED
      BY <1>0, <2>1, <3>1
  <2>2. CASE i <= n
    <3>1. i \in 1 .. n
      BY <2>2
    <3>2. len[i][m] = Comments!Token(t, i, m).len /\ then[i][m] = Comments!Token(t, i, m).then
      BY <3>1
    <3>3. PICK k \in 1 .. 3 : k = Comments!Token(t, i, m).len
      BY CommTokenFields
    <3>4. PICK next \in Comments!Modes : next = Comments!Token(t, i, m).then
      BY CommTokenFields
    <3>5. i + k \in 1 .. n + 3
      BY <1>1, <3>1
    <3>6. f[i + k] \in [Comments!Modes -> BOOLEAN]
      BY <1>4, <3>5 DEF CommBacks
    <3>7. PICK a \in BOOLEAN : a = f[i + k][next]
      BY <3>6
    <3>8. step[i][m][a] <=> (CommFits(t, i, m) /\ a)
      BY <3>1
    <3>9. f[i][m] = step[i][m][f[i + len[i][m]][then[i][m]]]
      <4>1. i \in 1 .. n + 3 /\ ~ (i > n)
        BY <1>1, <3>1
      <4>. HIDE DEF step, len, then, n
      <4>. QED
        BY <1>4, <4>1 DEF CommBacks
    <3>10. f[i][m] <=> (CommFits(t, i, m) /\ f[i + Comments!Token(t, i, m).len][Comments!Token(t, i, m).then])
      <4>. HIDE DEF step, len, then
      <4>. QED
        BY <3>2, <3>3, <3>4, <3>7, <3>8, <3>9
    <3>. QED
      BY <1>1, <2>2, <3>10
  <2>. QED
    BY <2>1, <2>2, <1>1
<1>6. PICK g : g = [i \in 1 .. Len(t) + 3 |-> [m \in Comments!Modes |->
         \/ i > Len(t)
         \/ LET tok == Comments!Token(t, i, m)
            IN
              /\ tok.mode = "code" /\ t[i] = Comments!Backslash => Comments!Continued(t, i)
              /\ tok.mode = "one_str" => ~ Comments!Continued(t, i)
              /\ tok.mode = "line" /\ Comments!Continued(t, i) => Comments!PlainLine(t, i + 3)
              /\ f[i + tok.len][tok.then]]]
  OBVIOUS
<1>7. ASSUME NEW i \in 1 .. n + 3
      PROVE  f[i] = g[i]
  <2>1. f[i] \in [Comments!Modes -> BOOLEAN]
    BY <1>4 DEF CommBacks
  <2>2. g[i] \in [Comments!Modes -> BOOLEAN]
    BY <1>6
  <2>3. ASSUME NEW m \in Comments!Modes
        PROVE  f[i][m] <=> g[i][m]
    <3>1. g[i][m] <=> (i > Len(t) \/ (CommFits(t, i, m) /\ f[i + Comments!Token(t, i, m).len][Comments!Token(t, i, m).then]))
      BY <1>6 DEF CommFits
    <3>. QED
      BY <1>5, <3>1
  <2>. QED
    BY <2>1, <2>2, <2>3, CommSameBooleans
<1>8. f = g
  <2>1. f \in [1 .. n + 3 -> [Comments!Modes -> BOOLEAN]]
    BY <1>4 DEF CommBacks
  <2>2. g = [i \in 1 .. n + 3 |-> g[i]]
    BY <1>6
  <2>. QED
    BY <1>7, <2>1, <2>2
<1>9. CommUsualEq(t, f)
  BY <1>6, <1>8, Zenon DEF CommUsualEq
<1>. QED
  BY <1>9, Zenon DEF CommUsualEq, CommUsualFrom

LEMMA CommUsualIs ==
  ASSUME NEW S, NEW t \in Seq(S), NEW i \in 1 .. Len(t) + 3, NEW mode \in Comments!Modes
  PROVE  CommUsualFrom(t)[i][mode] <=>
           \/ i > Len(t)
           \/ CommFits(t, i, mode) /\ CommUsualFrom(t)[i + Comments!Token(t, i, mode).len][Comments!Token(t, i, mode).then]
<1>1. PICK f : f = CommUsualFrom(t)
  OBVIOUS
<1>2. CommUsualEq(t, f)
  BY <1>1, CommUsualExists
<1>3. f[i][mode] <=> (i > Len(t) \/ (CommFits(t, i, mode) /\ f[i + Comments!Token(t, i, mode).len][Comments!Token(t, i, mode).then]))
  <2>1. f[i] = [m \in Comments!Modes |->
         \/ i > Len(t)
         \/ LET tok == Comments!Token(t, i, m)
            IN
              /\ tok.mode = "code" /\ t[i] = Comments!Backslash => Comments!Continued(t, i)
              /\ tok.mode = "one_str" => ~ Comments!Continued(t, i)
              /\ tok.mode = "line" /\ Comments!Continued(t, i) => Comments!PlainLine(t, i + 3)
              /\ f[i + tok.len][tok.then]]
    BY <1>2, Zenon DEF CommUsualEq
  <2>. QED
    BY <2>1 DEF CommFits
<1>. QED
  BY <1>1, <1>3

\* From a symbol on, a mode leaves w and then what another leaves from another symbol on;
\* and if the first is usual, so is the second.
CommLeads(t, i, mode, w, j, next) ==
  /\ CommRestFrom(t)[i][mode] = w \o CommRestFrom(t)[j][next]
  /\ CommUsualFrom(t)[i][mode] => CommUsualFrom(t)[j][next]

LEMMA CommTokenLeads ==
  ASSUME NEW S, NEW t \in Seq(S), CommPaired(t), NEW i \in 1 .. Len(t), NEW mode \in Comments!Modes,
         NEW kind, NEW len, NEW then, Comments!Token(t, i, mode) = CommTok(kind, len, then)
  PROVE  /\ CommLeads(t, i, mode, IF kind \in {"line", "block"} THEN <<>> ELSE SubSeq(t, i, i + len - 1),
                  i + len, then)
         /\ CommUsualFrom(t)[i][mode] <=> CommFits(t, i, mode) /\ CommUsualFrom(t)[i + len][then]
         /\ CommFits(t, i, mode) <=>
              /\ kind = "code" /\ t[i] = Comments!Backslash => Comments!Continued(t, i)
              /\ kind = "one_str" => ~ Comments!Continued(t, i)
              /\ kind = "line" /\ Comments!Continued(t, i) => Comments!PlainLine(t, i + 3)
<1>1. PICK tok : tok = Comments!Token(t, i, mode) /\ tok.mode = kind /\ tok.len = len /\ tok.then = then
  BY DEF CommTok
<1>2. i \in 1 .. Len(t) + 3 /\ ~ (i > Len(t))
  OBVIOUS
<1>3. CommPiece(t, i, mode) = IF kind \in {"line", "block"} THEN <<>> ELSE SubSeq(t, i, i + len - 1)
  BY <1>1 DEF CommPiece
<1>4. CommRestFrom(t)[i][mode] = CommPiece(t, i, mode) \o CommRestFrom(t)[i + len][then]
  <2>1. CommRestFrom(t)[i][mode] =
           IF i > Len(t) THEN <<>>
           ELSE CommPiece(t, i, mode) \o CommRestFrom(t)[i + Comments!Token(t, i, mode).len][Comments!Token(t, i, mode).then]
    BY <1>2, CommRestIs
  <2>. QED
    BY <1>1, <1>2, <2>1
<1>5. CommUsualFrom(t)[i][mode] <=> CommFits(t, i, mode) /\ CommUsualFrom(t)[i + len][then]
  <2>1. CommUsualFrom(t)[i][mode] <=>
           \/ i > Len(t)
           \/ CommFits(t, i, mode) /\ CommUsualFrom(t)[i + Comments!Token(t, i, mode).len][Comments!Token(t, i, mode).then]
    BY <1>2, CommUsualIs
  <2>. QED
    BY <1>1, <1>2, <2>1
<1>6. CommFits(t, i, mode) <=>
        /\ kind = "code" /\ t[i] = Comments!Backslash => Comments!Continued(t, i)
        /\ kind = "one_str" => ~ Comments!Continued(t, i)
        /\ kind = "line" /\ Comments!Continued(t, i) => Comments!PlainLine(t, i + 3)
  BY <1>1 DEF CommFits
<1>. QED
  BY <1>3, <1>4, <1>5, <1>6 DEF CommLeads

LEMMA CommSymbolsDiffer ==
  /\ Comments!Cr # Comments!Lf /\ Comments!Cr # Comments!Slash /\ Comments!Cr # Comments!Star
  /\ Comments!Cr # Comments!Quote /\ Comments!Cr # Comments!DoubleQuote
  /\ Comments!Cr # Comments!Backslash /\ Comments!Cr # Comments!Eof
  /\ Comments!Lf # Comments!Slash /\ Comments!Lf # Comments!Star /\ Comments!Lf # Comments!Quote
  /\ Comments!Lf # Comments!DoubleQuote /\ Comments!Lf # Comments!Backslash
  /\ Comments!Lf # Comments!Eof
  /\ Comments!Slash # Comments!Star /\ Comments!Slash # Comments!Quote
  /\ Comments!Slash # Comments!DoubleQuote /\ Comments!Slash # Comments!Backslash
  /\ Comments!Slash # Comments!Eof
  /\ Comments!Star # Comments!Quote /\ Comments!Star # Comments!DoubleQuote
  /\ Comments!Star # Comments!Backslash /\ Comments!Star # Comments!Eof
  /\ Comments!Quote # Comments!DoubleQuote /\ Comments!Quote # Comments!Backslash
  /\ Comments!Quote # Comments!Eof
  /\ Comments!DoubleQuote # Comments!Backslash /\ Comments!DoubleQuote # Comments!Eof
  /\ Comments!Backslash # Comments!Eof
BY DEF Comments!Cr, Comments!Lf, Comments!Slash, Comments!Star, Comments!Quote,
   Comments!DoubleQuote, Comments!Backslash, Comments!Eof

\* Code, symbol by symbol.
LEMMA CommCodeSymbol ==
  ASSUME NEW S, NEW t \in Seq(S), CommPaired(t), NEW i \in 1 .. Len(t),
         ~ Comments!Pairs(t, i, Comments!Slash, Comments!Slash),
             ~ Comments!Pairs(t, i, Comments!Slash, Comments!Star)
  PROVE  /\ CommLeads(t, i, "code", <<t[i]>>, i + 1, IF t[i] = Comments!DoubleQuote THEN "str"
                                                 ELSE IF t[i] = Comments!Quote THEN "one_str"
                                                     ELSE "code")
         /\ CommUsualFrom(t)[i]["code"] /\ t[i] = Comments!Backslash => Comments!Continued(t, i)
         /\ t[i] \in {Comments!Cr, Comments!Lf} /\ CommUsualFrom(t)[i + 1]["code"]
              => CommUsualFrom(t)[i]["code"]
<1>1. PICK next : next = IF t[i] = Comments!DoubleQuote THEN "str" ELSE IF t[i] = Comments!Quote
        THEN "one_str" ELSE "code"
  OBVIOUS
<1>2. Comments!Token(t, i, "code") = CommTok("code", 1, next) /\ "code" \in Comments!Modes
  BY <1>1, CommTokenOfCode DEF Comments!Modes
<1>3. /\ CommLeads(t, i, "code", IF "code" \in {"line", "block"} THEN <<>> ELSE SubSeq(t, i, i + 1 - 1), i + 1, next)
      /\ CommUsualFrom(t)[i]["code"] <=> CommFits(t, i, "code") /\ CommUsualFrom(t)[i + 1][next]
      /\ CommFits(t, i, "code") <=>
           /\ "code" = "code" /\ t[i] = Comments!Backslash => Comments!Continued(t, i)
           /\ "code" = "one_str" => ~ Comments!Continued(t, i)
           /\ "code" = "line" /\ Comments!Continued(t, i) => Comments!PlainLine(t, i + 3)
  BY <1>2, CommTokenLeads
<1>4. SubSeq(t, i, i) = <<t[i]>> /\ i + 1 - 1 = i
  BY CommSubOne
<1>5. t[i] \in {Comments!Cr, Comments!Lf} => t[i] # Comments!Backslash /\ next = "code"
  BY <1>1, CommSymbolsDiffer
<1>. QED
  BY <1>1, <1>3, <1>4, <1>5

LEMMA CommCodeOpensLine ==
  ASSUME NEW S, NEW t \in Seq(S), CommPaired(t), NEW i \in 1 .. Len(t),
      Comments!Pairs(t, i, Comments!Slash, Comments!Slash)
  PROVE  CommLeads(t, i, "code", <<>>, i + 1, "line")
<1>1. Comments!Token(t, i, "code") = CommTok("line", 2, "line") /\ "code" \in Comments!Modes /\ "line" \in Comments!Modes
  BY CommTokenOfCode DEF Comments!Modes
<1>2. CommLeads(t, i, "code", <<>>, i + 2, "line")
  BY <1>1, CommTokenLeads
<1>3. i + 1 \in 1 .. Len(t) /\ t[i + 1] = Comments!Slash
  BY DEF Comments!Pairs
<1>4. ~ Comments!Continued(t, i + 1) /\ t[i + 1] # Comments!Cr
  BY <1>3, CommSymbolsDiffer DEF Comments!Continued, Comments!Pairs
<1>5. PICK j \in 1 .. Len(t) : j = i + 1
  BY <1>3
<1>6. Comments!Token(t, j, "line") = CommTok("line", 1, "line")
  BY <1>4, <1>5, CommTokenOfLine
<1>7. /\ CommLeads(t, j, "line", <<>>, j + 1, "line")
      /\ CommUsualFrom(t)[j]["line"] <=> CommFits(t, j, "line") /\ CommUsualFrom(t)[j + 1]["line"]
      /\ CommFits(t, j, "line") <=>
           /\ "line" = "code" /\ t[j] = Comments!Backslash => Comments!Continued(t, j)
           /\ "line" = "one_str" => ~ Comments!Continued(t, j)
           /\ "line" = "line" /\ Comments!Continued(t, j) => Comments!PlainLine(t, j + 3)
  BY <1>1, <1>6, CommTokenLeads
<1>8. j + 1 = i + 2
  BY <1>5
<1>. QED
  BY <1>2, <1>4, <1>5, <1>7, <1>8 DEF CommLeads

LEMMA CommCodeOpensBlock ==
  ASSUME NEW S, NEW t \in Seq(S), CommPaired(t), NEW i \in 1 .. Len(t),
      Comments!Pairs(t, i, Comments!Slash, Comments!Star)
  PROVE  CommLeads(t, i, "code", <<>>, i + 2, "block")
<1>1. Comments!Token(t, i, "code") = CommTok("block", 2, "block") /\ "code" \in Comments!Modes
  BY CommTokenOfCode, CommSymbolsDiffer DEF Comments!Modes, Comments!Pairs
<1>. QED
  BY <1>1, CommTokenLeads

\* The two kinds of comments.
LEMMA CommLineSymbol ==
  ASSUME NEW S, NEW t \in Seq(S), CommPaired(t), NEW i \in 1 .. Len(t), ~ Comments!Continued(t, i),
      t[i] # Comments!Cr
  PROVE  CommLeads(t, i, "line", <<>>, i + 1, "line")
<1>1. Comments!Token(t, i, "line") = CommTok("line", 1, "line") /\ "line" \in Comments!Modes
  BY CommTokenOfLine DEF Comments!Modes
<1>. QED
  BY <1>1, CommTokenLeads

LEMMA CommLineContinues ==
  ASSUME NEW S, NEW t \in Seq(S), CommPaired(t), NEW i \in 1 .. Len(t), Comments!Continued(t, i)
  PROVE  /\ CommLeads(t, i, "line", <<>>, i + 3, "line")
         /\ CommUsualFrom(t)[i]["line"] => Comments!PlainLine(t, i + 3)
<1>1. Comments!Token(t, i, "line") = CommTok("line", 3, "line") /\ "line" \in Comments!Modes
  BY CommTokenOfLine DEF Comments!Modes
<1>. QED
  BY <1>1, CommTokenLeads

LEMMA CommBlockSymbol ==
  ASSUME NEW S, NEW t \in Seq(S), CommPaired(t), NEW i \in 1 .. Len(t),
      ~ Comments!Pairs(t, i, Comments!Star, Comments!Slash)
  PROVE  CommLeads(t, i, "block", <<>>, i + 1, "block")
<1>1. Comments!Token(t, i, "block") = CommTok("block", 1, "block") /\ "block" \in Comments!Modes
  BY CommTokenOfBlock DEF Comments!Modes
<1>. QED
  BY <1>1, CommTokenLeads

LEMMA CommBlockCloses ==
  ASSUME NEW S, NEW t \in Seq(S), CommPaired(t), NEW i \in 1 .. Len(t),
      Comments!Pairs(t, i, Comments!Star, Comments!Slash)
  PROVE  CommLeads(t, i, "block", <<>>, i + 2, "code")
<1>1. Comments!Token(t, i, "block") = CommTok("block", 2, "code") /\ "block" \in Comments!Modes
  BY CommTokenOfBlock DEF Comments!Modes
<1>. QED
  BY <1>1, CommTokenLeads

LEMMA CommTwoSymbols ==
  ASSUME NEW S, NEW a \in S, NEW b \in S
  PROVE  <<a>> \o <<b>> = <<a, b>>
<1>1. PICK s : s = <<a>>
  OBVIOUS
<1>2. PICK t : t = <<b>>
  OBVIOUS
<1>3. PICK u : u = <<a, b>>
  OBVIOUS
<1>4. s \in Seq(S) /\ Len(s) = 1 /\ s[1] = a
  BY <1>1
<1>5. t \in Seq(S) /\ Len(t) = 1 /\ t[1] = b
  BY <1>2
<1>6. u \in Seq(S) /\ Len(u) = 2 /\ u[1] = a /\ u[2] = b
  BY <1>3
<1>7. PICK v : v = s \o t
  OBVIOUS
<1>8. /\ v \in Seq(S) /\ Len(v) = Len(s) + Len(t)
      /\ \A i \in 1 .. Len(s) : v[i] = s[i]
      /\ \A i \in 1 .. Len(t) : v[Len(s) + i] = t[i]
  <2>1. s \in Seq(S) /\ t \in Seq(S)
    BY <1>4, <1>5
  <2>2. /\ s \o t \in Seq(S) /\ Len(s \o t) = Len(s) + Len(t)
        /\ \A i \in 1 .. Len(s) : (s \o t)[i] = s[i]
        /\ \A i \in 1 .. Len(t) : (s \o t)[Len(s) + i] = t[i]
    BY <2>1
  <2>. QED
    BY <1>7, <2>2
<1>9. v[1] = a /\ v[2] = b /\ Len(v) = 2
  BY <1>4, <1>5, <1>8
<1>10. \A i \in 1 .. Len(v) : v[i] = u[i]
  BY <1>6, <1>9
<1>11. v = u
  BY <1>6, <1>8, <1>9, <1>10, CommSameSeq
<1>. QED
  BY <1>1, <1>2, <1>3, <1>7, <1>11

LEMMA CommOneIn == ASSUME NEW S, NEW a \in S PROVE <<a>> \in Seq(S)
OBVIOUS

\* A place and the next make one token or two.
LEMMA CommBoth ==
  ASSUME NEW S, NEW t \in Seq(S), NEW i \in 1 .. Len(t), i + 1 <= Len(t), NEW r \in Seq(S)
  PROVE  /\ <<t[i]>> \o (<<t[i + 1]>> \o r) = <<t[i], t[i + 1]>> \o r
         /\ SubSeq(t, i, i + 1) = <<t[i], t[i + 1]>>
<1>1. PICK j \in 1 .. Len(t) : j = i + 1
  OBVIOUS
<1>2. PICK a \in S : a = t[i]
  OBVIOUS
<1>3. PICK b \in S : b = t[j]
  OBVIOUS
<1>4. <<a>> \in Seq(S) /\ <<b>> \in Seq(S)
  BY CommOneIn
<1>5. (<<a>> \o <<b>>) \o r = <<a>> \o (<<b>> \o r)
  BY <1>4, CommAssoc
<1>6. <<a>> \o <<b>> = <<a, b>>
  BY CommTwoSymbols
<1>7. j \in i + 1 .. Len(t)
  BY <1>1
<1>8. SubSeq(t, i, j) = <<t[i]>> \o SubSeq(t, i + 1, j)
  BY <1>7, CommSubFirst
<1>9. SubSeq(t, j, j) = <<t[j]>>
  BY CommSubOne
<1>. QED
  BY <1>1, <1>2, <1>3, <1>5, <1>6, <1>8, <1>9

LEMMA CommThrough ==
  ASSUME NEW S, NEW t \in Seq(S), CommPaired(t), NEW i \in 1 .. Len(t), i + 1 <= Len(t),
         NEW mode \in Comments!Modes, NEW next \in Comments!Modes, NEW last \in Comments!Modes,
         CommLeads(t, i, mode, <<t[i]>>, i + 1, next),
             CommLeads(t, i + 1, next, <<t[i + 1]>>, i + 2, last)
  PROVE  CommLeads(t, i, mode, <<t[i], t[i + 1]>>, i + 2, last)
<1>1. PICK j \in 1 .. Len(t) + 3 : j = i + 2
  OBVIOUS
<1>2. PICK r : r = CommRestFrom(t)[j][last]
  OBVIOUS
<1>3. r \in Seq(S)
  BY <1>2, CommRestTyped
<1>4. <<t[i]>> \o (<<t[i + 1]>> \o r) = <<t[i], t[i + 1]>> \o r
  BY <1>3, CommBoth
<1>. QED
  BY <1>1, <1>2, <1>4 DEF CommLeads

\* The end of a line is both of a comment and of code.
LEMMA CommLineEnds ==
  ASSUME NEW S, NEW t \in Seq(S), CommPaired(t), NEW i \in 1 .. Len(t), t[i] = Comments!Cr
  PROVE  /\ CommRestFrom(t)[i]["line"] = CommRestFrom(t)[i]["code"]
         /\ CommUsualFrom(t)[i]["line"] => CommUsualFrom(t)[i]["code"]
<1>1. i + 1 \in 1 .. Len(t) /\ t[i + 1] = Comments!Lf /\ i + 1 <= Len(t)
  BY DEF CommPaired
<1>2. ~ Comments!Continued(t, i) /\ ~ Comments!Pairs(t, i, Comments!Slash, Comments!Slash) /\ ~ Comments!Pairs(t, i, Comments!Slash, Comments!Star)
  BY CommSymbolsDiffer DEF Comments!Continued, Comments!Pairs
<1>3. Comments!Token(t, i, "line") = CommTok("code", 2, "code") /\ "line" \in Comments!Modes /\ "code" \in Comments!Modes
  BY <1>2, CommTokenOfLine DEF Comments!Modes
<1>4. CommLeads(t, i, "line", IF "code" \in {"line", "block"} THEN <<>> ELSE SubSeq(t, i, i + 2 - 1), i + 2, "code")
  BY <1>3, CommTokenLeads
<1>5. i + 2 - 1 = i + 1
  OBVIOUS
<1>6. SubSeq(t, i, i + 1) = <<t[i], t[i + 1]>>
  <2>1. <<>> \in Seq(S)
    OBVIOUS
  <2>. QED
    BY <1>1, <2>1, CommBoth
<1>7. CommLeads(t, i, "line", <<t[i], t[i + 1]>>, i + 2, "code")
  BY <1>4, <1>5, <1>6
<1>8. /\ CommLeads(t, i, "code", <<t[i]>>, i + 1, "code")
      /\ CommUsualFrom(t)[i + 1]["code"] => CommUsualFrom(t)[i]["code"]
  BY <1>2, CommCodeSymbol, CommSymbolsDiffer
<1>9. PICK j \in 1 .. Len(t) : j = i + 1
  BY <1>1
<1>10. ~ Comments!Pairs(t, j, Comments!Slash, Comments!Slash) /\ ~ Comments!Pairs(t, j, Comments!Slash, Comments!Star)
  BY <1>1, <1>9, CommSymbolsDiffer DEF Comments!Pairs
<1>11. /\ CommLeads(t, j, "code", <<t[j]>>, j + 1, "code")
       /\ CommUsualFrom(t)[j + 1]["code"] => CommUsualFrom(t)[j]["code"]
  BY <1>1, <1>9, <1>10, CommCodeSymbol, CommSymbolsDiffer
<1>12. j + 1 = i + 2
  BY <1>9
<1>13. CommLeads(t, i, "code", <<t[i], t[i + 1]>>, i + 2, "code")
  BY <1>1, <1>3, <1>8, <1>9, <1>11, <1>12, CommThrough
<1>. QED
  BY <1>7, <1>8, <1>9, <1>11, <1>12, <1>13 DEF CommLeads

\* Literals.
LEMMA CommLiteralSymbol ==
  ASSUME NEW S, NEW t \in Seq(S), CommPaired(t), NEW i \in 1 .. Len(t),
      NEW mode \in {"str", "one_str"},
         t[i] # Comments!Backslash \/ i = Len(t)
  PROVE  CommLeads(t, i, mode, <<t[i]>>, i + 1,
               IF t[i] \in {IF mode = "str" THEN Comments!DoubleQuote ELSE Comments!Quote, Comments!Cr} THEN "code" ELSE mode)
<1>1. ~ Comments!Continued(t, i) /\ ~ (t[i] = Comments!Backslash /\ i < Len(t))
  BY DEF Comments!Continued, Comments!Pairs
<1>2. PICK next : next = IF t[i] \in {IF mode = "str" THEN Comments!DoubleQuote ELSE Comments!Quote, Comments!Cr} THEN "code" ELSE mode
  OBVIOUS
<1>3. Comments!Token(t, i, mode) = CommTok(mode, 1, next) /\ mode \in Comments!Modes
  BY <1>1, <1>2, CommTokenOfLiteral DEF Comments!Modes
<1>4. CommLeads(t, i, mode, IF mode \in {"line", "block"} THEN <<>> ELSE SubSeq(t, i, i + 1 - 1), i + 1, next)
  BY <1>3, CommTokenLeads
<1>5. SubSeq(t, i, i) = <<t[i]>> /\ i + 1 - 1 = i
  BY CommSubOne
<1>. QED
  BY <1>2, <1>4, <1>5

LEMMA CommLiteralEscapes ==
  ASSUME NEW S, NEW t \in Seq(S), CommPaired(t), NEW i \in 1 .. Len(t),
      NEW mode \in {"str", "one_str"},
         t[i] = Comments!Backslash, i < Len(t), ~ Comments!Continued(t, i)
  PROVE  /\ CommLeads(t, i, mode, <<t[i], t[i + 1]>>, i + 2, mode)
         /\ t[i + 1] = Comments!Slash => CommLeads(t, i, mode, <<t[i]>>, i + 1, mode)
<1>1. Comments!Token(t, i, mode) = CommTok(mode, 2, mode) /\ mode \in Comments!Modes
  BY CommTokenOfLiteral DEF Comments!Modes
<1>2. CommLeads(t, i, mode, IF mode \in {"line", "block"} THEN <<>> ELSE SubSeq(t, i, i + 2 - 1), i + 2, mode)
  BY <1>1, CommTokenLeads
<1>3. i + 2 - 1 = i + 1 /\ i + 1 <= Len(t) /\ i + 1 \in 1 .. Len(t)
  OBVIOUS
<1>4. \A r \in Seq(S) :
        /\ <<t[i]>> \o (<<t[i + 1]>> \o r) = <<t[i], t[i + 1]>> \o r
        /\ SubSeq(t, i, i + 1) = <<t[i], t[i + 1]>>
  BY <1>3, CommBoth
<1>5. <<>> \in Seq(S)
  OBVIOUS
<1>6. CommLeads(t, i, mode, <<t[i], t[i + 1]>>, i + 2, mode)
  BY <1>2, <1>3, <1>4, <1>5
<1>7. ASSUME t[i + 1] = Comments!Slash
      PROVE  CommLeads(t, i, mode, <<t[i]>>, i + 1, mode)
  <2>1. PICK j \in 1 .. Len(t) : j = i + 1
    BY <1>3
  <2>2. t[j] # Comments!Backslash /\ t[j] # Comments!Cr /\ t[j] # Comments!Quote /\ t[j] # Comments!DoubleQuote
    BY <1>7, <2>1, CommSymbolsDiffer
  <2>3. ~ Comments!Continued(t, j) /\ Comments!Token(t, j, mode) = CommTok(mode, 1, mode)
    <3>1. ~ Comments!Continued(t, j)
      BY <2>2 DEF Comments!Continued, Comments!Pairs
    <3>. QED
      BY <2>2, <3>1, CommTokenOfLiteral
  <2>4. /\ CommLeads(t, j, mode, IF mode \in {"line", "block"} THEN <<>> ELSE SubSeq(t, j, j + 1 - 1), j + 1, mode)
        /\ CommUsualFrom(t)[j][mode] <=> CommFits(t, j, mode) /\ CommUsualFrom(t)[j + 1][mode]
        /\ CommFits(t, j, mode) <=>
             /\ mode = "code" /\ t[j] = Comments!Backslash => Comments!Continued(t, j)
             /\ mode = "one_str" => ~ Comments!Continued(t, j)
             /\ mode = "line" /\ Comments!Continued(t, j) => Comments!PlainLine(t, j + 3)
    BY <1>1, <2>3, CommTokenLeads
  <2>5. SubSeq(t, j, j) = <<t[j]>> /\ j + 1 - 1 = j /\ j + 1 = i + 2
    BY <2>1, CommSubOne
  <2>6. PICK r : r = CommRestFrom(t)[i + 2][mode]
    OBVIOUS
  <2>7. r \in Seq(S)
    <3>1. PICK h \in 1 .. Len(t) + 3 : h = i + 2
      OBVIOUS
    <3>. QED
      BY <1>1, <2>6, <3>1, CommRestTyped
  <2>8. CommRestFrom(t)[j][mode] = <<t[j]>> \o r
    BY <2>4, <2>5, <2>6 DEF CommLeads
  <2>9. CommUsualFrom(t)[i][mode] => CommUsualFrom(t)[j][mode]
    BY <1>6, <2>2, <2>3, <2>4, <2>5 DEF CommLeads
  <2>10. CommRestFrom(t)[i][mode] = <<t[i]>> \o CommRestFrom(t)[j][mode]
    BY <1>4, <1>6, <2>1, <2>6, <2>7, <2>8 DEF CommLeads
  <2>. QED
    BY <2>1, <2>9, <2>10 DEF CommLeads
<1>. QED
  BY <1>6, <1>7

LEMMA CommLiteralContinues ==
  ASSUME NEW S, NEW t \in Seq(S), CommPaired(t), NEW i \in 1 .. Len(t), Comments!Continued(t, i)
  PROVE  /\ ~ CommUsualFrom(t)[i]["one_str"]
         /\ CommUsualFrom(t)[i]["str"] => CommUsualFrom(t)[i + 3]["str"]
         /\ CommRestFrom(t)[i]["str"] = <<t[i], t[i + 1]>> \o (<<Comments!Lf>> \o CommRestFrom(t)[i + 3]["str"])
<1>1. /\ Comments!Token(t, i, "str") = CommTok("str", 3, "str")
      /\ Comments!Token(t, i, "one_str") = CommTok("one_str", 3, "one_str")
      /\ "str" \in Comments!Modes /\ "one_str" \in Comments!Modes
  BY CommTokenOfLiteral DEF Comments!Modes
<1>2. ~ CommUsualFrom(t)[i]["one_str"]
  BY <1>1, CommTokenLeads
<1>3. CommLeads(t, i, "str", IF "str" \in {"line", "block"} THEN <<>> ELSE SubSeq(t, i, i + 3 - 1), i + 3, "str")
  BY <1>1, CommTokenLeads
<1>4. i + 1 \in 1 .. Len(t) /\ t[i + 1] = Comments!Cr
  BY DEF Comments!Continued, Comments!Pairs
<1>5. PICK j \in 1 .. Len(t) : j = i + 1
  BY <1>4
<1>6. j + 1 <= Len(t) /\ t[j + 1] = Comments!Lf /\ i + 3 - 1 = j + 1 /\ j + 1 \in i + 1 .. Len(t)
  BY <1>4, <1>5 DEF CommPaired
<1>7. PICK k \in i + 1 .. Len(t) : k = j + 1
  BY <1>6
<1>8. PICK r : r = CommRestFrom(t)[i + 3]["str"]
  OBVIOUS
<1>9. r \in Seq(S)
  <2>1. PICK h \in 1 .. Len(t) + 3 : h = i + 3
    OBVIOUS
  <2>. QED
    BY <1>1, <1>8, <2>1, CommRestTyped
<1>10. SubSeq(t, i, k) = <<t[i]>> \o SubSeq(t, j, k)
  BY <1>5, <1>7, CommSubFirst
<1>11. SubSeq(t, j, k) = <<t[j], t[k]>>
  BY <1>6, <1>7, <1>9, CommBoth
<1>12. PICK a \in S : a = t[i]
  OBVIOUS
<1>13. PICK b \in S : b = t[j]
  OBVIOUS
<1>14. PICK c \in S : c = t[k]
  BY <1>5, <1>7
<1>15. <<a>> \in Seq(S) /\ <<b>> \in Seq(S) /\ <<c>> \in Seq(S)
  BY CommOneIn
<1>16. <<b>> \o <<c>> = <<b, c>> /\ <<a>> \o <<b>> = <<a, b>>
  BY CommTwoSymbols
<1>17. SubSeq(t, i, k) = <<a, b>> \o <<c>>
  BY <1>10, <1>11, <1>12, <1>13, <1>14, <1>15, <1>16, CommAssoc
<1>18. <<a, b>> \in Seq(S)
  BY <1>15, <1>16, CommJoined
<1>19. SubSeq(t, i, k) \o r = <<a, b>> \o (<<c>> \o r)
  BY <1>9, <1>15, <1>17, <1>18, CommAssoc
<1>20. CommRestFrom(t)[i]["str"] = SubSeq(t, i, k) \o r
  BY <1>3, <1>6, <1>7, <1>8 DEF CommLeads
<1>. QED
  BY <1>2, <1>3, <1>5, <1>6, <1>7, <1>8, <1>12, <1>13, <1>14, <1>19, <1>20 DEF CommLeads

\* The flags that tell where in the text the loop is.
CommModal == Comments!InComments \cup Comments!InLiterals \cup {"continue", "transfer_str"}
CommOnly(f, names) == \A x \in CommModal : x \in f <=> x \in names

LEMMA CommHasIs ==
  ASSUME NEW f
  PROVE  /\ Comments!Has(f, Comments!InComments)
              <=> "in_comment" \in f \/ "comment" \in f \/ "transfer_comment" \in f
         /\ Comments!Has(f, Comments!InLiterals) <=> "in_str" \in f \/ "in_one_str" \in f
         /\ Comments!Has(f, Comments!InComments \cup {"false_symbol"})
              <=> Comments!Has(f, Comments!InComments) \/ "false_symbol" \in f
         /\ Comments!Has(f, Comments!InComments \cup Comments!InLiterals)
              <=> Comments!Has(f, Comments!InComments) \/ Comments!Has(f, Comments!InLiterals)
         /\ Comments!Has(f, Comments!InLiterals \cup {"in_comment", "comment"}) <=>
              Comments!Has(f, Comments!InLiterals) \/ "in_comment" \in f \/ "comment" \in f
         /\ Comments!Has(f, Comments!InLiterals \cup {"in_comment"})
              <=> Comments!Has(f, Comments!InLiterals) \/ "in_comment" \in f
BY DEF Comments!Has, Comments!InComments, Comments!InLiterals

LEMMA CommKnownHas ==
  /\ \A x \in {"in_comment", "comment", "transfer_comment", "continue"} : x \in Comments!Known
       <=> x \in flags
  /\ Comments!simvol1 # Comments!Lf =>
       /\ "in_str" \in Comments!Known <=> "in_str" \in flags
       /\ "in_one_str" \in Comments!Known <=> "in_one_str" \in flags
       /\ "transfer_str" \in Comments!Known <=>
            \/ "transfer_str" \in flags
            \/ Comments!simvol1 = Comments!Backslash /\ Comments!simvol2 \in Comments!Ends
                 /\ ~ Comments!Has(flags, Comments!InComments) /\ "in_str" \in flags
       /\ Comments!simvol1 = Comments!Backslash /\ Comments!simvol2 \in Comments!Ends
            /\ ~ Comments!Has(flags, Comments!InComments)
            => "transfer_false_symbol" \in Comments!Known
       /\ "false_symbol" \in Comments!Known
            <=> Comments!simvol1 = Comments!Backslash /\ "false_symbol" \in flags
  /\ Comments!simvol1 = Comments!Lf =>
       /\ "in_str" \in Comments!Known <=> "transfer_str" \in flags
       /\ "in_one_str" \notin Comments!Known /\ "transfer_str" \notin Comments!Known
       /\ "false_symbol" \in Comments!Known <=> "transfer_false_symbol" \notin flags
<1>1. PICK f : f = Comments!check_false_symbol(flags)
  OBVIOUS
<1>2. /\ \A x : x # "false_symbol" => (x \in f <=> x \in flags)
      /\ "false_symbol" \in f <=> Comments!simvol1 = Comments!Backslash /\ "false_symbol" \in flags
  BY <1>1 DEF Comments!check_false_symbol
<1>3. PICK g : g = Comments!check_new_line(f)
  OBVIOUS
<1>4. /\ \A x \in {"in_comment", "comment", "transfer_comment", "continue"} : x \in g <=> x \in f
      /\ Comments!simvol1 # Comments!Lf => g = f
      /\ Comments!simvol1 = Comments!Lf =>
           /\ "in_str" \in g <=> "transfer_str" \in f
           /\ "in_one_str" \notin g /\ "transfer_str" \notin g
           /\ "false_symbol" \in g <=> "transfer_false_symbol" \notin f
  BY <1>3 DEF Comments!check_new_line, Comments!Put
<1>5. Comments!Known = Comments!check_transfer_str(g)
  BY <1>1, <1>3 DEF Comments!Known
<1>6. /\ \A x : x \notin {"transfer_str", "transfer_false_symbol"}
           => (x \in Comments!Known <=> x \in g)
      /\ "transfer_str" \in Comments!Known <=>
           \/ "transfer_str" \in g
           \/ Comments!simvol1 = Comments!Backslash /\ Comments!simvol2 \in Comments!Ends
                /\ ~ Comments!Has(g, Comments!InComments) /\ "in_str" \in g
      /\ Comments!simvol1 = Comments!Backslash /\ Comments!simvol2 \in Comments!Ends
           /\ ~ Comments!Has(g, Comments!InComments) => "transfer_false_symbol" \in Comments!Known
  BY <1>5 DEF Comments!check_transfer_str
<1>7. Comments!Has(g, Comments!InComments) <=> Comments!Has(flags, Comments!InComments)
  BY <1>2, <1>4, CommHasIs
<1>8. Comments!simvol1 = Comments!Lf => Comments!simvol1 # Comments!Backslash
  BY CommSymbolsDiffer
<1>. QED
  BY <1>2, <1>4, <1>6, <1>7, <1>8

\* What is written and what a mode leaves from a symbol on make the copy.
CommLeft(t, o, i, mode) ==
  CommUsualFrom(t)[i][mode] /\ o \o CommRestFrom(t)[i][mode] = CommRestFrom(t)[1]["code"]
CommLeftBehind(t, o, i, mode) ==
  /\ CommUsualFrom(t)[i][mode]
  /\ o \o (<<Comments!Lf>> \o CommRestFrom(t)[i][mode]) = CommRestFrom(t)[1]["code"]

LEMMA CommFollow ==
  ASSUME NEW S, NEW t \in Seq(S), CommPaired(t), NEW o \in Seq(S), NEW i, NEW mode,
      NEW w \in Seq(S),
         NEW j \in 1 .. Len(t) + 3, NEW next \in Comments!Modes,
         CommLeft(t, o, i, mode), CommLeads(t, i, mode, w, j, next)
  PROVE  CommLeft(t, o \o w, j, next)
<1>1. PICK r : r = CommRestFrom(t)[j][next]
  OBVIOUS
<1>2. r \in Seq(S)
  BY <1>1, CommRestTyped
<1>3. (o \o w) \o r = o \o (w \o r)
  BY <1>2, CommAssoc, SMTT(30)
<1>. QED
  BY <1>1, <1>3 DEF CommLeft, CommLeads

\* Leads, with a line feed between.
CommLeadsBehind(t, i, mode, w, j, next) ==
  /\ CommRestFrom(t)[i][mode] = w \o (<<Comments!Lf>> \o CommRestFrom(t)[j][next])
  /\ CommUsualFrom(t)[i][mode] => CommUsualFrom(t)[j][next]

LEMMA CommFollowBehind ==
  ASSUME NEW S, NEW t \in Seq(S), CommPaired(t), NEW o \in Seq(S), NEW i, NEW mode,
      NEW w \in Seq(S),
         NEW j \in 1 .. Len(t) + 3, NEW next \in Comments!Modes, Comments!Lf \in S,
         CommLeft(t, o, i, mode), CommLeadsBehind(t, i, mode, w, j, next)
  PROVE  CommLeftBehind(t, o \o w, j, next)
<1>1. PICK u : u = <<Comments!Lf>> \o CommRestFrom(t)[j][next]
  OBVIOUS
<1>2. u \in Seq(S)
  <2>1. <<Comments!Lf>> \in Seq(S)
    BY CommOneIn
  <2>2. CommRestFrom(t)[j][next] \in Seq(S)
    BY CommRestTyped
  <2>. QED
    BY <1>1, <2>1, <2>2, CommJoined
<1>3. (o \o w) \o u = o \o (w \o u)
  BY <1>2, CommAssoc, SMTT(30)
<1>. QED
  BY <1>1, <1>3 DEF CommLeft, CommLeftBehind, CommLeadsBehind

\* At the end nothing is left.
LEMMA CommEnded ==
  ASSUME NEW S, NEW t \in Seq(S), CommPaired(t), NEW o \in Seq(S), NEW i, i = Len(t) + 1,
      NEW mode \in Comments!Modes,
         CommLeft(t, o, i, mode)
  PROVE  o = CommRestFrom(t)[1]["code"]
<1>1. PICK j \in 1 .. Len(t) + 3 : j = i /\ j > Len(t)
  OBVIOUS
<1>2. CommRestFrom(t)[j][mode] = <<>>
  <2>1. CommRestFrom(t)[j][mode] =
           IF j > Len(t) THEN <<>>
           ELSE CommPiece(t, j, mode) \o CommRestFrom(t)[j + Comments!Token(t, j, mode).len][Comments!Token(t, j, mode).then]
    BY CommRestIs
  <2>. QED
    BY <1>1, <2>1
<1>3. o \o <<>> = o
  BY CommNoneLeft
<1>. QED
  BY <1>1, <1>2, <1>3 DEF CommLeft

----------------------------------------------------------------------------
\* Where in the text the loop is, by the flags.
CommReads(t, p) == IF p < Len(t) THEN t[p + 1] ELSE Comments!Eof

CommInCode(t, p, f, o) == CommOnly(f, {}) /\ CommLeft(t, o, p + 1, "code")
CommInLine(t, p, f, o) == CommOnly(f, {"comment"}) /\ CommReads(t, p) # Comments!Lf /\ CommLeft(t, o, p + 1, "line")
CommInBlock(t, p, f, o) == CommOnly(f, {"in_comment"}) /\ CommLeft(t, o, p + 1, "block")
CommInString(t, p, f, o) ==
  /\ CommReads(t, p) # Comments!Lf /\ CommOnly(f, {"in_str"}) /\ "false_symbol" \notin f
  /\ CommLeft(t, o, p + 1, "str")
CommInLiteral(t, p, f, o) ==
  /\ CommReads(t, p) # Comments!Lf /\ CommOnly(f, {"in_one_str"}) /\ "false_symbol" \notin f
  /\ CommLeft(t, o, p + 1, "one_str")
\* The line feed behind a literal that an end of line has closed, and behind a
\* backslash that continues a string.
CommBehindLiteral(t, p, f, o) ==
  /\ CommReads(t, p) = Comments!Lf /\ (CommOnly(f, {"in_str"}) \/ CommOnly(f, {"in_one_str"}))
  /\ CommLeftBehind(t, o, p + 2, "code")
CommBehindString(t, p, f, o) ==
  /\ CommReads(t, p) = Comments!Lf /\ CommOnly(f, {"in_str", "transfer_str"})
  /\ "transfer_false_symbol" \in f
  /\ CommLeftBehind(t, o, p + 2, "str")
\* The rest of a continued line.
CommPlain(t, p) ==
  \E end \in p + 1 .. Len(t) + 1 :
    /\ end = Len(t) + 1 \/ (t[end] = Comments!Cr /\ end >= p + 2)
    /\ \A k \in p + 1 .. end - 1 : t[k] \notin {Comments!Cr, Comments!Backslash} /\ ~ Comments!Pairs(t, k, Comments!Slash, Comments!Star)
CommInPlain(t, p, f, o) ==
  /\ CommOnly(f, {"transfer_comment"}) \/ CommOnly(f, {"transfer_comment", "comment"})
  /\ CommReads(t, p) # Comments!Lf /\ CommLeft(t, o, p + 1, "line") /\ CommPlain(t, p)
\* The line feed before it.
CommBeforePlain(t, p, f, o) ==
  /\ CommOnly(f, {"transfer_comment", "continue"})
  /\ CommReads(t, p) = Comments!Lf /\ CommLeft(t, o, p + 2, "line") /\ Comments!PlainLine(t, p + 2)

CommSomewhere(t, p, f, o) ==
  \/ CommInCode(t, p, f, o) \/ CommInLine(t, p, f, o) \/ CommInBlock(t, p, f, o)
  \/ CommInString(t, p, f, o) \/ CommInLiteral(t, p, f, o)
  \/ CommBehindLiteral(t, p, f, o) \/ CommBehindString(t, p, f, o)
  \/ CommInPlain(t, p, f, o) \/ CommBeforePlain(t, p, f, o)

CommCopied ==
  CommUsualFrom(text)[1]["code"] =>
    IF eof THEN out = CommRestFrom(text)[1]["code"] ELSE CommSomewhere(text, pos, flags, out)

LEMMA CommFileIs ==
  ASSUME CommIInv
  PROVE  /\ text \in Seq(STRING) /\ out \in Seq(STRING) /\ Len(text) \in Nat /\ pos \in 0 .. Len(text)
         /\ CommPaired(text)
         /\ \A k \in 1 .. Len(text) :
              text[k] \in STRING /\ text[k] # Comments!Eof /\ (text[k] = Comments!Lf => k > 1 /\ text[k - 1] = Comments!Cr)
         /\ Comments!simvol1 = CommReads(text, pos) /\ Comments!simvol2 = CommReads(text, pos + 1)
         /\ Comments!AtEnd <=> pos + 1 >= Len(text)
         /\ ~ Comments!AtEnd => Comments!Behind = pos + 2
<1>1. IsCFile(text) /\ text \in Seq(STRING) /\ Len(text) \in Nat /\ (~ Comments!AtEnd => Comments!Behind = pos + 2)
  BY CommReadIs
<1>2. out \in Seq(STRING) /\ pos \in 0 .. Len(text)
  BY DEF CommIInv, CommFromText
<1>3. ASSUME NEW k \in 1 .. Len(text), text[k] = Comments!Cr
      PROVE  k < Len(text) /\ text[k + 1] = Comments!Lf
  <2>1. text # <<>>
    BY <1>1
  <2>2. k # Len(text)
    BY <1>1, <1>3, <2>1 DEF IsCFile, Comments!Cr
  <2>3. PICK j \in DOMAIN text : j = k + 1
    BY <1>1, <2>2
  <2>4. j > 1 /\ text[j - 1] = "CR"
    BY <1>3, <2>3 DEF Comments!Cr
  <2>5. text[j] = "LF"
    BY <1>1, <2>4 DEF IsCFile
  <2>. QED
    BY <1>1, <2>2, <2>3, <2>5 DEF Comments!Lf
<1>4. ASSUME NEW k \in 1 .. Len(text)
      PROVE  text[k] \in STRING /\ text[k] # Comments!Eof /\ (text[k] = Comments!Lf => k > 1 /\ text[k - 1] = Comments!Cr)
  <2>1. k \in DOMAIN text /\ text[k] \in STRING
    BY <1>1
  <2>. QED
    BY <1>1, <2>1 DEF IsCFile, Comments!Cr, Comments!Lf, Comments!Eof
<1>5. Comments!simvol1 = CommReads(text, pos) /\ Comments!simvol2 = CommReads(text, pos + 1)
  BY DEF Comments!simvol1, Comments!simvol2, Comments!At, CommReads
<1>6. Comments!AtEnd <=> pos + 1 >= Len(text)
  <2>1. CASE pos + 1 < Len(text)
    <3>1. PICK j \in 1 .. Len(text) : j = pos + 1 + 1
      BY <1>1, <1>2, <2>1
    <3>2. Comments!simvol2 = text[j]
      BY <1>5, <2>1, <3>1 DEF CommReads
    <3>. QED
      BY <1>1, <1>2, <1>4, <2>1, <3>2 DEF Comments!AtEnd
  <2>2. CASE ~ (pos + 1 < Len(text))
    BY <1>1, <1>2, <1>5, <2>2 DEF CommReads, Comments!AtEnd
  <2>. QED
    BY <2>1, <2>2
<1>. QED
  BY <1>1, <1>2, <1>3, <1>4, <1>5, <1>6 DEF CommPaired

LEMMA CommSomeSymbols == ASSUME CommIInv PROVE \E S : text \in Seq(S) /\ out \in Seq(S)
BY CommFileIs

LEMMA CommCopiedNext ==
  ASSUME text' = text,
         IF eof' THEN out' = CommRestFrom(text)[1]["code"]
             ELSE CommSomewhere(text, pos', flags', out')
  PROVE  CommCopied'
BY DEF CommCopied

\* An iteration that does not meet the end goes on, and one that does writes the last
\* symbol unless it is in a comment.
LEMMA CommGoesOn ==
  ASSUME NEW w, NEW f, NEW to, Comments!EndsWith(w, f, to), ~ Comments!AtEnd,
      CommSomewhere(text, to, f, out \o w)
  PROVE  CommCopied'
<1>1. /\ text' = text /\ eof' = FALSE /\ pos' = to /\ flags' = f /\ out' = out \o w
  BY DEF Comments!EndsWith, Comments!AtEnd
<1>. QED
  BY <1>1, CommCopiedNext

LEMMA CommSeeking ==
  ASSUME NEW f, NEW to, Comments!Seeks(to, f), CommSomewhere(text, to, f, out)
  PROVE  CommCopied'
<1>1. /\ text' = text /\ eof' = FALSE /\ pos' = to /\ flags' = f /\ out' = out
  BY DEF Comments!Seeks
<1>. QED
  BY <1>1, CommCopiedNext

LEMMA CommFinishes ==
  ASSUME CommIInv, NEW S, text \in Seq(S), out \in Seq(S), NEW w, NEW f, NEW to,
      Comments!EndsWith(w, f, to), Comments!AtEnd,
         NEW mode \in Comments!Modes, CommLeft(text, out, pos + 1, mode),
         NEW next \in Comments!Modes, NEW i, i = pos + 1,
         i = Len(text) =>
           /\ Comments!Has(f, Comments!InComments) => CommLeads(text, i, mode, <<>>, i + 1, next)
           /\ ~ Comments!Has(f, Comments!InComments)
                => CommLeads(text, i, mode, <<text[i]>>, i + 1, next)
  PROVE  CommCopied'
<1>1. /\ text \in Seq(S) /\ out \in Seq(S) /\ Len(text) \in Nat /\ pos \in 0 .. Len(text)
      /\ CommPaired(text) /\ Comments!simvol1 = CommReads(text, pos) /\ pos + 1 >= Len(text)
      /\ \A k \in 1 .. Len(text) : text[k] # Comments!Eof
  BY CommFileIs
<1>2. /\ text' = text /\ eof' = TRUE
      /\ out' = out \o (IF Comments!simvol1 = Comments!Eof \/ Comments!Has(f, Comments!InComments) THEN <<>> ELSE <<Comments!simvol1>>)
  BY DEF Comments!EndsWith, Comments!AtEnd
<1>3. CASE i = Len(text) + 1
  <2>1. Comments!simvol1 = Comments!Eof
    BY <1>1, <1>3 DEF CommReads
  <2>2. out \o <<>> = out
    BY <1>1, CommNoneLeft
  <2>3. out = CommRestFrom(text)[1]["code"]
    BY <1>1, <1>3, CommEnded
  <2>. QED
    BY <1>2, <2>1, <2>2, <2>3, CommCopiedNext
<1>4. CASE i = Len(text)
  <2>1. i \in 1 .. Len(text) /\ Comments!simvol1 = text[i] /\ Comments!simvol1 # Comments!Eof
    <3>1. i \in 1 .. Len(text)
      BY <1>1, <1>4
    <3>2. Comments!simvol1 = text[i]
      BY <1>1, <1>4, <3>1 DEF CommReads
    <3>. QED
      BY <1>1, <3>1, <3>2
  <2>2. PICK w1 \in Seq(S) :
               /\ w1 = IF Comments!Has(f, Comments!InComments) THEN <<>> ELSE <<text[i]>>
               /\ out' = out \o w1
    <3>1. PICK a \in S : a = text[i]
      BY <1>1, <2>1
    <3>2. <<a>> \in Seq(S) /\ <<>> \in Seq(S)
      BY CommOneIn
    <3>. QED
      BY <1>2, <2>1, <3>1, <3>2
  <2>3. CommLeads(text, i, mode, w1, i + 1, next)
    BY <1>4, <2>2
  <2>4. PICK j \in 1 .. Len(text) + 3 : j = i + 1
    BY <2>1
  <2>5. CommLeft(text, out \o w1, j, next)
    BY <1>1, <2>3, <2>4, CommFollow
  <2>6. out \o w1 \in Seq(S) /\ j = Len(text) + 1
    BY <1>1, <1>4, <2>2, <2>4, CommJoined
  <2>7. out \o w1 = CommRestFrom(text)[1]["code"]
    BY <1>1, <2>5, <2>6, CommEnded
  <2>. QED
    BY <1>2, <2>2, <2>7, CommCopiedNext
<1>. QED
  BY <1>1, <1>3, <1>4

LEMMA CommFollowNone ==
  ASSUME NEW S, NEW t \in Seq(S), CommPaired(t), NEW o \in Seq(S), NEW i, NEW mode,
         NEW j \in 1 .. Len(t) + 3, NEW next \in Comments!Modes,
         CommLeft(t, o, i, mode), CommLeads(t, i, mode, <<>>, j, next)
  PROVE  CommLeft(t, o, j, next)
<1>1. <<>> \in Seq(S) /\ o \o <<>> = o
  BY CommNoneLeft
<1>2. PICK w \in Seq(S) : w = <<>>
  BY <1>1
<1>3. CommLeft(t, o \o w, j, next)
  BY <1>2, CommFollow
<1>. QED
  BY <1>1, <1>2, <1>3

\* The two symbols that are read, by their places.
LEMMA CommPlaces ==
  ASSUME CommIInv, NEW i, i = pos + 1
  PROVE  /\ i \in 1 .. Len(text) + 1 /\ pos \in Nat /\ Len(text) \in Nat
         /\ i <= Len(text) => Comments!simvol1 = text[i]
         /\ i + 1 <= Len(text) => Comments!simvol2 = text[i + 1]
         /\ Comments!AtEnd <=> i >= Len(text)
         /\ Comments!AtEnd <=> Comments!simvol2 = Comments!Eof
         /\ i + 1 <= Len(text) /\ text[i] # Comments!Cr => CommReads(text, pos + 1) # Comments!Lf
         /\ i <= Len(text) => text[i] # Comments!Eof
         /\ \A a, b : a # Comments!Eof /\ b # Comments!Eof
              => (Comments!Pairs(text, i, a, b) <=> Comments!simvol1 = a /\ Comments!simvol2 = b)
<1>1. /\ text \in Seq(STRING) /\ Len(text) \in Nat /\ pos \in 0 .. Len(text)
      /\ \A k \in 1 .. Len(text) : text[k] # Comments!Eof /\ (text[k] = Comments!Lf => k > 1 /\ text[k - 1] = Comments!Cr)
      /\ Comments!simvol1 = CommReads(text, pos) /\ Comments!simvol2 = CommReads(text, pos + 1)
      /\ Comments!AtEnd <=> pos + 1 >= Len(text)
  BY CommFileIs
<1>2. i <= Len(text) => Comments!simvol1 = text[i] /\ text[i] # Comments!Eof
  BY <1>1 DEF CommReads
<1>3. i + 1 <= Len(text) => Comments!simvol2 = text[i + 1] /\ CommReads(text, pos + 1) = text[i + 1]
  BY <1>1 DEF CommReads
<1>4. ASSUME i + 1 <= Len(text), text[i] # Comments!Cr
      PROVE  CommReads(text, pos + 1) # Comments!Lf
  <2>1. PICK j \in 1 .. Len(text) : j = i + 1
    BY <1>1, <1>4
  <2>2. text[j] = Comments!Lf => j > 1 /\ text[j - 1] = Comments!Cr
    BY <1>1
  <2>3. j - 1 = i
    BY <1>1, <2>1
  <2>. QED
    BY <1>3, <1>4, <2>1, <2>2, <2>3
<1>5. Comments!AtEnd <=> Comments!simvol2 = Comments!Eof
  BY DEF Comments!AtEnd
<1>6. ASSUME NEW a, NEW b, a # Comments!Eof, b # Comments!Eof
      PROVE  Comments!Pairs(text, i, a, b) <=> Comments!simvol1 = a /\ Comments!simvol2 = b
  <2>1. CASE i < Len(text)
    BY <1>1, <1>2, <1>3, <2>1 DEF Comments!Pairs
  <2>2. CASE ~ (i < Len(text))
    <3>1. Comments!simvol2 = Comments!Eof
      BY <1>1, <1>5, <2>2
    <3>. QED
      BY <1>6, <2>2, <3>1 DEF Comments!Pairs
  <2>. QED
    BY <2>1, <2>2
<1>. QED
  BY <1>1, <1>2, <1>3, <1>4, <1>5, <1>6

LEMMA CommOnlyIs ==
  ASSUME NEW f, NEW names
  PROVE  CommOnly(f, names) <=>
           /\ "in_comment" \in f <=> "in_comment" \in names
           /\ "comment" \in f <=> "comment" \in names
           /\ "transfer_comment" \in f <=> "transfer_comment" \in names
           /\ "in_str" \in f <=> "in_str" \in names
           /\ "in_one_str" \in f <=> "in_one_str" \in names
           /\ "continue" \in f <=> "continue" \in names
           /\ "transfer_str" \in f <=> "transfer_str" \in names
BY DEF CommOnly, CommModal, Comments!InComments, Comments!InLiterals

\* The modes' steps.
LEMMA CommCodeStep ==
  ASSUME CommIInv, CommInCode(text, pos, flags, out), Comments!Next
  PROVE  CommCopied'
<1>1. PICK S : text \in Seq(S) /\ out \in Seq(S)
  BY CommSomeSymbols
<1>2. PICK i : i = pos + 1
  OBVIOUS
<1>3. /\ i \in 1 .. Len(text) + 1 /\ pos \in Nat /\ Len(text) \in Nat
      /\ i <= Len(text) => Comments!simvol1 = text[i]
      /\ i + 1 <= Len(text) => Comments!simvol2 = text[i + 1]
      /\ Comments!AtEnd <=> i >= Len(text)
      /\ Comments!AtEnd <=> Comments!simvol2 = Comments!Eof
      /\ i + 1 <= Len(text) /\ text[i] # Comments!Cr => CommReads(text, pos + 1) # Comments!Lf
      /\ i <= Len(text) => text[i] # Comments!Eof
      /\ \A a, b : a # Comments!Eof /\ b # Comments!Eof
           => (Comments!Pairs(text, i, a, b) <=> Comments!simvol1 = a /\ Comments!simvol2 = b)
  BY <1>2, CommPlaces
<1>4. CommPaired(text) /\ (~ Comments!AtEnd => Comments!Behind = pos + 2) /\ "code" \in Comments!Modes
  BY CommFileIs DEF Comments!Modes
<1>5. CommOnly(flags, {}) /\ CommLeft(text, out, i, "code")
  BY <1>2 DEF CommInCode
<1>6. /\ "continue" \notin flags /\ ~ Comments!Has(flags, Comments!InComments)
      /\ "in_str" \notin flags
      /\ "in_one_str" \notin flags /\ "transfer_str" \notin flags
  BY <1>5, CommOnlyIs, CommHasIs
<1>7. /\ CommOnly(Comments!Known, {})
      /\ Comments!simvol1 \notin {Comments!Lf, Comments!Backslash}
           => "false_symbol" \notin Comments!Known
  BY <1>5, <1>6, CommOnlyIs, CommKnownHas
<1>8. ~ Comments!Has(Comments!Known, Comments!InComments) /\ ~ Comments!Has(Comments!Known, Comments!InLiterals)
  BY <1>7, CommOnlyIs, CommHasIs
<1>9. /\ "comment" \notin Comments!Known /\ "in_comment" \notin Comments!Known
      /\ "transfer_comment" \notin Comments!Known
      /\ "in_str" \notin Comments!Known /\ "in_one_str" \notin Comments!Known
  BY <1>7, CommOnlyIs
<1>10. ~ (Comments!Lingers \/ Comments!ClosesLiteral \/ Comments!ClosesString \/ Comments!ClosesComment \/ Comments!EndsLine \/ Comments!ContinuesLine
          \/ Comments!EndsTransferred \/ Comments!SkipsTransferred)
  BY <1>6, <1>9 DEF Comments!Lingers, Comments!ClosesLiteral, Comments!ClosesString,
     Comments!ClosesComment, Comments!EndsLine, Comments!ContinuesLine,
     Comments!EndsTransferred, Comments!SkipsTransferred
<1>11. Comments!Escape \/ Comments!OpenLiteral \/ Comments!OpenComment \/ Comments!Pass
  BY <1>10 DEF Comments!Next, Comments!Linger, Comments!CloseString, Comments!CloseComment,
     Comments!EndLine, Comments!ContinueLine, Comments!EndTransferred,
     Comments!SkipTransferred
<1>12. /\ Comments!OpensLiteral <=> Comments!simvol1 = Comments!Quote
       /\ Comments!OpensString <=> Comments!simvol1 = Comments!DoubleQuote
       /\ Comments!OpensComment
            <=> Comments!simvol1 = Comments!Slash /\ Comments!simvol2 = Comments!Star
       /\ Comments!OpensLine
            <=> Comments!simvol1 = Comments!Slash /\ Comments!simvol2 = Comments!Slash
  BY <1>8, <1>9, CommHasIs DEF Comments!OpensLiteral, Comments!OpensString,
     Comments!OpensComment, Comments!OpensLine, Comments!Pair
<1>13. PICK next : next = IF Comments!simvol1 = Comments!DoubleQuote THEN "str"
         ELSE IF Comments!simvol1 = Comments!Quote THEN "one_str" ELSE "code"
  OBVIOUS
<1>14. next \in Comments!Modes
  BY <1>13 DEF Comments!Modes
<1>15. ASSUME i <= Len(text), ~ Comments!Pairs(text, i, Comments!Slash, Comments!Slash),
         ~ Comments!Pairs(text, i, Comments!Slash, Comments!Star)
       PROVE  /\ CommLeads(text, i, "code", <<text[i]>>, i + 1, next)
              /\ Comments!simvol1 = Comments!Backslash => Comments!Continued(text, i)
              /\ <<text[i]>> \in Seq(S)
  <2>1. i \in 1 .. Len(text) /\ Comments!simvol1 = text[i]
    BY <1>3, <1>15
  <2>2. PICK a \in S : a = text[i]
    BY <1>1, <2>1
  <2>3. <<a>> \in Seq(S)
    BY CommOneIn
  <2>4. /\ CommLeads(text, i, "code", <<text[i]>>, i + 1, IF text[i] = Comments!DoubleQuote THEN "str"
                                                 ELSE IF text[i] = Comments!Quote THEN "one_str"
                                                     ELSE "code")
        /\ CommUsualFrom(text)[i]["code"] /\ text[i] = Comments!Backslash
             => Comments!Continued(text, i)
    BY <1>1, <1>4, <1>15, <2>1, CommCodeSymbol
  <2>. QED
    BY <1>5, <1>13, <2>1, <2>2, <2>3, <2>4 DEF CommLeft
<1>16. PICK f : f = (Comments!Known \ (IF Comments!ClosesLiteral THEN {"in_one_str"} ELSE {}))
                      \cup (IF Comments!OpensString THEN {"in_str"} ELSE {})
                      \cup (IF Comments!OpensLine THEN {"comment"} ELSE {})
  OBVIOUS
<1>17. CASE Comments!AtEnd
  <2>1. Comments!simvol2 = Comments!Eof /\ i >= Len(text)
    BY <1>3, <1>17
  <2>2. ~ Comments!OpensComment /\ ~ Comments!OpensLine
    BY <1>12, <2>1, CommSymbolsDiffer
  <2>3. ~ Comments!Pairs(text, i, Comments!Slash, Comments!Slash) /\ ~ Comments!Pairs(text, i, Comments!Slash, Comments!Star)
    BY <1>3, <2>1 DEF Comments!Pairs
  <2>4. i = Len(text) => CommLeads(text, i, "code", <<text[i]>>, i + 1, next)
    BY <1>3, <1>15, <2>3
  <2>5. CommLeft(text, out, pos + 1, "code")
    BY <1>2, <1>5
  <2>6. PICK w, g, to : Comments!EndsWith(w, g, to) /\ ~ Comments!Has(g, Comments!InComments)
    <3>1. CASE Comments!Escape
      BY <1>8, <3>1 DEF Comments!Escape
    <3>2. CASE Comments!OpenLiteral
      <4>1. ~ Comments!Has(Comments!Known \cup {"in_one_str"}, Comments!InComments)
        BY <1>9, CommHasIs
      <4>. QED
        BY <3>2, <4>1 DEF Comments!OpenLiteral
    <3>3. CASE Comments!OpenComment
      BY <2>2, <3>3 DEF Comments!OpenComment
    <3>4. CASE Comments!Pass
      <4>1. ~ Comments!Has(f, Comments!InComments)
        BY <1>9, <1>16, <2>2, CommHasIs
      <4>. QED
        BY <1>16, <3>4, <4>1 DEF Comments!Pass
    <3>. QED
      BY <1>11, <3>1, <3>2, <3>3, <3>4
  <2>. QED
    BY <1>1, <1>2, <1>4, <1>14, <1>17, <2>4, <2>5, <2>6, CommFinishes
<1>18. CASE ~ Comments!AtEnd
  <2>1. i + 1 <= Len(text) /\ i \in 1 .. Len(text) /\ Comments!simvol1 = text[i] /\ Comments!simvol2 = text[i + 1] /\ Comments!Behind = pos + 2
    BY <1>3, <1>4, <1>18
  <2>2. PICK j \in 1 .. Len(text) : j = i + 1 /\ j = pos + 2 /\ j \in 1 .. Len(text) + 3
    BY <1>2, <1>3, <2>1
  <2>3. PICK h \in 1 .. Len(text) + 3 : h = i + 2 /\ h = (pos + 2) + 1 /\ h = j + 1
    BY <1>2, <1>3, <2>1, <2>2
  <2>4. CASE Comments!Escape
    <3>1. Comments!simvol1 = Comments!Backslash /\ Comments!EndsWith(Comments!Pair, Comments!Known, Comments!Behind)
      BY <2>4 DEF Comments!Escape, Comments!Escapes
    <3>2. ~ Comments!Pairs(text, i, Comments!Slash, Comments!Slash) /\ ~ Comments!Pairs(text, i, Comments!Slash, Comments!Star) /\ next = "code"
      BY <1>13, <2>1, <3>1, CommSymbolsDiffer DEF Comments!Pairs
    <3>3. CommLeads(text, i, "code", <<text[i]>>, i + 1, "code") /\ Comments!Continued(text, i)
      BY <1>3, <1>15, <2>1, <3>1, <3>2
    <3>4. text[j] = Comments!Cr
      BY <2>2, <3>3 DEF Comments!Continued, Comments!Pairs
    <3>5. ~ Comments!Pairs(text, j, Comments!Slash, Comments!Slash) /\ ~ Comments!Pairs(text, j, Comments!Slash, Comments!Star) /\ text[j] # Comments!DoubleQuote /\ text[j] # Comments!Quote
      BY <3>4, CommSymbolsDiffer DEF Comments!Pairs
    <3>6. CommLeads(text, j, "code", <<text[j]>>, j + 1, "code")
      BY <1>1, <1>4, <3>5, CommCodeSymbol
    <3>7. CommLeads(text, i, "code", <<text[i], text[i + 1]>>, i + 2, "code")
      BY <1>1, <1>4, <2>1, <2>2, <2>3, <3>3, <3>6, CommThrough
    <3>8. Comments!Pair = <<text[i], text[i + 1]>> /\ Comments!Pair \in Seq(S)
      <4>1. PICK a \in S : a = text[i]
        BY <1>1, <2>1
      <4>2. PICK b \in S : b = text[j]
        BY <1>1, <2>2
      <4>3. <<a, b>> \in Seq(S)
        BY CommShortSeqs
      <4>. QED
        BY <2>1, <2>2, <4>1, <4>2, <4>3 DEF Comments!Pair
    <3>9. CommLeft(text, out \o Comments!Pair, h, "code")
      BY <1>1, <1>4, <1>5, <2>3, <3>7, <3>8, CommFollow
    <3>10. CommInCode(text, pos + 2, Comments!Known, out \o Comments!Pair)
      BY <1>7, <2>3, <3>9 DEF CommInCode
    <3>. QED
      BY <1>18, <2>1, <3>1, <3>10, CommGoesOn DEF CommSomewhere
  <2>5. CASE Comments!OpenLiteral
    <3>1. Comments!simvol1 = Comments!Quote /\ Comments!EndsWith(<<Comments!simvol1>>, Comments!Known \cup {"in_one_str"}, pos + 1)
      BY <1>12, <2>5 DEF Comments!OpenLiteral
    <3>2. ~ Comments!Pairs(text, i, Comments!Slash, Comments!Slash) /\ ~ Comments!Pairs(text, i, Comments!Slash, Comments!Star) /\ next = "one_str"
      BY <1>13, <2>1, <3>1, CommSymbolsDiffer DEF Comments!Pairs
    <3>3. CommLeads(text, i, "code", <<text[i]>>, j, "one_str") /\ <<text[i]>> \in Seq(S)
      BY <1>3, <1>15, <2>1, <2>2, <3>2
    <3>4. CommLeft(text, out \o <<Comments!simvol1>>, j, "one_str")
      BY <1>1, <1>4, <1>5, <1>14, <2>1, <2>2, <3>2, <3>3, CommFollow
    <3>5. CommReads(text, pos + 1) # Comments!Lf /\ "false_symbol" \notin Comments!Known
      BY <1>3, <1>7, <2>1, <3>1, CommSymbolsDiffer
    <3>6. CommOnly(Comments!Known \cup {"in_one_str"}, {"in_one_str"}) /\ "false_symbol" \notin Comments!Known \cup {"in_one_str"}
      BY <1>7, <3>5, CommOnlyIs
    <3>7. CommInLiteral(text, pos + 1, Comments!Known \cup {"in_one_str"}, out \o <<Comments!simvol1>>)
      BY <1>2, <1>3, <2>2, <3>4, <3>5, <3>6 DEF CommInLiteral
    <3>. QED
      BY <1>18, <3>1, <3>7, CommGoesOn DEF CommSomewhere
  <2>6. CASE Comments!OpenComment
    <3>1. Comments!Pairs(text, i, Comments!Slash, Comments!Star) /\ Comments!Seeks(Comments!Behind, Comments!Known \cup {"in_comment"})
      BY <1>3, <1>12, <2>6, CommSymbolsDiffer DEF Comments!OpenComment
    <3>2. CommLeads(text, i, "code", <<>>, h, "block") /\ "block" \in Comments!Modes
      BY <1>1, <1>4, <2>1, <2>3, <3>1, CommCodeOpensBlock DEF Comments!Modes
    <3>3. CommLeft(text, out, h, "block")
      BY <1>1, <1>4, <1>5, <3>2, CommFollowNone
    <3>4. CommOnly(Comments!Known \cup {"in_comment"}, {"in_comment"})
      BY <1>7, CommOnlyIs
    <3>5. CommInBlock(text, pos + 2, Comments!Known \cup {"in_comment"}, out)
      BY <2>3, <3>3, <3>4 DEF CommInBlock
    <3>. QED
      BY <2>1, <3>1, <3>5, CommSeeking DEF CommSomewhere
  <2>7. CASE Comments!Pass
    <3>1. /\ ~ Comments!OpensLiteral /\ ~ Comments!OpensComment
          /\ Comments!EndsWith(IF Comments!Has(f, Comments!InComments) THEN <<>> ELSE <<Comments!simvol1>>, f, pos + 1)
      BY <1>16, <2>7 DEF Comments!Pass
    <3>2. CASE Comments!Pairs(text, i, Comments!Slash, Comments!Slash)
      <4>1. Comments!simvol1 = Comments!Slash /\ Comments!simvol2 = Comments!Slash
        BY <1>3, <3>2, CommSymbolsDiffer
      <4>2. f = Comments!Known \cup {"comment"}
        BY <1>10, <1>12, <1>16, <4>1, CommSymbolsDiffer
      <4>3. CommOnly(f, {"comment"}) /\ Comments!Has(f, Comments!InComments)
        BY <1>7, <4>2, CommOnlyIs, CommHasIs
      <4>4. CommLeads(text, i, "code", <<>>, j, "line") /\ "line" \in Comments!Modes
        BY <1>1, <1>4, <2>1, <2>2, <3>2, CommCodeOpensLine DEF Comments!Modes
      <4>5. CommLeft(text, out, j, "line") /\ out \o <<>> = out
        BY <1>1, <1>4, <1>5, <2>2, <4>4, CommFollowNone, CommNoneLeft
      <4>6. CommReads(text, pos + 1) # Comments!Lf
        BY <1>3, <2>1, <4>1, CommSymbolsDiffer
      <4>7. CommInLine(text, pos + 1, f, out \o <<>>)
        BY <1>2, <1>3, <2>2, <4>3, <4>5, <4>6 DEF CommInLine
      <4>. QED
        BY <1>18, <3>1, <4>3, <4>7, CommGoesOn DEF CommSomewhere
    <3>3. CASE ~ Comments!Pairs(text, i, Comments!Slash, Comments!Slash)
      <4>1. ~ Comments!OpensLine /\ ~ Comments!Pairs(text, i, Comments!Slash, Comments!Star) /\ Comments!simvol1 # Comments!Quote
        BY <1>3, <1>12, <3>1, <3>3, CommSymbolsDiffer
      <4>2. CommLeads(text, i, "code", <<text[i]>>, j, next) /\ <<text[i]>> \in Seq(S)
        BY <1>3, <1>15, <2>1, <2>2, <3>3, <4>1
      <4>3. CommLeft(text, out \o <<Comments!simvol1>>, j, next)
        BY <1>1, <1>4, <1>5, <1>14, <2>1, <2>2, <4>2, CommFollow
      <4>4. CASE Comments!simvol1 = Comments!DoubleQuote
        <5>1. f = Comments!Known \cup {"in_str"} /\ next = "str"
          BY <1>10, <1>12, <1>13, <1>16, <4>1, <4>4
        <5>2. CommReads(text, pos + 1) # Comments!Lf /\ "false_symbol" \notin Comments!Known
          BY <1>3, <1>7, <2>1, <4>4, CommSymbolsDiffer
        <5>3. CommOnly(f, {"in_str"}) /\ "false_symbol" \notin f /\ ~ Comments!Has(f, Comments!InComments)
          BY <1>7, <1>9, <5>1, <5>2, CommOnlyIs, CommHasIs
        <5>4. CommInString(text, pos + 1, f, out \o <<Comments!simvol1>>)
          BY <1>2, <1>3, <2>2, <4>3, <5>1, <5>2, <5>3 DEF CommInString
        <5>. QED
          BY <1>18, <3>1, <5>3, <5>4, CommGoesOn DEF CommSomewhere
      <4>5. CASE Comments!simvol1 # Comments!DoubleQuote
        <5>1. f = Comments!Known /\ next = "code"
          BY <1>10, <1>12, <1>13, <1>16, <4>1, <4>5
        <5>2. CommInCode(text, pos + 1, f, out \o <<Comments!simvol1>>)
          BY <1>2, <1>3, <1>7, <2>2, <4>3, <5>1 DEF CommInCode
        <5>. QED
          BY <1>8, <1>18, <3>1, <5>1, <5>2, CommGoesOn DEF CommSomewhere
      <4>. QED
        BY <4>4, <4>5
    <3>. QED
      BY <3>2, <3>3
  <2>. QED
    BY <1>11, <2>4, <2>5, <2>6, <2>7
<1>. QED
  BY <1>17, <1>18

LEMMA CommLineStep ==
  ASSUME CommIInv, CommInLine(text, pos, flags, out), Comments!Next
  PROVE  CommCopied'
<1>1. PICK S : text \in Seq(S) /\ out \in Seq(S)
  BY CommSomeSymbols
<1>2. PICK i : i = pos + 1
  OBVIOUS
<1>3. /\ i \in 1 .. Len(text) + 1 /\ pos \in Nat /\ Len(text) \in Nat
      /\ i <= Len(text) => Comments!simvol1 = text[i]
      /\ i + 1 <= Len(text) => Comments!simvol2 = text[i + 1]
      /\ Comments!AtEnd <=> i >= Len(text)
      /\ Comments!AtEnd <=> Comments!simvol2 = Comments!Eof
      /\ i + 1 <= Len(text) /\ text[i] # Comments!Cr => CommReads(text, pos + 1) # Comments!Lf
      /\ i <= Len(text) => text[i] # Comments!Eof
      /\ \A a, b : a # Comments!Eof /\ b # Comments!Eof
           => (Comments!Pairs(text, i, a, b) <=> Comments!simvol1 = a /\ Comments!simvol2 = b)
  BY <1>2, CommPlaces
<1>4. /\ CommPaired(text) /\ (~ Comments!AtEnd => Comments!Behind = pos + 2) /\ Comments!simvol1 = CommReads(text, pos)
      /\ \A k \in 1 .. Len(text) : text[k] # Comments!Eof /\ (text[k] = Comments!Lf => k > 1 /\ text[k - 1] = Comments!Cr)
      /\ "code" \in Comments!Modes /\ "line" \in Comments!Modes /\ "block" \in Comments!Modes
      /\ "str" \in Comments!Modes
      /\ "one_str" \in Comments!Modes
  BY CommFileIs DEF Comments!Modes
<1>5. CommOnly(flags, {"comment"}) /\ CommLeft(text, out, i, "line") /\ Comments!simvol1 # Comments!Lf
  BY <1>2, <1>4 DEF CommInLine
<1>6. "continue" \notin flags /\ Comments!Has(flags, Comments!InComments)
  BY <1>5, CommOnlyIs, CommHasIs
<1>7. CommOnly(Comments!Known, {"comment"})
  BY <1>5, <1>6, CommOnlyIs, CommKnownHas
<1>8. Comments!Has(Comments!Known, Comments!InComments) /\ ~ Comments!Has(Comments!Known, Comments!InLiterals)
  BY <1>7, CommOnlyIs, CommHasIs
<1>9. /\ "comment" \in Comments!Known /\ "in_comment" \notin Comments!Known
      /\ "transfer_comment" \notin Comments!Known
      /\ "in_str" \notin Comments!Known /\ "in_one_str" \notin Comments!Known
  BY <1>7, CommOnlyIs
<1>10. ~ (Comments!Lingers \/ Comments!Escapes \/ Comments!OpensLiteral \/ Comments!ClosesLiteral \/ Comments!OpensString \/ Comments!ClosesString
          \/ Comments!OpensComment \/ Comments!ClosesComment \/ Comments!EndsTransferred \/ Comments!SkipsTransferred)
  BY <1>6, <1>8, <1>9, CommHasIs DEF Comments!Lingers, Comments!Escapes, Comments!OpensLiteral,
     Comments!ClosesLiteral, Comments!OpensString,
     Comments!ClosesString, Comments!OpensComment, Comments!ClosesComment,
         Comments!EndsTransferred, Comments!SkipsTransferred
<1>11. Comments!EndLine \/ Comments!ContinueLine \/ Comments!Pass
  BY <1>10 DEF Comments!Next, Comments!Linger, Comments!Escape, Comments!OpenLiteral,
     Comments!CloseString, Comments!CloseComment, Comments!OpenComment,
     Comments!EndTransferred, Comments!SkipTransferred
<1>12. /\ Comments!EndsLine <=> Comments!simvol1 = Comments!Cr
       /\ Comments!ContinuesLine <=> Comments!Continued(text, i)
  <2>1. Comments!EndsLine <=> Comments!simvol1 = Comments!Cr
    BY <1>5, <1>9 DEF Comments!EndsLine, Comments!Ends
  <2>2. Comments!ContinuesLine
          <=> Comments!simvol1 = Comments!Backslash /\ Comments!simvol2 \in {Comments!Cr, Comments!Lf}
    BY <1>9 DEF Comments!ContinuesLine, Comments!Ends
  <2>3. Comments!Continued(text, i)
          <=> Comments!simvol1 = Comments!Backslash /\ Comments!simvol2 = Comments!Cr
    BY <1>3, CommSymbolsDiffer DEF Comments!Continued
  <2>4. ~ (Comments!simvol1 = Comments!Backslash /\ Comments!simvol2 = Comments!Lf)
    <3>. SUFFICES ASSUME Comments!simvol1 = Comments!Backslash,
           Comments!simvol2 = Comments!Lf PROVE FALSE
      OBVIOUS
    <3>1. i + 1 <= Len(text) /\ text[i] = Comments!Backslash
      BY <1>3, CommSymbolsDiffer
    <3>2. CommReads(text, pos + 1) # Comments!Lf
      BY <1>3, <3>1, CommSymbolsDiffer
    <3>. QED
      BY <3>2, CommFileIs
  <2>. QED
    BY <2>1, <2>2, <2>3, <2>4
<1>13. PICK f : f = (Comments!Known \ (IF Comments!ClosesLiteral THEN {"in_one_str"} ELSE {}))
                      \cup (IF Comments!OpensString THEN {"in_str"} ELSE {})
                      \cup (IF Comments!OpensLine THEN {"comment"} ELSE {})
  OBVIOUS
<1>14. CommOnly(f, {"comment"}) /\ Comments!Has(f, Comments!InComments)
  BY <1>7, <1>10, <1>13, CommOnlyIs, CommHasIs
<1>15. ASSUME i <= Len(text), Comments!simvol1 # Comments!Cr, ~ Comments!Continued(text, i)
       PROVE  CommLeads(text, i, "line", <<>>, i + 1, "line")
  BY <1>1, <1>3, <1>4, <1>15, CommLineSymbol
<1>16. Comments!Pass =>
         /\ Comments!simvol1 # Comments!Cr /\ ~ Comments!Continued(text, i)
         /\ Comments!EndsWith(<<>>, f, pos + 1)
  BY <1>12, <1>13, <1>14 DEF Comments!Pass
<1>17. CASE Comments!AtEnd
  <2>1. ~ Comments!EndLine
    <3>. SUFFICES ASSUME Comments!EndLine PROVE FALSE
      OBVIOUS
    <3>1. Comments!simvol1 = Comments!Cr
      BY <1>12 DEF Comments!EndLine
    <3>2. i \in 1 .. Len(text) /\ text[i] = Comments!Cr
      BY <1>2, <1>3, <1>4, <3>1, CommSymbolsDiffer DEF CommReads
    <3>. QED
      BY <1>3, <1>4, <1>17, <3>2 DEF CommPaired
  <2>2. ~ Comments!ContinueLine
    BY <1>3, <1>12, <1>17 DEF Comments!ContinueLine, Comments!Continued, Comments!Pairs
  <2>3. Comments!Pass /\ CommLeft(text, out, pos + 1, "line")
    BY <1>2, <1>5, <1>11, <2>1, <2>2
  <2>4. i = Len(text) => CommLeads(text, i, "line", <<>>, i + 1, "line")
    BY <1>3, <1>15, <1>16, <2>3
  <2>5. i = Len(text) =>
           /\ Comments!Has(f, Comments!InComments)
                => CommLeads(text, i, "line", <<>>, i + 1, "line")
           /\ ~ Comments!Has(f, Comments!InComments)
                => CommLeads(text, i, "line", <<text[i]>>, i + 1, "line")
    BY <1>14, <2>4
  <2>6. Comments!EndsWith(<<>>, f, pos + 1)
    BY <1>16, <2>3
  <2>. QED
    BY <1>1, <1>2, <1>4, <1>17, <2>3, <2>5, <2>6, CommFinishes
<1>18. CASE ~ Comments!AtEnd
  <2>1. i + 1 <= Len(text) /\ i \in 1 .. Len(text) /\ Comments!simvol1 = text[i] /\ Comments!simvol2 = text[i + 1] /\ Comments!Behind = pos + 2
    BY <1>3, <1>4, <1>18
  <2>2. PICK j \in 1 .. Len(text) : j = i + 1 /\ j = pos + 2 /\ j \in 1 .. Len(text) + 3
    BY <1>2, <1>3, <2>1
  <2>3. CASE Comments!EndLine
    <3>1. Comments!simvol1 = Comments!Cr /\ Comments!Seeks(pos, Comments!Known \ {"comment"})
      <4>1. Comments!Behind - 2 = pos
        BY <1>3, <2>1
      <4>. QED
        BY <1>12, <2>3, <4>1 DEF Comments!EndLine
    <3>2. CommLeft(text, out, i, "code")
      <4>1. text[i] = Comments!Cr
        BY <2>1, <3>1
      <4>2. /\ CommRestFrom(text)[i]["line"] = CommRestFrom(text)[i]["code"]
            /\ CommUsualFrom(text)[i]["line"] => CommUsualFrom(text)[i]["code"]
        BY <1>1, <1>4, <2>1, <4>1, CommLineEnds
      <4>. QED
        BY <1>5, <4>2 DEF CommLeft
    <3>3. CommOnly(Comments!Known \ {"comment"}, {})
      BY <1>7, CommOnlyIs
    <3>4. CommInCode(text, pos, Comments!Known \ {"comment"}, out)
      BY <1>2, <3>2, <3>3 DEF CommInCode
    <3>. QED
      BY <3>1, <3>4, CommSeeking DEF CommSomewhere
  <2>4. CASE Comments!ContinueLine
    <3>1. Comments!Continued(text, i)
      BY <1>12, <2>4 DEF Comments!ContinueLine
    <3>2. text[j] = Comments!Cr /\ Comments!simvol2 = Comments!Cr
      BY <2>1, <2>2, <3>1 DEF Comments!Continued, Comments!Pairs
    <3>3. PICK g : g = (Comments!Known \ {"comment"}) \cup {"transfer_comment", "continue"}
      OBVIOUS
    <3>4. Comments!Seeks(pos + 2, g)
      <4>1. (IF Comments!SkipsTransferred THEN 1 ELSE 0) + (IF Comments!simvol2 = Comments!Cr THEN 1 ELSE 0) = 1
        BY <1>10, <3>2
      <4>2. Comments!Behind + 1 - 1 = pos + 2
        BY <1>3, <2>1
      <4>. QED
        BY <2>4, <3>3, <4>1, <4>2 DEF Comments!ContinueLine
    <3>5. j < Len(text) /\ text[j + 1] = Comments!Lf
      BY <1>4, <3>2 DEF CommPaired
    <3>6. PICK h \in 1 .. Len(text) + 3 : h = i + 3 /\ h = (pos + 2) + 2
      BY <1>2, <1>3, <2>1
    <3>7. CommLeads(text, i, "line", <<>>, h, "line") /\ Comments!PlainLine(text, h)
      BY <1>1, <1>4, <1>5, <2>1, <3>1, <3>6, CommLineContinues DEF CommLeft
    <3>8. CommLeft(text, out, h, "line")
      BY <1>1, <1>4, <1>5, <3>7, CommFollowNone
    <3>9. CommReads(text, pos + 2) = Comments!Lf
      BY <1>3, <2>2, <3>5 DEF CommReads
    <3>10. CommOnly(g, {"transfer_comment", "continue"})
      BY <1>7, <3>3, CommOnlyIs
    <3>11. CommBeforePlain(text, pos + 2, g, out)
      BY <3>6, <3>7, <3>8, <3>9, <3>10 DEF CommBeforePlain
    <3>. QED
      BY <3>4, <3>11, CommSeeking DEF CommSomewhere
  <2>5. CASE Comments!Pass
    <3>1. CommLeads(text, i, "line", <<>>, j, "line")
      BY <1>15, <1>16, <2>1, <2>2, <2>5
    <3>2. CommLeft(text, out, j, "line") /\ out \o <<>> = out
      BY <1>1, <1>4, <1>5, <2>2, <3>1, CommFollowNone, CommNoneLeft
    <3>3. CommReads(text, pos + 1) # Comments!Lf
      BY <1>3, <1>16, <2>1, <2>5
    <3>4. CommInLine(text, pos + 1, f, out \o <<>>)
      BY <1>2, <1>3, <1>14, <2>2, <3>2, <3>3 DEF CommInLine
    <3>. QED
      BY <1>16, <1>18, <2>5, <3>4, CommGoesOn DEF CommSomewhere
  <2>. QED
    BY <1>11, <2>3, <2>4, <2>5
<1>. QED
  BY <1>17, <1>18

LEMMA CommBlockStep ==
  ASSUME CommIInv, CommInBlock(text, pos, flags, out), Comments!Next
  PROVE  CommCopied'
<1>1. PICK S : text \in Seq(S) /\ out \in Seq(S)
  BY CommSomeSymbols
<1>2. PICK i : i = pos + 1
  OBVIOUS
<1>3. /\ i \in 1 .. Len(text) + 1 /\ pos \in Nat /\ Len(text) \in Nat
      /\ i <= Len(text) => Comments!simvol1 = text[i]
      /\ i + 1 <= Len(text) => Comments!simvol2 = text[i + 1]
      /\ Comments!AtEnd <=> i >= Len(text)
      /\ Comments!AtEnd <=> Comments!simvol2 = Comments!Eof
      /\ i + 1 <= Len(text) /\ text[i] # Comments!Cr => CommReads(text, pos + 1) # Comments!Lf
      /\ i <= Len(text) => text[i] # Comments!Eof
      /\ \A a, b : a # Comments!Eof /\ b # Comments!Eof
           => (Comments!Pairs(text, i, a, b) <=> Comments!simvol1 = a /\ Comments!simvol2 = b)
  BY <1>2, CommPlaces
<1>4. /\ CommPaired(text) /\ (~ Comments!AtEnd => Comments!Behind = pos + 2) /\ Comments!simvol1 = CommReads(text, pos)
      /\ \A k \in 1 .. Len(text) : text[k] # Comments!Eof /\ (text[k] = Comments!Lf => k > 1 /\ text[k - 1] = Comments!Cr)
      /\ "code" \in Comments!Modes /\ "line" \in Comments!Modes /\ "block" \in Comments!Modes
      /\ "str" \in Comments!Modes
      /\ "one_str" \in Comments!Modes
  BY CommFileIs DEF Comments!Modes
<1>5. CommOnly(flags, {"in_comment"}) /\ CommLeft(text, out, i, "block")
  BY <1>2 DEF CommInBlock
<1>6. "continue" \notin flags /\ Comments!Has(flags, Comments!InComments) /\ "transfer_str" \notin flags
  BY <1>5, CommOnlyIs, CommHasIs
<1>7. CommOnly(Comments!Known, {"in_comment"})
  BY <1>5, <1>6, CommOnlyIs, CommKnownHas
<1>8. Comments!Has(Comments!Known, Comments!InComments) /\ ~ Comments!Has(Comments!Known, Comments!InLiterals)
  BY <1>7, CommOnlyIs, CommHasIs
<1>9. /\ "comment" \notin Comments!Known /\ "in_comment" \in Comments!Known
      /\ "transfer_comment" \notin Comments!Known
      /\ "in_str" \notin Comments!Known /\ "in_one_str" \notin Comments!Known
  BY <1>7, CommOnlyIs
<1>10. ~ (Comments!Lingers \/ Comments!Escapes \/ Comments!OpensLiteral \/ Comments!ClosesLiteral \/ Comments!OpensString \/ Comments!ClosesString
          \/ Comments!OpensComment \/ Comments!OpensLine \/ Comments!EndsLine \/ Comments!ContinuesLine \/ Comments!EndsTransferred
          \/ Comments!SkipsTransferred)
  BY <1>6, <1>8, <1>9, CommHasIs DEF Comments!Lingers, Comments!Escapes, Comments!OpensLiteral,
     Comments!ClosesLiteral, Comments!OpensString,
     Comments!ClosesString, Comments!OpensComment, Comments!OpensLine, Comments!EndsLine,
         Comments!ContinuesLine, Comments!EndsTransferred,
     Comments!SkipsTransferred
<1>11. Comments!CloseComment \/ Comments!Pass
  BY <1>10 DEF Comments!Next, Comments!Linger, Comments!Escape, Comments!OpenLiteral,
     Comments!CloseString, Comments!OpenComment, Comments!EndLine, Comments!ContinueLine,
     Comments!EndTransferred, Comments!SkipTransferred
<1>12. Comments!ClosesComment <=> Comments!Pairs(text, i, Comments!Star, Comments!Slash)
  BY <1>3, <1>8, <1>9, CommSymbolsDiffer DEF Comments!ClosesComment, Comments!Pair
<1>13. Comments!Pass => ~ Comments!Pairs(text, i, Comments!Star, Comments!Slash) /\ Comments!EndsWith(<<>>, Comments!Known, pos + 1)
  <2>1. PICK f : f = (Comments!Known \ (IF Comments!ClosesLiteral THEN {"in_one_str"} ELSE {}))
                      \cup (IF Comments!OpensString THEN {"in_str"} ELSE {})
                      \cup (IF Comments!OpensLine THEN {"comment"} ELSE {})
    OBVIOUS
  <2>2. f = Comments!Known
    BY <1>10, <2>1
  <2>. QED
    BY <1>8, <1>12, <2>1, <2>2 DEF Comments!Pass
<1>14. CASE Comments!AtEnd
  <2>1. ~ Comments!Pairs(text, i, Comments!Star, Comments!Slash) /\ ~ Comments!CloseComment
    BY <1>3, <1>12, <1>14 DEF Comments!CloseComment, Comments!Pairs
  <2>2. Comments!Pass /\ CommLeft(text, out, pos + 1, "block")
    BY <1>2, <1>5, <1>11, <2>1
  <2>3. i = Len(text) => CommLeads(text, i, "block", <<>>, i + 1, "block")
    BY <1>1, <1>3, <1>4, <2>1, CommBlockSymbol
  <2>4. i = Len(text) =>
           /\ Comments!Has(Comments!Known, Comments!InComments)
                => CommLeads(text, i, "block", <<>>, i + 1, "block")
           /\ ~ Comments!Has(Comments!Known, Comments!InComments)
                => CommLeads(text, i, "block", <<text[i]>>, i + 1, "block")
    BY <1>8, <2>3
  <2>5. Comments!EndsWith(<<>>, Comments!Known, pos + 1)
    BY <1>13, <2>2
  <2>. QED
    BY <1>1, <1>2, <1>4, <1>14, <2>2, <2>4, <2>5, CommFinishes
<1>15. CASE ~ Comments!AtEnd
  <2>1. i + 1 <= Len(text) /\ i \in 1 .. Len(text) /\ Comments!Behind = pos + 2
    BY <1>3, <1>4, <1>15
  <2>2. PICK j \in 1 .. Len(text) + 3 : j = i + 1 /\ j = (pos + 1) + 1
    BY <1>2, <1>3, <2>1
  <2>3. PICK h \in 1 .. Len(text) + 3 : h = i + 2 /\ h = (pos + 2) + 1
    BY <1>2, <1>3, <2>1
  <2>4. out \o <<>> = out
    BY <1>1, CommNoneLeft
  <2>5. CASE Comments!CloseComment
    <3>1. Comments!Pairs(text, i, Comments!Star, Comments!Slash) /\ Comments!EndsWith(<<>>, Comments!Known \ {"in_comment"}, pos + 2)
      BY <1>12, <2>1, <2>5 DEF Comments!CloseComment
    <3>2. CommLeads(text, i, "block", <<>>, h, "code")
      BY <1>1, <1>4, <2>1, <2>3, <3>1, CommBlockCloses
    <3>3. CommLeft(text, out, h, "code")
      BY <1>1, <1>4, <1>5, <3>2, CommFollowNone
    <3>4. CommOnly(Comments!Known \ {"in_comment"}, {})
      BY <1>7, CommOnlyIs
    <3>5. CommInCode(text, pos + 2, Comments!Known \ {"in_comment"}, out \o <<>>)
      BY <2>3, <2>4, <3>3, <3>4 DEF CommInCode
    <3>. QED
      BY <1>15, <3>1, <3>5, CommGoesOn DEF CommSomewhere
  <2>6. CASE Comments!Pass
    <3>1. CommLeads(text, i, "block", <<>>, j, "block")
      BY <1>1, <1>4, <1>13, <2>1, <2>2, <2>6, CommBlockSymbol
    <3>2. CommLeft(text, out, j, "block")
      BY <1>1, <1>4, <1>5, <3>1, CommFollowNone
    <3>3. CommInBlock(text, pos + 1, Comments!Known, out \o <<>>)
      BY <1>7, <2>2, <2>4, <3>2 DEF CommInBlock
    <3>. QED
      BY <1>13, <1>15, <2>6, <3>3, CommGoesOn DEF CommSomewhere
  <2>. QED
    BY <1>11, <2>5, <2>6
<1>. QED
  BY <1>14, <1>15

LEMMA CommNotLf ==
  ASSUME CommIInv, NEW k \in 1 .. Len(text), text[k] # Comments!Cr
  PROVE  CommReads(text, k) # Comments!Lf
<1>1. /\ Len(text) \in Nat
      /\ \A j \in 1 .. Len(text) : text[j] # Comments!Eof /\ (text[j] = Comments!Lf => j > 1 /\ text[j - 1] = Comments!Cr)
  BY CommFileIs
<1>2. CASE k < Len(text)
  <2>1. PICK j \in 1 .. Len(text) : j = k + 1
    BY <1>1, <1>2
  <2>2. j - 1 = k
    BY <2>1
  <2>3. text[j] # Comments!Lf
    BY <1>1, <2>2
  <2>. QED
    BY <1>2, <2>1, <2>3 DEF CommReads
<1>3. CASE ~ (k < Len(text))
  BY <1>3, CommSymbolsDiffer DEF CommReads
<1>. QED
  BY <1>2, <1>3

\* A literal's symbols.
LEMMA CommSymbolIn ==
  ASSUME NEW S, NEW t \in Seq(S), NEW i \in 1 .. Len(t)
  PROVE  <<t[i]>> \in Seq(S) /\ (i + 1 <= Len(t) => <<t[i], t[i + 1]>> \in Seq(S))
<1>1. PICK a \in S : a = t[i]
  OBVIOUS
<1>2. <<a>> \in Seq(S)
  BY CommOneIn
<1>3. ASSUME i + 1 <= Len(t)
      PROVE  <<t[i], t[i + 1]>> \in Seq(S)
  <2>1. PICK b \in S : b = t[i + 1]
    BY <1>3
  <2>2. <<a, b>> \in Seq(S)
    BY CommShortSeqs
  <2>. QED
    BY <1>1, <2>1, <2>2
<1>. QED
  BY <1>1, <1>2, <1>3

\* An end of line closes a literal behind its carriage return.
LEMMA CommLiteralEnds ==
  ASSUME NEW S, NEW t \in Seq(S), CommPaired(t), NEW i \in 1 .. Len(t), t[i] = Comments!Cr,
      NEW mode,
         CommLeads(t, i, mode, <<t[i]>>, i + 1, "code")
  PROVE  CommLeadsBehind(t, i, mode, <<t[i]>>, i + 2, "code")
<1>1. PICK j \in 1 .. Len(t) : j = i + 1 /\ t[j] = Comments!Lf /\ j + 1 = i + 2
  BY DEF CommPaired
<1>2. ~ Comments!Pairs(t, j, Comments!Slash, Comments!Slash) /\ ~ Comments!Pairs(t, j, Comments!Slash, Comments!Star) /\ t[j] # Comments!DoubleQuote /\ t[j] # Comments!Quote
  BY <1>1, CommSymbolsDiffer DEF Comments!Pairs
<1>3. CommLeads(t, j, "code", <<t[j]>>, j + 1, "code")
  BY <1>2, CommCodeSymbol
<1>. QED
  BY <1>1, <1>3 DEF CommLeads, CommLeadsBehind

LEMMA CommStringStep ==
  ASSUME CommIInv, CommInString(text, pos, flags, out), Comments!Next
  PROVE  CommCopied'
<1>1. PICK S : text \in Seq(S) /\ out \in Seq(S)
  BY CommSomeSymbols
<1>2. PICK i : i = pos + 1
  OBVIOUS
<1>3. /\ i \in 1 .. Len(text) + 1 /\ pos \in Nat /\ Len(text) \in Nat
      /\ i <= Len(text) => Comments!simvol1 = text[i]
      /\ i + 1 <= Len(text) => Comments!simvol2 = text[i + 1]
      /\ Comments!AtEnd <=> i >= Len(text)
      /\ Comments!AtEnd <=> Comments!simvol2 = Comments!Eof
      /\ i + 1 <= Len(text) /\ text[i] # Comments!Cr => CommReads(text, pos + 1) # Comments!Lf
      /\ i <= Len(text) => text[i] # Comments!Eof
      /\ \A a, b : a # Comments!Eof /\ b # Comments!Eof
           => (Comments!Pairs(text, i, a, b) <=> Comments!simvol1 = a /\ Comments!simvol2 = b)
  BY <1>2, CommPlaces
<1>4. /\ CommPaired(text) /\ (~ Comments!AtEnd => Comments!Behind = pos + 2) /\ Comments!simvol1 = CommReads(text, pos)
      /\ \A k \in 1 .. Len(text) : text[k] # Comments!Eof /\ (text[k] = Comments!Lf => k > 1 /\ text[k - 1] = Comments!Cr)
      /\ "code" \in Comments!Modes /\ "line" \in Comments!Modes /\ "block" \in Comments!Modes
      /\ "str" \in Comments!Modes
      /\ "one_str" \in Comments!Modes
  BY CommFileIs DEF Comments!Modes
<1>5. CommOnly(flags, {"in_str"}) /\ CommLeft(text, out, i, "str") /\ Comments!simvol1 # Comments!Lf /\ "false_symbol" \notin flags
  BY <1>2, <1>4 DEF CommInString
<1>6. "continue" \notin flags /\ ~ Comments!Has(flags, Comments!InComments) /\ "transfer_str" \notin flags
      /\ "in_str" \in flags /\ "in_one_str" \notin flags
  BY <1>5, CommOnlyIs, CommHasIs
<1>7. /\ "in_comment" \notin Comments!Known /\ "comment" \notin Comments!Known
      /\ "transfer_comment" \notin Comments!Known
      /\ "continue" \notin Comments!Known /\ "in_str" \in Comments!Known
      /\ "in_one_str" \notin Comments!Known
      /\ "false_symbol" \notin Comments!Known
      /\ "transfer_str" \in Comments!Known
           <=> Comments!simvol1 = Comments!Backslash /\ Comments!simvol2 \in Comments!Ends
      /\ Comments!simvol1 = Comments!Backslash /\ Comments!simvol2 \in Comments!Ends
           => "transfer_false_symbol" \in Comments!Known
  BY <1>5, <1>6, CommOnlyIs, CommKnownHas
<1>8. ~ Comments!Has(Comments!Known, Comments!InComments) /\ Comments!Has(Comments!Known, Comments!InLiterals)
  BY <1>7, CommHasIs
<1>9. ~ (Comments!Lingers \/ Comments!OpensLiteral \/ Comments!OpensString \/ Comments!OpensComment \/ Comments!ClosesComment \/ Comments!OpensLine
         \/ Comments!ClosesLiteral \/ Comments!EndsLine \/ Comments!ContinuesLine \/ Comments!EndsTransferred \/ Comments!SkipsTransferred)
  BY <1>6, <1>7, <1>8, CommHasIs DEF Comments!Lingers, Comments!OpensLiteral,
     Comments!OpensString, Comments!OpensComment, Comments!ClosesComment,
     Comments!OpensLine, Comments!ClosesLiteral, Comments!EndsLine, Comments!ContinuesLine,
         Comments!EndsTransferred, Comments!SkipsTransferred
<1>10. /\ Comments!Escapes <=> Comments!simvol1 = Comments!Backslash /\ Comments!simvol2 # Comments!Slash
       /\ Comments!ClosesString <=> Comments!simvol1 = Comments!DoubleQuote
  BY <1>7, <1>8, CommHasIs DEF Comments!Escapes, Comments!ClosesString
<1>11. Comments!Escape \/ Comments!CloseString \/ Comments!Pass
  BY <1>9 DEF Comments!Next, Comments!Linger, Comments!OpenLiteral, Comments!CloseComment,
     Comments!OpenComment, Comments!EndLine, Comments!ContinueLine,
     Comments!EndTransferred, Comments!SkipTransferred
<1>12. Comments!Escape => Comments!EndsWith(Comments!Pair, Comments!Known, Comments!Behind) /\ Comments!Escapes
  BY DEF Comments!Escape
<1>13. PICK f : f = IF Comments!simvol1 = Comments!DoubleQuote THEN Comments!Known \ {"in_str"}
         ELSE Comments!Known
  OBVIOUS
<1>14. /\ ~ Comments!Has(f, Comments!InComments)
       /\ Comments!simvol1 # Comments!DoubleQuote => f = Comments!Known
       /\ Comments!simvol1 = Comments!DoubleQuote => CommOnly(f, {})
  BY <1>7, <1>10, <1>13, CommOnlyIs, CommHasIs, CommSymbolsDiffer
<1>15. Comments!Escape \/ (~ Comments!Escapes /\ Comments!EndsWith(<<Comments!simvol1>>, f, pos + 1))
  <2>1. CASE Comments!CloseString
    <3>1. ~ Comments!Escapes /\ Comments!simvol1 = Comments!DoubleQuote
      BY <1>10, <2>1, CommSymbolsDiffer DEF Comments!CloseString
    <3>2. Comments!EndsWith(<<Comments!simvol1>>, Comments!Known \ {"in_str"}, pos + 1)
      BY <1>8, <2>1 DEF Comments!CloseString
    <3>. QED
      BY <1>13, <3>1, <3>2
  <2>2. CASE Comments!Pass
    <3>1. ~ Comments!Escapes /\ Comments!simvol1 # Comments!DoubleQuote /\ f = Comments!Known
      BY <1>10, <1>13, <2>2 DEF Comments!Pass
    <3>2. PICK g : g = (Comments!Known \ (IF Comments!ClosesLiteral THEN {"in_one_str"} ELSE {}))
                      \cup (IF Comments!OpensString THEN {"in_str"} ELSE {})
                      \cup (IF Comments!OpensLine THEN {"comment"} ELSE {})
      OBVIOUS
    <3>3. g = Comments!Known
      BY <1>9, <3>2
    <3>4. Comments!EndsWith(<<Comments!simvol1>>, Comments!Known, pos + 1)
      BY <1>8, <2>2, <3>2, <3>3 DEF Comments!Pass
    <3>. QED
      BY <3>1, <3>4
  <2>. QED
    BY <1>11, <2>1, <2>2
<1>16. PICK next \in {"code", "str"} :
         /\ next = IF text[i] \in {Comments!DoubleQuote, Comments!Cr} THEN "code" ELSE "str"
         /\ next \in Comments!Modes
  BY <1>4
<1>17. ASSUME i <= Len(text), text[i] # Comments!Backslash \/ i = Len(text)
       PROVE  CommLeads(text, i, "str", <<text[i]>>, i + 1, next)
  <2>1. i \in 1 .. Len(text)
    BY <1>3, <1>17
  <2>2. CommLeads(text, i, "str", <<text[i]>>, i + 1,
              IF text[i] \in {IF "str" = "str" THEN Comments!DoubleQuote ELSE Comments!Quote, Comments!Cr} THEN "code" ELSE "str")
    BY <1>1, <1>4, <1>17, <2>1, CommLiteralSymbol
  <2>. QED
    BY <1>16, <2>2
<1>18. CASE Comments!AtEnd
  <2>1. i = Len(text) => CommLeads(text, i, "str", <<text[i]>>, i + 1, next)
    BY <1>3, <1>17
  <2>2. PICK w, g, to : Comments!EndsWith(w, g, to) /\ ~ Comments!Has(g, Comments!InComments)
    BY <1>8, <1>12, <1>14, <1>15
  <2>3. CommLeft(text, out, pos + 1, "str")
    BY <1>2, <1>5
  <2>4. i = Len(text) =>
           /\ Comments!Has(g, Comments!InComments) => CommLeads(text, i, "str", <<>>, i + 1, next)
           /\ ~ Comments!Has(g, Comments!InComments)
                => CommLeads(text, i, "str", <<text[i]>>, i + 1, next)
    BY <2>1, <2>2
  <2>. QED
    BY <1>1, <1>2, <1>4, <1>16, <1>18, <2>2, <2>3, <2>4, CommFinishes
<1>19. CASE ~ Comments!AtEnd
  <2>1. i + 1 <= Len(text) /\ i \in 1 .. Len(text) /\ Comments!simvol1 = text[i] /\ Comments!simvol2 = text[i + 1] /\ Comments!Behind = pos + 2
    BY <1>3, <1>4, <1>19
  <2>2. PICK j \in 1 .. Len(text) : j = i + 1 /\ j = pos + 2 /\ j = (pos + 1) + 1 /\ j \in 1 .. Len(text) + 3
    BY <1>2, <1>3, <2>1
  <2>3. PICK h \in 1 .. Len(text) + 3 : h = i + 2 /\ h = (pos + 2) + 1 /\ h = (pos + 1) + 2
    BY <1>2, <1>3, <2>1
  <2>4. /\ <<text[i]>> \in Seq(S) /\ Comments!Pair = <<text[i], text[i + 1]>>
        /\ Comments!Pair \in Seq(S)
    BY <1>1, <2>1, CommSymbolIn DEF Comments!Pair
  <2>5. Comments!Continued(text, i)
          <=> Comments!simvol1 = Comments!Backslash /\ Comments!simvol2 = Comments!Cr
    BY <1>3, CommSymbolsDiffer DEF Comments!Continued
  <2>6. Comments!simvol1 # Comments!Cr => Comments!simvol2 # Comments!Lf
    BY <1>4, <2>1, <2>2
  <2>7. CASE Comments!Escape
    <3>1. Comments!simvol1 = Comments!Backslash /\ Comments!simvol2 # Comments!Slash /\ Comments!EndsWith(Comments!Pair, Comments!Known, pos + 2)
      BY <1>10, <1>12, <2>1, <2>7
    <3>2. CASE Comments!Continued(text, i)
      <4>1. text[j] = Comments!Cr /\ Comments!simvol2 = Comments!Cr
        BY <2>1, <2>2, <2>5, <3>2
      <4>2. j < Len(text) /\ text[j + 1] = Comments!Lf
        BY <1>4, <4>1 DEF CommPaired
      <4>3. PICK k \in 1 .. Len(text) + 3 : k = i + 3 /\ k = (pos + 2) + 2
        BY <1>2, <1>3, <2>1
      <4>4. CommLeadsBehind(text, i, "str", Comments!Pair, k, "str")
        <5>1. /\ CommUsualFrom(text)[i]["str"] => CommUsualFrom(text)[i + 3]["str"]
              /\ CommRestFrom(text)[i]["str"] = <<text[i], text[i + 1]>> \o (<<Comments!Lf>> \o CommRestFrom(text)[i + 3]["str"])
          BY <1>1, <1>4, <2>1, <3>2, CommLiteralContinues
        <5>2. Comments!Pair = <<text[i], text[i + 1]>> /\ k = i + 3
          BY <2>4, <4>3
        <5>. QED
          BY <5>1, <5>2 DEF CommLeadsBehind
      <4>5. Comments!Lf \in S
        BY <1>1, <2>2, <4>2
      <4>6. CommLeftBehind(text, out \o Comments!Pair, k, "str")
        BY <1>1, <1>4, <1>5, <2>4, <4>4, <4>5, CommFollowBehind
      <4>7. CommReads(text, pos + 2) = Comments!Lf
        BY <2>2, <4>2 DEF CommReads
      <4>8. /\ CommOnly(Comments!Known, {"in_str", "transfer_str"})
            /\ "transfer_false_symbol" \in Comments!Known
        BY <1>7, <3>1, <4>1, CommOnlyIs DEF Comments!Ends
      <4>9. CommBehindString(text, pos + 2, Comments!Known, out \o Comments!Pair)
        BY <4>3, <4>6, <4>7, <4>8 DEF CommBehindString
      <4>. QED
        BY <1>19, <3>1, <4>9, CommGoesOn DEF CommSomewhere
    <3>3. CASE ~ Comments!Continued(text, i)
      <4>1. Comments!simvol2 \notin Comments!Ends /\ text[j] # Comments!Cr
        BY <2>1, <2>2, <2>5, <2>6, <3>1, <3>3, CommSymbolsDiffer DEF Comments!Ends
      <4>2. CommLeads(text, i, "str", Comments!Pair, h, "str")
        <5>1. text[i] = Comments!Backslash /\ i < Len(text)
          BY <1>3, <2>1, <3>1
        <5>2. CommLeads(text, i, "str", <<text[i], text[i + 1]>>, i + 2, "str")
          BY <1>1, <1>4, <2>1, <3>3, <5>1, CommLiteralEscapes
        <5>. QED
          BY <2>3, <2>4, <5>2
      <4>3. CommLeft(text, out \o Comments!Pair, h, "str")
        BY <1>1, <1>4, <1>5, <2>4, <4>2, CommFollow
      <4>4. CommOnly(Comments!Known, {"in_str"})
        BY <1>7, <4>1, CommOnlyIs
      <4>5. CommReads(text, pos + 2) # Comments!Lf
        BY <2>2, <4>1, CommNotLf
      <4>6. CommInString(text, pos + 2, Comments!Known, out \o Comments!Pair)
        BY <1>7, <2>3, <4>3, <4>4, <4>5 DEF CommInString
      <4>. QED
        BY <1>19, <3>1, <4>6, CommGoesOn DEF CommSomewhere
    <3>. QED
      BY <3>2, <3>3
  <2>8. CASE ~ Comments!Escapes /\ Comments!EndsWith(<<Comments!simvol1>>, f, pos + 1)
    <3>1. CASE Comments!simvol1 = Comments!Backslash
      <4>1. Comments!simvol2 = Comments!Slash /\ Comments!simvol2 \notin Comments!Ends /\ ~ Comments!Continued(text, i) /\ f = Comments!Known
        BY <1>10, <1>14, <2>5, <2>8, <3>1, CommSymbolsDiffer DEF Comments!Ends
      <4>2. CommLeads(text, i, "str", <<text[i]>>, j, "str")
        <5>1. text[i] = Comments!Backslash /\ i < Len(text) /\ text[i + 1] = Comments!Slash
          BY <1>3, <2>1, <3>1, <4>1
        <5>2. CommLeads(text, i, "str", <<text[i]>>, i + 1, "str")
          BY <1>1, <1>4, <2>1, <4>1, <5>1, CommLiteralEscapes
        <5>. QED
          BY <2>2, <5>2
      <4>3. CommLeft(text, out \o <<Comments!simvol1>>, j, "str")
        BY <1>1, <1>4, <1>5, <2>1, <2>2, <2>4, <4>2, CommFollow
      <4>4. CommOnly(Comments!Known, {"in_str"})
        BY <1>7, <4>1, CommOnlyIs
      <4>5. CommReads(text, pos + 1) # Comments!Lf
        BY <1>3, <2>1, <3>1, CommSymbolsDiffer
      <4>6. CommInString(text, pos + 1, Comments!Known, out \o <<Comments!simvol1>>)
        BY <1>7, <2>2, <4>3, <4>4, <4>5 DEF CommInString
      <4>. QED
        BY <1>19, <2>8, <4>1, <4>6, CommGoesOn DEF CommSomewhere
    <3>2. CASE Comments!simvol1 # Comments!Backslash
      <4>1. CommLeads(text, i, "str", <<text[i]>>, i + 1, next) /\ "transfer_str" \notin Comments!Known
        BY <1>3, <1>7, <1>17, <2>1, <3>2
      <4>2. CommLeft(text, out \o <<Comments!simvol1>>, j, next)
        BY <1>1, <1>4, <1>5, <1>16, <2>1, <2>2, <2>4, <4>1, CommFollow
      <4>3. CASE Comments!simvol1 = Comments!DoubleQuote
        <5>1. next = "code"
          BY <1>16, <2>1, <4>3
        <5>2. CommInCode(text, pos + 1, f, out \o <<Comments!simvol1>>)
          BY <1>14, <2>2, <4>2, <4>3, <5>1 DEF CommInCode
        <5>. QED
          BY <1>19, <2>8, <5>2, CommGoesOn DEF CommSomewhere
      <4>4. CASE Comments!simvol1 = Comments!Cr
        <5>1. next = "code" /\ f = Comments!Known
          BY <1>14, <1>16, <2>1, <4>4, CommSymbolsDiffer
        <5>2. CommLeadsBehind(text, i, "str", <<text[i]>>, h, "code")
          BY <1>1, <1>4, <2>1, <2>3, <4>1, <4>4, <5>1, CommLiteralEnds
        <5>3. text[j] = Comments!Lf /\ Comments!Lf \in S
          <6>1. text[i] = Comments!Cr
            BY <2>1, <4>4
          <6>2. text[i + 1] = Comments!Lf
            BY <1>4, <2>1, <6>1 DEF CommPaired
          <6>3. text[j] \in S
            BY <1>1, <2>2
          <6>. QED
            BY <2>2, <6>2, <6>3
        <5>4. CommLeftBehind(text, out \o <<Comments!simvol1>>, h, "code")
          BY <1>1, <1>4, <1>5, <2>1, <2>4, <5>2, <5>3, CommFollowBehind
        <5>5. CommReads(text, pos + 1) = Comments!Lf
          BY <1>2, <1>3, <2>1, <2>2, <5>3 DEF CommReads
        <5>6. CommOnly(Comments!Known, {"in_str"})
          BY <1>7, <4>1, CommOnlyIs
        <5>7. CommBehindLiteral(text, pos + 1, Comments!Known, out \o <<Comments!simvol1>>)
          BY <2>3, <5>4, <5>5, <5>6 DEF CommBehindLiteral
        <5>. QED
          BY <1>19, <2>8, <5>1, <5>7, CommGoesOn DEF CommSomewhere
      <4>5. CASE Comments!simvol1 \notin {Comments!DoubleQuote, Comments!Cr}
        <5>1. next = "str" /\ f = Comments!Known
          BY <1>14, <1>16, <2>1, <4>5
        <5>2. CommOnly(Comments!Known, {"in_str"})
          BY <1>7, <4>1, CommOnlyIs
        <5>3. CommReads(text, pos + 1) # Comments!Lf
          BY <1>3, <2>1, <4>5
        <5>4. CommInString(text, pos + 1, Comments!Known, out \o <<Comments!simvol1>>)
          BY <1>7, <2>2, <4>2, <5>1, <5>2, <5>3 DEF CommInString
        <5>. QED
          BY <1>19, <2>8, <5>1, <5>4, CommGoesOn DEF CommSomewhere
      <4>. QED
        BY <4>3, <4>4, <4>5
    <3>. QED
      BY <3>1, <3>2
  <2>. QED
    BY <1>15, <2>7, <2>8
<1>. QED
  BY <1>18, <1>19

LEMMA CommLiteralStep ==
  ASSUME CommIInv, CommInLiteral(text, pos, flags, out), Comments!Next
  PROVE  CommCopied'
<1>1. PICK S : text \in Seq(S) /\ out \in Seq(S)
  BY CommSomeSymbols
<1>2. PICK i : i = pos + 1
  OBVIOUS
<1>3. /\ i \in 1 .. Len(text) + 1 /\ pos \in Nat /\ Len(text) \in Nat
      /\ i <= Len(text) => Comments!simvol1 = text[i]
      /\ i + 1 <= Len(text) => Comments!simvol2 = text[i + 1]
      /\ Comments!AtEnd <=> i >= Len(text)
      /\ Comments!AtEnd <=> Comments!simvol2 = Comments!Eof
      /\ i + 1 <= Len(text) /\ text[i] # Comments!Cr => CommReads(text, pos + 1) # Comments!Lf
      /\ i <= Len(text) => text[i] # Comments!Eof
      /\ \A a, b : a # Comments!Eof /\ b # Comments!Eof
           => (Comments!Pairs(text, i, a, b) <=> Comments!simvol1 = a /\ Comments!simvol2 = b)
  BY <1>2, CommPlaces
<1>4. /\ CommPaired(text) /\ (~ Comments!AtEnd => Comments!Behind = pos + 2) /\ Comments!simvol1 = CommReads(text, pos)
      /\ \A k \in 1 .. Len(text) : text[k] # Comments!Eof /\ (text[k] = Comments!Lf => k > 1 /\ text[k - 1] = Comments!Cr)
      /\ "code" \in Comments!Modes /\ "line" \in Comments!Modes /\ "block" \in Comments!Modes
      /\ "str" \in Comments!Modes
      /\ "one_str" \in Comments!Modes
  BY CommFileIs DEF Comments!Modes
<1>5. CommOnly(flags, {"in_one_str"}) /\ CommLeft(text, out, i, "one_str") /\ Comments!simvol1 # Comments!Lf /\ "false_symbol" \notin flags
  BY <1>2, <1>4 DEF CommInLiteral
<1>6. "continue" \notin flags /\ ~ Comments!Has(flags, Comments!InComments) /\ "transfer_str" \notin flags
      /\ "in_one_str" \in flags /\ "in_str" \notin flags
  BY <1>5, CommOnlyIs, CommHasIs
<1>7. /\ "in_comment" \notin Comments!Known /\ "comment" \notin Comments!Known
      /\ "transfer_comment" \notin Comments!Known
      /\ "continue" \notin Comments!Known /\ "in_one_str" \in Comments!Known
      /\ "in_str" \notin Comments!Known
      /\ "false_symbol" \notin Comments!Known
      /\ "transfer_str" \in Comments!Known <=> FALSE
      /\ Comments!simvol1 = Comments!Backslash /\ Comments!simvol2 \in Comments!Ends
           => "transfer_false_symbol" \in Comments!Known
  BY <1>5, <1>6, CommOnlyIs, CommKnownHas
<1>8. ~ Comments!Has(Comments!Known, Comments!InComments) /\ Comments!Has(Comments!Known, Comments!InLiterals)
  BY <1>7, CommHasIs
<1>9. ~ (Comments!Lingers \/ Comments!OpensLiteral \/ Comments!OpensString \/ Comments!OpensComment \/ Comments!ClosesComment \/ Comments!OpensLine
         \/ Comments!ClosesString \/ Comments!EndsLine \/ Comments!ContinuesLine \/ Comments!EndsTransferred \/ Comments!SkipsTransferred)
  BY <1>6, <1>7, <1>8, CommHasIs DEF Comments!Lingers, Comments!OpensLiteral,
     Comments!OpensString, Comments!OpensComment, Comments!ClosesComment,
     Comments!OpensLine, Comments!ClosesString, Comments!EndsLine, Comments!ContinuesLine,
         Comments!EndsTransferred, Comments!SkipsTransferred
<1>10. /\ Comments!Escapes <=> Comments!simvol1 = Comments!Backslash /\ Comments!simvol2 # Comments!Slash
       /\ Comments!ClosesLiteral <=> Comments!simvol1 = Comments!Quote
  BY <1>7, <1>8, CommHasIs DEF Comments!Escapes, Comments!ClosesLiteral
<1>11. Comments!Escape \/ Comments!Pass
  BY <1>9 DEF Comments!Next, Comments!Linger, Comments!OpenLiteral, Comments!CloseString,
     Comments!CloseComment, Comments!OpenComment, Comments!EndLine, Comments!ContinueLine,
     Comments!EndTransferred, Comments!SkipTransferred
<1>12. Comments!Escape => Comments!EndsWith(Comments!Pair, Comments!Known, Comments!Behind) /\ Comments!Escapes
  BY DEF Comments!Escape
<1>13. PICK f : f = IF Comments!simvol1 = Comments!Quote THEN Comments!Known \ {"in_one_str"}
         ELSE Comments!Known
  OBVIOUS
<1>14. /\ ~ Comments!Has(f, Comments!InComments)
       /\ Comments!simvol1 # Comments!Quote => f = Comments!Known
       /\ Comments!simvol1 = Comments!Quote => CommOnly(f, {})
  BY <1>7, <1>10, <1>13, CommOnlyIs, CommHasIs, CommSymbolsDiffer
<1>15. Comments!Escape \/ (~ Comments!Escapes /\ Comments!EndsWith(<<Comments!simvol1>>, f, pos + 1))
  <2>1. CASE Comments!Pass
    <3>1. ~ Comments!Escapes
      BY <2>1 DEF Comments!Pass
    <3>2. PICK g : g = (Comments!Known \ (IF Comments!ClosesLiteral THEN {"in_one_str"} ELSE {}))
                      \cup (IF Comments!OpensString THEN {"in_str"} ELSE {})
                      \cup (IF Comments!OpensLine THEN {"comment"} ELSE {})
      OBVIOUS
    <3>3. g = f
      BY <1>9, <1>10, <1>13, <3>2
    <3>4. Comments!EndsWith(<<Comments!simvol1>>, f, pos + 1)
      BY <1>14, <2>1, <3>2, <3>3 DEF Comments!Pass
    <3>. QED
      BY <3>1, <3>4
  <2>. QED
    BY <1>11, <2>1
<1>16. PICK next \in {"code", "one_str"} :
         /\ next = IF text[i] \in {Comments!Quote, Comments!Cr} THEN "code" ELSE "one_str"
         /\ next \in Comments!Modes
  BY <1>4
<1>17. ASSUME i <= Len(text), text[i] # Comments!Backslash \/ i = Len(text)
       PROVE  CommLeads(text, i, "one_str", <<text[i]>>, i + 1, next)
  <2>1. i \in 1 .. Len(text)
    BY <1>3, <1>17
  <2>2. CommLeads(text, i, "one_str", <<text[i]>>, i + 1,
              IF text[i] \in {IF "one_str" = "str" THEN Comments!DoubleQuote ELSE Comments!Quote, Comments!Cr} THEN "code" ELSE "one_str")
    BY <1>1, <1>4, <1>17, <2>1, CommLiteralSymbol
  <2>. QED
    BY <1>16, <2>2
<1>18. CASE Comments!AtEnd
  <2>1. i = Len(text) => CommLeads(text, i, "one_str", <<text[i]>>, i + 1, next)
    BY <1>3, <1>17
  <2>2. PICK w, g, to : Comments!EndsWith(w, g, to) /\ ~ Comments!Has(g, Comments!InComments)
    BY <1>8, <1>12, <1>14, <1>15
  <2>3. CommLeft(text, out, pos + 1, "one_str")
    BY <1>2, <1>5
  <2>4. i = Len(text) =>
           /\ Comments!Has(g, Comments!InComments)
                => CommLeads(text, i, "one_str", <<>>, i + 1, next)
           /\ ~ Comments!Has(g, Comments!InComments)
                => CommLeads(text, i, "one_str", <<text[i]>>, i + 1, next)
    BY <2>1, <2>2
  <2>. QED
    BY <1>1, <1>2, <1>4, <1>16, <1>18, <2>2, <2>3, <2>4, CommFinishes
<1>19. CASE ~ Comments!AtEnd
  <2>1. i + 1 <= Len(text) /\ i \in 1 .. Len(text) /\ Comments!simvol1 = text[i] /\ Comments!simvol2 = text[i + 1] /\ Comments!Behind = pos + 2
    BY <1>3, <1>4, <1>19
  <2>2. PICK j \in 1 .. Len(text) : j = i + 1 /\ j = pos + 2 /\ j = (pos + 1) + 1 /\ j \in 1 .. Len(text) + 3
    BY <1>2, <1>3, <2>1
  <2>3. PICK h \in 1 .. Len(text) + 3 : h = i + 2 /\ h = (pos + 2) + 1 /\ h = (pos + 1) + 2
    BY <1>2, <1>3, <2>1
  <2>4. /\ <<text[i]>> \in Seq(S) /\ Comments!Pair = <<text[i], text[i + 1]>>
        /\ Comments!Pair \in Seq(S)
    BY <1>1, <2>1, CommSymbolIn DEF Comments!Pair
  <2>5. Comments!Continued(text, i)
          <=> Comments!simvol1 = Comments!Backslash /\ Comments!simvol2 = Comments!Cr
    BY <1>3, CommSymbolsDiffer DEF Comments!Continued
  <2>6. Comments!simvol1 # Comments!Cr => Comments!simvol2 # Comments!Lf
    BY <1>4, <2>1, <2>2
  <2>7. CASE Comments!Escape
    <3>1. Comments!simvol1 = Comments!Backslash /\ Comments!simvol2 # Comments!Slash /\ Comments!EndsWith(Comments!Pair, Comments!Known, pos + 2)
      BY <1>10, <1>12, <2>1, <2>7
    <3>2. CASE Comments!Continued(text, i)
      <4>1. ~ CommUsualFrom(text)[i]["one_str"]
        BY <1>1, <1>4, <2>1, <3>2, CommLiteralContinues
      <4>. QED
        BY <1>5, <4>1 DEF CommLeft
    <3>3. CASE ~ Comments!Continued(text, i)
      <4>1. Comments!simvol2 \notin Comments!Ends /\ text[j] # Comments!Cr
        BY <2>1, <2>2, <2>5, <2>6, <3>1, <3>3, CommSymbolsDiffer DEF Comments!Ends
      <4>2. CommLeads(text, i, "one_str", Comments!Pair, h, "one_str")
        <5>1. text[i] = Comments!Backslash /\ i < Len(text)
          BY <1>3, <2>1, <3>1
        <5>2. CommLeads(text, i, "one_str", <<text[i], text[i + 1]>>, i + 2, "one_str")
          BY <1>1, <1>4, <2>1, <3>3, <5>1, CommLiteralEscapes
        <5>. QED
          BY <2>3, <2>4, <5>2
      <4>3. CommLeft(text, out \o Comments!Pair, h, "one_str")
        BY <1>1, <1>4, <1>5, <2>4, <4>2, CommFollow
      <4>4. CommOnly(Comments!Known, {"in_one_str"})
        BY <1>7, <4>1, CommOnlyIs
      <4>5. CommReads(text, pos + 2) # Comments!Lf
        BY <2>2, <4>1, CommNotLf
      <4>6. CommInLiteral(text, pos + 2, Comments!Known, out \o Comments!Pair)
        BY <1>7, <2>3, <4>3, <4>4, <4>5 DEF CommInLiteral
      <4>. QED
        BY <1>19, <3>1, <4>6, CommGoesOn DEF CommSomewhere
    <3>. QED
      BY <3>2, <3>3
  <2>8. CASE ~ Comments!Escapes /\ Comments!EndsWith(<<Comments!simvol1>>, f, pos + 1)
    <3>1. CASE Comments!simvol1 = Comments!Backslash
      <4>1. Comments!simvol2 = Comments!Slash /\ Comments!simvol2 \notin Comments!Ends /\ ~ Comments!Continued(text, i) /\ f = Comments!Known
        BY <1>10, <1>14, <2>5, <2>8, <3>1, CommSymbolsDiffer DEF Comments!Ends
      <4>2. CommLeads(text, i, "one_str", <<text[i]>>, j, "one_str")
        <5>1. text[i] = Comments!Backslash /\ i < Len(text) /\ text[i + 1] = Comments!Slash
          BY <1>3, <2>1, <3>1, <4>1
        <5>2. CommLeads(text, i, "one_str", <<text[i]>>, i + 1, "one_str")
          BY <1>1, <1>4, <2>1, <4>1, <5>1, CommLiteralEscapes
        <5>. QED
          BY <2>2, <5>2
      <4>3. CommLeft(text, out \o <<Comments!simvol1>>, j, "one_str")
        BY <1>1, <1>4, <1>5, <2>1, <2>2, <2>4, <4>2, CommFollow
      <4>4. CommOnly(Comments!Known, {"in_one_str"})
        BY <1>7, <4>1, CommOnlyIs
      <4>5. CommReads(text, pos + 1) # Comments!Lf
        BY <1>3, <2>1, <3>1, CommSymbolsDiffer
      <4>6. CommInLiteral(text, pos + 1, Comments!Known, out \o <<Comments!simvol1>>)
        BY <1>7, <2>2, <4>3, <4>4, <4>5 DEF CommInLiteral
      <4>. QED
        BY <1>19, <2>8, <4>1, <4>6, CommGoesOn DEF CommSomewhere
    <3>2. CASE Comments!simvol1 # Comments!Backslash
      <4>1. CommLeads(text, i, "one_str", <<text[i]>>, i + 1, next) /\ "transfer_str" \notin Comments!Known
        BY <1>3, <1>7, <1>17, <2>1, <3>2
      <4>2. CommLeft(text, out \o <<Comments!simvol1>>, j, next)
        BY <1>1, <1>4, <1>5, <1>16, <2>1, <2>2, <2>4, <4>1, CommFollow
      <4>3. CASE Comments!simvol1 = Comments!Quote
        <5>1. next = "code"
          BY <1>16, <2>1, <4>3
        <5>2. CommInCode(text, pos + 1, f, out \o <<Comments!simvol1>>)
          BY <1>14, <2>2, <4>2, <4>3, <5>1 DEF CommInCode
        <5>. QED
          BY <1>19, <2>8, <5>2, CommGoesOn DEF CommSomewhere
      <4>4. CASE Comments!simvol1 = Comments!Cr
        <5>1. next = "code" /\ f = Comments!Known
          BY <1>14, <1>16, <2>1, <4>4, CommSymbolsDiffer
        <5>2. CommLeadsBehind(text, i, "one_str", <<text[i]>>, h, "code")
          BY <1>1, <1>4, <2>1, <2>3, <4>1, <4>4, <5>1, CommLiteralEnds
        <5>3. text[j] = Comments!Lf /\ Comments!Lf \in S
          <6>1. text[i] = Comments!Cr
            BY <2>1, <4>4
          <6>2. text[i + 1] = Comments!Lf
            BY <1>4, <2>1, <6>1 DEF CommPaired
          <6>3. text[j] \in S
            BY <1>1, <2>2
          <6>. QED
            BY <2>2, <6>2, <6>3
        <5>4. CommLeftBehind(text, out \o <<Comments!simvol1>>, h, "code")
          BY <1>1, <1>4, <1>5, <2>1, <2>4, <5>2, <5>3, CommFollowBehind
        <5>5. CommReads(text, pos + 1) = Comments!Lf
          BY <1>2, <1>3, <2>1, <2>2, <5>3 DEF CommReads
        <5>6. CommOnly(Comments!Known, {"in_one_str"})
          BY <1>7, <4>1, CommOnlyIs
        <5>7. CommBehindLiteral(text, pos + 1, Comments!Known, out \o <<Comments!simvol1>>)
          BY <2>3, <5>4, <5>5, <5>6 DEF CommBehindLiteral
        <5>. QED
          BY <1>19, <2>8, <5>1, <5>7, CommGoesOn DEF CommSomewhere
      <4>5. CASE Comments!simvol1 \notin {Comments!Quote, Comments!Cr}
        <5>1. next = "one_str" /\ f = Comments!Known
          BY <1>14, <1>16, <2>1, <4>5
        <5>2. CommOnly(Comments!Known, {"in_one_str"})
          BY <1>7, <4>1, CommOnlyIs
        <5>3. CommReads(text, pos + 1) # Comments!Lf
          BY <1>3, <2>1, <4>5
        <5>4. CommInLiteral(text, pos + 1, Comments!Known, out \o <<Comments!simvol1>>)
          BY <1>7, <2>2, <4>2, <5>1, <5>2, <5>3 DEF CommInLiteral
        <5>. QED
          BY <1>19, <2>8, <5>1, <5>4, CommGoesOn DEF CommSomewhere
      <4>. QED
        BY <4>3, <4>4, <4>5
    <3>. QED
      BY <3>1, <3>2
  <2>. QED
    BY <1>15, <2>7, <2>8
<1>. QED
  BY <1>18, <1>19

\* The line feed behind a token.
LEMMA CommBehindFollow ==
  ASSUME NEW S, NEW t \in Seq(S), CommPaired(t), NEW o \in Seq(S), Comments!Lf \in S,
         NEW j \in 1 .. Len(t) + 3, NEW mode \in Comments!Modes, CommLeftBehind(t, o, j, mode)
  PROVE  CommLeft(t, o \o <<Comments!Lf>>, j, mode)
<1>1. PICK r : r = CommRestFrom(t)[j][mode]
  OBVIOUS
<1>2. r \in Seq(S) /\ <<Comments!Lf>> \in Seq(S)
  BY <1>1, CommRestTyped, CommOneIn
<1>3. (o \o <<Comments!Lf>>) \o r = o \o (<<Comments!Lf>> \o r)
  BY <1>2, CommAssoc
<1>. QED
  BY <1>1, <1>3 DEF CommLeft, CommLeftBehind

LEMMA CommLfPasses ==
  ASSUME CommIInv, Comments!Next, CommReads(text, pos) = Comments!Lf, "continue" \notin flags,
      ~ Comments!Has(Comments!Known, Comments!InComments)
  PROVE  Comments!EndsWith(<<Comments!Lf>>, Comments!Known, pos + 1)
<1>1. Comments!simvol1 = Comments!Lf
  BY CommFileIs
<1>2. "comment" \notin Comments!Known /\ "in_comment" \notin Comments!Known /\ "transfer_comment" \notin Comments!Known
  BY CommHasIs
<1>3. ~ (Comments!Lingers \/ Comments!Escapes \/ Comments!OpensLiteral \/ Comments!ClosesLiteral \/ Comments!OpensString \/ Comments!ClosesString
         \/ Comments!OpensComment \/ Comments!ClosesComment \/ Comments!OpensLine \/ Comments!EndsLine \/ Comments!ContinuesLine
         \/ Comments!EndsTransferred \/ Comments!SkipsTransferred)
  BY <1>1, <1>2, CommSymbolsDiffer DEF Comments!Lingers, Comments!Escapes,
     Comments!OpensLiteral, Comments!ClosesLiteral, Comments!OpensString,
     Comments!ClosesString, Comments!OpensComment, Comments!ClosesComment, Comments!OpensLine,
         Comments!EndsLine, Comments!ContinuesLine, Comments!EndsTransferred,
     Comments!SkipsTransferred, Comments!Pair
<1>4. Comments!Pass
  BY <1>3 DEF Comments!Next, Comments!Linger, Comments!Escape, Comments!OpenLiteral,
     Comments!CloseString, Comments!CloseComment, Comments!OpenComment, Comments!EndLine,
     Comments!ContinueLine, Comments!EndTransferred, Comments!SkipTransferred
<1>5. PICK f : f = (Comments!Known \ (IF Comments!ClosesLiteral THEN {"in_one_str"} ELSE {}))
                      \cup (IF Comments!OpensString THEN {"in_str"} ELSE {})
                      \cup (IF Comments!OpensLine THEN {"comment"} ELSE {})
  OBVIOUS
<1>6. f = Comments!Known
  BY <1>3, <1>5
<1>. QED
  BY <1>1, <1>4, <1>5, <1>6 DEF Comments!Pass

LEMMA CommLfStep ==
  ASSUME CommIInv, Comments!Next, CommReads(text, pos) = Comments!Lf, "continue" \notin flags,
      ~ Comments!Has(Comments!Known, Comments!InComments),
         NEW mode \in Comments!Modes, CommLeftBehind(text, out, pos + 2, mode),
         CommLeft(text, out \o <<Comments!Lf>>, pos + 2, mode) /\ CommReads(text, pos + 1) # Comments!Lf
           => CommSomewhere(text, pos + 1, Comments!Known, out \o <<Comments!Lf>>)
  PROVE  CommCopied'
<1>1. PICK S : text \in Seq(S) /\ out \in Seq(S)
  BY CommSomeSymbols
<1>2. PICK i : i = pos + 1
  OBVIOUS
<1>3. /\ i \in 1 .. Len(text) + 1 /\ pos \in Nat /\ Len(text) \in Nat /\ (Comments!AtEnd <=> i >= Len(text))
      /\ i <= Len(text) => Comments!simvol1 = text[i]
  BY <1>2, CommPlaces
<1>4. CommPaired(text) /\ Comments!simvol1 = Comments!Lf
  BY CommFileIs
<1>5. i \in 1 .. Len(text) /\ text[i] = Comments!Lf
  <2>1. pos < Len(text)
    BY CommSymbolsDiffer DEF CommReads
  <2>. QED
    BY <1>2, <1>3, <1>4, <2>1
<1>6. Comments!Lf \in S /\ <<Comments!Lf>> \in Seq(S)
  <2>1. Comments!Lf \in S
    BY <1>1, <1>5
  <2>. QED
    BY <2>1, CommOneIn
<1>7. PICK j \in 1 .. Len(text) + 3 : j = i + 1 /\ j = pos + 2
  BY <1>2, <1>3, <1>5
<1>8. CommLeft(text, out \o <<Comments!Lf>>, j, mode)
  BY <1>1, <1>4, <1>6, <1>7, CommBehindFollow
<1>9. CommReads(text, i) # Comments!Lf
  BY <1>5, CommNotLf, CommSymbolsDiffer
<1>10. Comments!EndsWith(<<Comments!Lf>>, Comments!Known, pos + 1)
  BY CommLfPasses
<1>11. CASE Comments!AtEnd
  <2>1. j = Len(text) + 1
    BY <1>3, <1>5, <1>7, <1>11
  <2>2. out \o <<Comments!Lf>> \in Seq(S)
    BY <1>1, <1>6, CommJoined
  <2>3. out \o <<Comments!Lf>> = CommRestFrom(text)[1]["code"]
    BY <1>1, <1>4, <1>8, <2>1, <2>2, CommEnded
  <2>4. text' = text /\ eof' = TRUE /\ out' = out \o <<Comments!Lf>>
    BY <1>4, <1>10, <1>11, CommSymbolsDiffer DEF Comments!EndsWith
  <2>. QED
    BY <2>3, <2>4, CommCopiedNext
<1>12. CASE ~ Comments!AtEnd
  BY <1>2, <1>7, <1>8, <1>9, <1>10, <1>12, CommGoesOn
<1>. QED
  BY <1>11, <1>12

LEMMA CommBehindLiteralStep ==
  ASSUME CommIInv, CommBehindLiteral(text, pos, flags, out), Comments!Next
  PROVE  CommCopied'
<1>1. Comments!simvol1 = Comments!Lf /\ "code" \in Comments!Modes
  BY CommFileIs DEF CommBehindLiteral, Comments!Modes
<1>2. /\ "continue" \notin flags /\ "in_comment" \notin flags /\ "comment" \notin flags
      /\ "transfer_comment" \notin flags /\ "transfer_str" \notin flags
  BY CommOnlyIs DEF CommBehindLiteral
<1>3. CommOnly(Comments!Known, {}) /\ ~ Comments!Has(Comments!Known, Comments!InComments)
  BY <1>1, <1>2, CommKnownHas, CommOnlyIs, CommHasIs
<1>4. pos + 1 + 1 = pos + 2
  BY CommFileIs
<1>5. CommLeft(text, out \o <<Comments!Lf>>, pos + 2, "code")
        => CommInCode(text, pos + 1, Comments!Known, out \o <<Comments!Lf>>)
  BY <1>3, <1>4 DEF CommInCode
<1>. QED
  BY <1>1, <1>2, <1>3, <1>5, CommLfStep DEF CommBehindLiteral, CommSomewhere

LEMMA CommBehindStringStep ==
  ASSUME CommIInv, CommBehindString(text, pos, flags, out), Comments!Next
  PROVE  CommCopied'
<1>1. Comments!simvol1 = Comments!Lf /\ "str" \in Comments!Modes
  BY CommFileIs DEF CommBehindString, Comments!Modes
<1>2. /\ "continue" \notin flags /\ "in_comment" \notin flags /\ "comment" \notin flags
      /\ "transfer_comment" \notin flags /\ "transfer_str" \in flags
      /\ "transfer_false_symbol" \in flags
  BY CommOnlyIs DEF CommBehindString
<1>3. CommOnly(Comments!Known, {"in_str"}) /\ ~ Comments!Has(Comments!Known, Comments!InComments) /\ "false_symbol" \notin Comments!Known
  BY <1>1, <1>2, CommKnownHas, CommOnlyIs, CommHasIs
<1>4. pos + 1 + 1 = pos + 2
  BY CommFileIs
<1>5. CommLeft(text, out \o <<Comments!Lf>>, pos + 2, "str") /\ CommReads(text, pos + 1) # Comments!Lf
        => CommInString(text, pos + 1, Comments!Known, out \o <<Comments!Lf>>)
  BY <1>3, <1>4 DEF CommInString
<1>. QED
  BY <1>1, <1>2, <1>3, <1>5, CommLfStep DEF CommBehindString, CommSomewhere

LEMMA CommPlainStep ==
  ASSUME CommIInv, CommInPlain(text, pos, flags, out), Comments!Next
  PROVE  CommCopied'
<1>1. PICK S : text \in Seq(S) /\ out \in Seq(S)
  BY CommSomeSymbols
<1>2. PICK i : i = pos + 1
  OBVIOUS
<1>3. /\ i \in 1 .. Len(text) + 1 /\ pos \in Nat /\ Len(text) \in Nat
      /\ i <= Len(text) => Comments!simvol1 = text[i]
      /\ i + 1 <= Len(text) => Comments!simvol2 = text[i + 1]
      /\ Comments!AtEnd <=> i >= Len(text)
      /\ Comments!AtEnd <=> Comments!simvol2 = Comments!Eof
      /\ i + 1 <= Len(text) /\ text[i] # Comments!Cr => CommReads(text, pos + 1) # Comments!Lf
      /\ i <= Len(text) => text[i] # Comments!Eof
      /\ \A a, b : a # Comments!Eof /\ b # Comments!Eof
           => (Comments!Pairs(text, i, a, b) <=> Comments!simvol1 = a /\ Comments!simvol2 = b)
  BY <1>2, CommPlaces
<1>4. /\ CommPaired(text) /\ (~ Comments!AtEnd => Comments!Behind = pos + 2) /\ Comments!simvol1 = CommReads(text, pos)
      /\ \A k \in 1 .. Len(text) : text[k] # Comments!Eof /\ (text[k] = Comments!Lf => k > 1 /\ text[k - 1] = Comments!Cr)
      /\ "code" \in Comments!Modes /\ "line" \in Comments!Modes /\ "block" \in Comments!Modes
      /\ "str" \in Comments!Modes
      /\ "one_str" \in Comments!Modes
  BY CommFileIs DEF Comments!Modes
<1>5. CommLeft(text, out, i, "line") /\ Comments!simvol1 # Comments!Lf
  BY <1>2, <1>4 DEF CommInPlain
<1>6. /\ "continue" \notin flags /\ "transfer_comment" \in flags /\ "in_comment" \notin flags
      /\ "in_str" \notin flags /\ "in_one_str" \notin flags /\ "transfer_str" \notin flags
  BY CommOnlyIs DEF CommInPlain
<1>7. Comments!Has(flags, Comments!InComments)
  BY <1>6, CommHasIs
<1>8. /\ "continue" \notin Comments!Known /\ "transfer_comment" \in Comments!Known
      /\ "in_comment" \notin Comments!Known
      /\ "in_str" \notin Comments!Known /\ "in_one_str" \notin Comments!Known
      /\ "transfer_str" \notin Comments!Known
  BY <1>5, <1>6, <1>7, CommKnownHas
<1>9. Comments!Has(Comments!Known, Comments!InComments) /\ ~ Comments!Has(Comments!Known, Comments!InLiterals)
  BY <1>8, CommHasIs
<1>10. PICK end \in i .. Len(text) + 1 :
         /\ end = Len(text) + 1 \/ (text[end] = Comments!Cr /\ end >= i + 1)
         /\ \A k \in i .. end - 1 : text[k] \notin {Comments!Cr, Comments!Backslash} /\ ~ Comments!Pairs(text, k, Comments!Slash, Comments!Star)
  <2>1. pos + 2 = i + 1
    BY <1>2, <1>3
  <2>. QED
    BY <1>2, <2>1 DEF CommInPlain, CommPlain
<1>11. i <= Len(text) =>
         i \in i .. end - 1 /\ text[i] \notin {Comments!Cr, Comments!Backslash} /\ ~ Comments!Pairs(text, i, Comments!Slash, Comments!Star)
  <2>1. ASSUME i <= Len(text) PROVE i \in i .. end - 1
    BY <1>3, <1>10, <2>1
  <2>. QED
    BY <1>10, <2>1
<1>12. Comments!simvol1 \notin {Comments!Cr, Comments!Lf, Comments!Backslash} /\ ~ Comments!OpensComment
  <2>1. CASE i <= Len(text)
    <3>1. Comments!simvol1 \notin {Comments!Cr, Comments!Lf, Comments!Backslash}
      BY <1>3, <1>5, <1>11, <2>1
    <3>2. ~ (Comments!simvol1 = Comments!Slash /\ Comments!simvol2 = Comments!Star)
      BY <1>3, <1>11, <2>1, CommSymbolsDiffer
    <3>. QED
      BY <3>1, <3>2 DEF Comments!OpensComment, Comments!Pair
  <2>2. CASE ~ (i <= Len(text))
    <3>1. Comments!simvol1 = Comments!Eof
      BY <1>2, <1>3, <1>4, <2>2 DEF CommReads
    <3>. QED
      BY <3>1, CommSymbolsDiffer DEF Comments!OpensComment, Comments!Pair
  <2>. QED
    BY <2>1, <2>2
<1>13. ~ (Comments!Lingers \/ Comments!Escapes \/ Comments!OpensLiteral \/ Comments!ClosesLiteral \/ Comments!OpensString \/ Comments!ClosesString
          \/ Comments!OpensComment \/ Comments!ClosesComment \/ Comments!EndsLine \/ Comments!ContinuesLine \/ Comments!SkipsTransferred)
  BY <1>6, <1>8, <1>9, <1>12, CommHasIs DEF Comments!Lingers, Comments!Escapes,
     Comments!OpensLiteral, Comments!ClosesLiteral, Comments!OpensString,
     Comments!ClosesString, Comments!ClosesComment, Comments!EndsLine, Comments!ContinuesLine,
         Comments!SkipsTransferred, Comments!Ends
<1>14. Comments!EndTransferred \/ Comments!Pass
  BY <1>13 DEF Comments!Next, Comments!Linger, Comments!Escape, Comments!OpenLiteral,
     Comments!CloseString, Comments!CloseComment, Comments!OpenComment, Comments!EndLine,
     Comments!ContinueLine, Comments!SkipTransferred
<1>15. Comments!EndsTransferred
         <=> Comments!simvol2 \in {Comments!Cr, Comments!Lf, Comments!Backslash}
  BY <1>8, <1>12 DEF Comments!EndsTransferred, Comments!Ends
<1>16. PICK f : f = (Comments!Known \ (IF Comments!ClosesLiteral THEN {"in_one_str"} ELSE {}))
                      \cup (IF Comments!OpensString THEN {"in_str"} ELSE {})
                      \cup (IF Comments!OpensLine THEN {"comment"} ELSE {})
  OBVIOUS
<1>17. /\ Comments!Has(f, Comments!InComments)
       /\ CommOnly(f, {"transfer_comment"}) \/ CommOnly(f, {"transfer_comment", "comment"})
  BY <1>8, <1>13, <1>16, CommOnlyIs, CommHasIs
<1>18. Comments!Pass => Comments!simvol2 \notin {Comments!Cr, Comments!Lf, Comments!Backslash} /\ Comments!EndsWith(<<>>, f, pos + 1)
  BY <1>15, <1>16, <1>17 DEF Comments!Pass
<1>19. ASSUME i <= Len(text)
       PROVE  CommLeads(text, i, "line", <<>>, i + 1, "line")
  <2>1. i \in 1 .. Len(text) /\ ~ Comments!Continued(text, i) /\ text[i] # Comments!Cr
    BY <1>3, <1>11, <1>19 DEF Comments!Continued, Comments!Pairs
  <2>. QED
    BY <1>1, <1>4, <2>1, CommLineSymbol
<1>20. CASE Comments!AtEnd
  <2>1. Comments!Pass /\ CommLeft(text, out, pos + 1, "line")
    BY <1>2, <1>3, <1>5, <1>14, <1>15, <1>20, CommSymbolsDiffer DEF Comments!EndTransferred
  <2>2. i = Len(text) =>
           /\ Comments!Has(f, Comments!InComments)
                => CommLeads(text, i, "line", <<>>, i + 1, "line")
           /\ ~ Comments!Has(f, Comments!InComments)
                => CommLeads(text, i, "line", <<text[i]>>, i + 1, "line")
    BY <1>3, <1>17, <1>19
  <2>3. Comments!EndsWith(<<>>, f, pos + 1)
    BY <1>18, <2>1
  <2>. QED
    BY <1>1, <1>2, <1>4, <1>20, <2>1, <2>2, <2>3, CommFinishes
<1>21. CASE ~ Comments!AtEnd
  <2>1. i + 1 <= Len(text) /\ i \in 1 .. Len(text) /\ Comments!simvol1 = text[i] /\ Comments!simvol2 = text[i + 1] /\ Comments!Behind = pos + 2
    BY <1>3, <1>4, <1>21
  <2>2. PICK j \in 1 .. Len(text) : j = i + 1 /\ j = pos + 2 /\ j = (pos + 1) + 1 /\ j \in 1 .. Len(text) + 3
    BY <1>2, <1>3, <2>1
  <2>3. CommLeft(text, out, j, "line")
    <3>1. CommLeads(text, i, "line", <<>>, j, "line")
      BY <1>19, <2>1, <2>2
    <3>. QED
      BY <1>1, <1>4, <1>5, <2>2, <3>1, CommFollowNone
  <2>4. CommReads(text, pos + 1) # Comments!Lf /\ Comments!simvol2 # Comments!Lf
    <3>1. CommReads(text, pos + 1) # Comments!Lf
      BY <1>3, <1>11, <2>1
    <3>. QED
      BY <3>1, CommFileIs
  <2>5. i + 1 <= end /\ (end = Len(text) + 1 \/ (text[end] = Comments!Cr /\ end >= j))
    BY <1>3, <1>10, <1>11, <2>1, <2>2
  <2>6. CASE Comments!EndTransferred
    <3>1. Comments!simvol2 \in {Comments!Cr, Comments!Backslash}
      BY <1>15, <2>4, <2>6 DEF Comments!EndTransferred
    <3>2. text[j] = Comments!Cr
      <4>1. CASE j \in i .. end - 1
        BY <1>10, <2>1, <2>2, <3>1, <4>1
      <4>2. CASE j \notin i .. end - 1
        <5>1. j = end
          BY <1>3, <1>10, <2>2, <2>5, <4>2
        <5>2. end # Len(text) + 1
          BY <1>3, <2>2, <5>1
        <5>. QED
          BY <2>5, <5>1, <5>2
      <4>. QED
        BY <4>1, <4>2
    <3>3. PICK g : g = Comments!Known \ {"transfer_comment"}
      OBVIOUS
    <3>4. Comments!Seeks(pos + 1, g)
      <4>1. Comments!Behind - 1 = pos + 1
        BY <1>3, <2>1
      <4>2. (Comments!Known \ {"transfer_comment"}) \ (IF Comments!ClosesLiteral THEN {"in_one_str"} ELSE {}) = g
        BY <1>13, <3>3
      <4>. QED
        BY <2>6, <4>1, <4>2 DEF Comments!EndTransferred
    <3>5. CASE "comment" \in Comments!Known
      <4>1. CommOnly(g, {"comment"})
        BY <1>8, <3>3, <3>5, CommOnlyIs
      <4>2. CommInLine(text, pos + 1, g, out)
        BY <2>2, <2>3, <2>4, <4>1 DEF CommInLine
      <4>. QED
        BY <3>4, <4>2, CommSeeking DEF CommSomewhere
    <3>6. CASE "comment" \notin Comments!Known
      <4>1. CommOnly(g, {})
        BY <1>8, <3>3, <3>6, CommOnlyIs
      <4>2. CommLeft(text, out, j, "code")
        <5>1. /\ CommRestFrom(text)[j]["line"] = CommRestFrom(text)[j]["code"]
              /\ CommUsualFrom(text)[j]["line"] => CommUsualFrom(text)[j]["code"]
          BY <1>1, <1>4, <3>2, CommLineEnds
        <5>. QED
          BY <2>3, <5>1 DEF CommLeft
      <4>3. CommInCode(text, pos + 1, g, out)
        BY <2>2, <4>1, <4>2 DEF CommInCode
      <4>. QED
        BY <3>4, <4>3, CommSeeking DEF CommSomewhere
    <3>. QED
      BY <3>5, <3>6
  <2>7. CASE Comments!Pass
    <3>1. text[j] # Comments!Cr /\ Comments!EndsWith(<<>>, f, pos + 1)
      BY <1>18, <2>1, <2>2, <2>7
    <3>2. CommPlain(text, pos + 1)
      <4>1. end # j
        BY <1>3, <2>2, <2>5, <3>1
      <4>2. end \in (pos + 1) + 1 .. Len(text) + 1 /\ end >= (pos + 1) + 2
        BY <1>2, <1>3, <1>10, <2>2, <2>5, <4>1
      <4>3. \A k \in (pos + 1) + 1 .. end - 1 : k \in i .. end - 1
        BY <1>2, <1>3, <1>10
      <4>. QED
        BY <1>10, <2>5, <4>2, <4>3 DEF CommPlain
    <3>3. out \o <<>> = out
      BY <1>1, CommNoneLeft
    <3>4. CommInPlain(text, pos + 1, f, out \o <<>>)
      BY <1>17, <2>2, <2>3, <2>4, <3>2, <3>3 DEF CommInPlain
    <3>. QED
      BY <1>21, <3>1, <3>4, CommGoesOn DEF CommSomewhere
  <2>. QED
    BY <1>14, <2>6, <2>7
<1>. QED
  BY <1>20, <1>21

LEMMA CommBeforePlainStep ==
  ASSUME CommIInv, CommBeforePlain(text, pos, flags, out), Comments!Next
  PROVE  CommCopied'
<1>1. PICK S : text \in Seq(S) /\ out \in Seq(S)
  BY CommSomeSymbols
<1>2. PICK i : i = pos + 1
  OBVIOUS
<1>3. /\ i \in 1 .. Len(text) + 1 /\ pos \in Nat /\ Len(text) \in Nat
      /\ i <= Len(text) => Comments!simvol1 = text[i]
      /\ i + 1 <= Len(text) => Comments!simvol2 = text[i + 1]
      /\ Comments!AtEnd <=> i >= Len(text)
      /\ Comments!AtEnd <=> Comments!simvol2 = Comments!Eof
      /\ i + 1 <= Len(text) /\ text[i] # Comments!Cr => CommReads(text, pos + 1) # Comments!Lf
      /\ i <= Len(text) => text[i] # Comments!Eof
      /\ \A a, b : a # Comments!Eof /\ b # Comments!Eof
           => (Comments!Pairs(text, i, a, b) <=> Comments!simvol1 = a /\ Comments!simvol2 = b)
  BY <1>2, CommPlaces
<1>4. /\ CommPaired(text) /\ (~ Comments!AtEnd => Comments!Behind = pos + 2) /\ Comments!simvol1 = CommReads(text, pos)
      /\ \A k \in 1 .. Len(text) : text[k] # Comments!Eof /\ (text[k] = Comments!Lf => k > 1 /\ text[k - 1] = Comments!Cr)
      /\ "code" \in Comments!Modes /\ "line" \in Comments!Modes /\ "block" \in Comments!Modes
      /\ "str" \in Comments!Modes
      /\ "one_str" \in Comments!Modes
  BY CommFileIs DEF Comments!Modes
<1>5. CommLeft(text, out, pos + 2, "line") /\ Comments!simvol1 = Comments!Lf /\ Comments!PlainLine(text, pos + 2)
  BY <1>4 DEF CommBeforePlain
<1>6. /\ "continue" \in flags /\ "transfer_comment" \in flags /\ "in_comment" \notin flags
      /\ "comment" \notin flags /\ "in_str" \notin flags /\ "in_one_str" \notin flags
      /\ "transfer_str" \notin flags
  BY CommOnlyIs DEF CommBeforePlain
<1>7. PICK g : g = Comments!Known \ {"continue"}
  OBVIOUS
<1>8. CommOnly(g, {"transfer_comment"}) /\ Comments!Has(g, Comments!InComments)
  BY <1>5, <1>6, <1>7, CommKnownHas, CommOnlyIs, CommHasIs
<1>9. Comments!EndsWith(<<>>, g, Comments!Behind)
  BY <1>6, <1>7 DEF Comments!Next, Comments!Lingers, Comments!Linger, Comments!Escape,
     Comments!OpenLiteral, Comments!CloseString, Comments!CloseComment, Comments!OpenComment,
     Comments!EndLine, Comments!ContinueLine, Comments!EndTransferred, Comments!SkipTransferred,
         Comments!Pass
<1>10. i \in 1 .. Len(text)
  <2>1. pos < Len(text)
    BY <1>4, <1>5, CommSymbolsDiffer DEF CommReads
  <2>. QED
    BY <1>2, <1>3, <2>1
<1>11. PICK q \in 1 .. Len(text) + 3 : q = pos + 2 /\ q = i + 1
  BY <1>2, <1>3, <1>10
<1>12. out \o <<>> = out
  BY <1>1, CommNoneLeft
<1>13. CASE Comments!AtEnd
  <2>1. q = Len(text) + 1
    BY <1>3, <1>10, <1>11, <1>13
  <2>2. out = CommRestFrom(text)[1]["code"]
    BY <1>1, <1>4, <1>5, <1>11, <2>1, CommEnded
  <2>3. text' = text /\ eof' = TRUE /\ out' = out
    BY <1>8, <1>9, <1>12, <1>13 DEF Comments!EndsWith
  <2>. QED
    BY <2>2, <2>3, CommCopiedNext
<1>14. CASE ~ Comments!AtEnd
  <2>1. q \in 1 .. Len(text) /\ Comments!Behind = pos + 2
    BY <1>3, <1>4, <1>11, <1>14
  <2>2. PICK end \in q .. Len(text) + 1 :
          /\ end = Len(text) + 1 \/ (text[end] = Comments!Cr /\ end >= q + 2)
          /\ \A k \in q .. end - 1 : text[k] \notin {Comments!Cr, Comments!Backslash} /\ ~ Comments!Pairs(text, k, Comments!Slash, Comments!Star)
    BY <1>5, <1>11 DEF Comments!PlainLine
  <2>3. q \in q .. end - 1
    BY <2>1, <2>2
  <2>4. ~ Comments!Continued(text, q) /\ text[q] # Comments!Cr
    BY <2>2, <2>3 DEF Comments!Continued, Comments!Pairs
  <2>5. PICK h \in 1 .. Len(text) + 3 : h = q + 1 /\ h = (pos + 2) + 1
    BY <1>11, <2>1
  <2>6. CommLeads(text, q, "line", <<>>, h, "line")
    BY <1>1, <1>4, <2>1, <2>4, <2>5, CommLineSymbol
  <2>7. CommLeft(text, out, h, "line")
    BY <1>1, <1>4, <1>5, <1>11, <2>6, CommFollowNone
  <2>8. CommReads(text, q) # Comments!Lf
    BY <2>1, <2>4, CommNotLf
  <2>9. CommPlain(text, pos + 2)
    <3>1. end \in (pos + 2) + 1 .. Len(text) + 1
      BY <1>3, <1>11, <2>1, <2>2, <2>3
    <3>2. end = Len(text) + 1 \/ (text[end] = Comments!Cr /\ end >= (pos + 2) + 2)
      BY <1>11, <2>2
    <3>3. \A k \in (pos + 2) + 1 .. end - 1 : k \in q .. end - 1
      BY <1>3, <1>11, <2>2
    <3>. QED
      BY <2>2, <3>1, <3>2, <3>3 DEF CommPlain
  <2>10. CommInPlain(text, pos + 2, g, out \o <<>>)
    BY <1>8, <1>11, <1>12, <2>5, <2>7, <2>8, <2>9 DEF CommInPlain
  <2>. QED
    BY <1>9, <1>14, <2>1, <2>10, CommGoesOn DEF CommSomewhere
<1>. QED
  BY <1>13, <1>14

\* Where the loop is tells what is left of the copy.
LEMMA CommInitCopied ==
  ASSUME Comments!Init, CommIInv
  PROVE  CommCopied
<1>1. PICK S : text \in Seq(S) /\ out \in Seq(S)
  BY CommSomeSymbols
<1>2. /\ pos = 0 /\ eof = FALSE /\ flags = {"false_symbol"} /\ out = <<>>
  BY DEF Comments!Init
<1>3. CommPaired(text) /\ Len(text) \in Nat /\ "code" \in Comments!Modes
  BY CommFileIs DEF Comments!Modes
<1>4. PICK j \in 1 .. Len(text) + 3 : j = 1 /\ j = pos + 1
  BY <1>2, <1>3
<1>5. PICK r : r = CommRestFrom(text)[1]["code"]
  OBVIOUS
<1>6. r \in Seq(S)
  BY <1>1, <1>3, <1>4, <1>5, CommRestTyped
<1>7. <<>> \o r = r
  BY <1>6, CommNoneLeft
<1>8. CommUsualFrom(text)[1]["code"] => CommLeft(text, out, pos + 1, "code")
  BY <1>2, <1>4, <1>5, <1>7 DEF CommLeft
<1>9. CommOnly(flags, {})
  BY <1>2, CommOnlyIs
<1>. QED
  BY <1>2, <1>8, <1>9 DEF CommCopied, CommSomewhere, CommInCode

LEMMA CommNextCopied ==
  ASSUME CommIInv, CommCopied, [Comments!Next]_(Comments!vars)
  PROVE  CommCopied'
<1>1. CASE Comments!Next
  <2>1. text' = text /\ ~ eof
    BY <1>1 DEF Comments!Next, Comments!Linger, Comments!Escape, Comments!OpenLiteral,
       Comments!CloseString, Comments!CloseComment, Comments!OpenComment, Comments!EndLine,
       Comments!ContinueLine, Comments!EndTransferred, Comments!SkipTransferred, Comments!Pass,
           Comments!EndsWith, Comments!Seeks
  <2>2. CASE CommUsualFrom(text)[1]["code"]
    <3>1. CommSomewhere(text, pos, flags, out)
      BY <2>1, <2>2 DEF CommCopied
    <3>. QED
      BY <1>1, <3>1, CommCodeStep, CommLineStep, CommBlockStep, CommStringStep, CommLiteralStep,
         CommBehindLiteralStep,
         CommBehindStringStep, CommPlainStep, CommBeforePlainStep DEF CommSomewhere
  <2>3. CASE ~ CommUsualFrom(text)[1]["code"]
    BY <2>1, <2>3 DEF CommCopied
  <2>. QED
    BY <2>2, <2>3
<1>2. CASE UNCHANGED Comments!vars
  BY <1>2 DEF Comments!vars, CommCopied
<1>. QED
  BY <1>1, <1>2

LEMMA CommRemoved ==
  ASSUME CommCopied
  PROVE  Comments!CommentsRemoved
<1>1. Comments!Uncommented(text) = CommRestFrom(text)[1]["code"]
  BY CommUncommenting
<1>2. Comments!Usual(text) <=> CommUsualFrom(text)[1]["code"]
  BY CommUsualFiles
<1>. QED
  BY <1>1, <1>2 DEF CommCopied, Comments!CommentsRemoved

----------------------------------------------------------------------------
(* What is written. *)

CommCopies == program = "comments" => CommIInv /\ CommCopied

LEMMA CommInitCopies == Init => CommCopies
BY CommInitIInv, CommInitCopied DEF Init, CommCopies

LEMMA CommNextCopies == CommCopies /\ [Next]_vars => CommCopies'
<1>. SUFFICES ASSUME CommCopies, [Next]_vars PROVE CommCopies'
  OBVIOUS
<1>1. program' = program
  BY DEF Next, Runs, vars
<1>2. CASE program = "comments"
  BY <1>1, <1>2, RunsComments, CommNextIInv, CommNextCopied DEF CommCopies
<1>3. CASE program # "comments"
  BY <1>1, <1>3 DEF CommCopies
<1>. QED
  BY <1>2, <1>3

\* Удаление комментариев.cpp: the copy of a usual text is the text without its comments,
\* for every text: a comment in a literal is none, nor is a quote in a comment, an
\* escaped quote closes nothing, and the end of the line stays (deleting_of_comments).
THEOREM CommentsGone == Spec => []CommentsRemoved
<1>1. CommCopies => CommentsRemoved
  BY CommRemoved DEF CommCopies, CommentsRemoved
<1>. QED
  BY <1>1, CommInitCopies, CommNextCopies, PTL DEF Spec
=============================================================================
