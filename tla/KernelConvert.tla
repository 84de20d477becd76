---------------------------- MODULE KernelConvert ----------------------------
(***************************************************************************)
(* The commands nsconv and szconv of the kernel (2/ОСИ/ОС1/kernel.cpp): a  *)
(* numeral in another base, a size in another unit.  The program computes  *)
(* with unsigned 32-bit integers.                                          *)
(*                                                                         *)
(* A character of a number is its value as a digit (0 to 9, then the       *)
(* letters of either case) or Other.  A unit is its rank (b, kb, mb, gb,   *)
(* tb) and whether it is written in lower case.                            *)
(***************************************************************************)
EXTENDS MachineConstants

VARIABLES command, answer
convertVars == <<command, answer>>

Error(message) == [kind |-> "error", message |-> message]
Numeral(digits) == [kind |-> "numeral", digits |-> digits]
\* number_to_string: the integer, a point and two digits.
Size(integer, d1, d2) == [kind |-> "size", integer |-> integer, decimals |-> <<d1, d2>>]
Nothing == [kind |-> "nothing"]

\* The n-th power, as the program has it: a product.
Power(base, n) ==
  LET power[k \in Nat] == IF k = 0 THEN 1 ELSE base * power[k - 1]
  IN power[n]

----------------------------------------------------------------------------
\* nsconv

\* The digits of a value, the most significant first.
DigitsOf(value, base) ==
  LET digits[v \in 0 .. value] == IF v = 0 THEN <<>> ELSE Append(digits[v \div base], v % base)
  IN IF value = 0 THEN <<0>> ELSE digits[value]

\* A slip: the numerals are not compared from the left.
FitsDigitwise(number) ==
  LET max_val == DigitsOf(Word - 1, 10)
  IN /\ number # <<>>
     /\ \A k \in DOMAIN number : number[k] \in 0 .. 9
     /\ \/ Len(number) < Len(max_val)
        \/ Len(number) = Len(max_val) /\ \A k \in DOMAIN number : number[k] <= max_val[k]

\* overflow(), which is TRUE when there is none: the lengths are compared, then
\* the numerals.
Fits(number) ==
  LET max_val == DigitsOf(Word - 1, 10)
  IN /\ number # <<>>
     /\ \A k \in DOMAIN number : number[k] \in 0 .. 9
     /\ \/ Len(number) < Len(max_val)
        \/ /\ Len(number) = Len(max_val)
           /\ \A k \in DOMAIN number :
                number[k] > max_val[k] => \E m \in 1 .. k - 1 : number[m] < max_val[m]

\* What correct_nsconv objects to, in its order; "" if nothing.
Objection(number, from, to) ==
  IF number = <<>> THEN "invalid input"
  ELSE IF {from, to} \cap 2 .. MaxBase # {from, to} THEN "incorrect number system"
  ELSE IF from = 10 /\ ~Fits(number) THEN "overflow"
  ELSE LET bad == {k \in DOMAIN number : number[k] \notin 0 .. from - 1}
       IN IF bad = {} THEN ""
          ELSE IF number[CHOOSE k \in bad : \A m \in bad : k <= m] = Other THEN "invalid character"
          ELSE "not supported"

\* The value is computed modulo Word: it is never above 4294967295, which the
\* loop tests for.
ValueOf(number, base) ==
  LET value[k \in 0 .. Len(number)] ==
        IF k = 0 THEN 0 ELSE (value[k - 1] * base + number[k]) % Word
  IN value[Len(number)]

NsConv(number, from, to) ==
  IF Objection(number, from, to) # "" THEN Error(Objection(number, from, to))
  ELSE Numeral(DigitsOf(ValueOf(number, from), to))

----------------------------------------------------------------------------
\* szconv

Missing == [rank |-> -1, lower |-> FALSE]
NoUnit == [rank |-> 5, lower |-> FALSE]
Named == [rank : 0 .. 4, lower : BOOLEAN]
Units == Named \cup {Missing, NoUnit}

\* A slip: the limit is one too high.
LimitOneMore(to, from) == Word \div Power(Kilo, from - to)

\* What the conversions to kb, mb and gb multiply without exceeding the word,
\* as they have it.
Limit(to, from) == (Word \div Power(Kilo, IF to = 3 THEN 2 ELSE from - to)) - 1

\* in_byte: the product is cut to the word, and tb is no unit.
InBytes(n, from) ==
  IF from > 3 THEN Error("invalid byte name") ELSE Size((n * Power(Kilo, from)) % Word, 0, 0)

\* in_kbyte, in_mbyte, in_gbyte.
InMultiple(n, from, to) ==
  IF from <= to THEN Size(n \div Power(Kilo, to - from), 0, 0)
  ELSE IF n > Limit(to, from) THEN Error("overflow")
  ELSE Size(n * Power(Kilo, from - to), 0, 0)

\* division(): the decimals are computed in unsigned integers.
Division(n, divisor) ==
  LET rest == n % divisor
  IN Size(n \div divisor, ((rest * 10) % Word) \div divisor,
          (((rest * 100) % Word) \div divisor) % 10)

\* in_tbyte.
InTera(n, from) ==
  IF from = 0 THEN Size(0, 0, 0)
  ELSE IF from = 4 THEN Size(n, 0, 0)
  ELSE Division(n, Power(Kilo, 4 - from))

\* determine_function: the names are compared with those in lower case, and
\* nothing is printed for a unit that is none of them.
Converted(n, from, to) ==
  IF ~to.lower \/ (to.rank = 4 /\ ~from.lower) THEN Nothing
  ELSE IF ~from.lower THEN Error("invalid byte name")
  ELSE IF to.rank = 0 THEN InBytes(n, from.rank)
  ELSE IF to.rank = 4 THEN InTera(n, from.rank)
  ELSE InMultiple(n, from.rank, to.rank)

\* szconv with correct_szconv: overflow() looks at the numeral, a zero in front of it
\* included, and the largest number is atoi's sign of an error.
SzConv(number, from, to) ==
  LET n == ValueOf(number, 10)
  IN IF ~Fits(number) THEN Error("overflow")
     ELSE IF n = Word - 1 THEN Error("invalid number input")
     ELSE IF Missing \in {from, to} THEN Error("invalid input")
     ELSE IF NoUnit \in {from, to} THEN Error("invalid byte name")
     ELSE Converted(n, from, to)

----------------------------------------------------------------------------
NsCommands == [name : {"nsconv"}, number : Numbers, from : Bases, to : Bases]
SzCommands == [name : {"szconv"}, number : Sizes, from : Units, to : Units]

Init ==
  /\ command \in NsCommands \/ command \in SzCommands
  /\ answer = Nothing

Answer ==
  /\ answer' = IF command.name = "nsconv" THEN NsConv(command.number, command.from, command.to)
               ELSE SzConv(command.number, command.from, command.to)
  /\ UNCHANGED command

Next == Answer

----------------------------------------------------------------------------
\* Types.
TypeOK ==
  /\ IF command.name = "nsconv" THEN command \in NsCommands ELSE command \in SzCommands
  /\ answer.kind \in {"error", "numeral", "size", "nothing"}

\* The value of a numeral.
Exact(number, base) ==
  LET sum[k \in 0 .. Len(number)] ==
        IF k = 0 THEN 0 ELSE sum[k - 1] + number[k] * Power(base, Len(number) - k)
  IN sum[Len(number)]

\* overflow() counts the characters, zeros in front of the number included.
TooLong(number) == Len(number) > Len(DigitsOf(Word - 1, 10))

\* nsconv answers with a proper numeral, that of the value modulo the word.  From base
\* 10 the value fits, and a number is refused as an overflow only if it is none, is too
\* long or does not fit.  Values of other bases that do not fit are cut to the word:
\* the loop and the report mean them to be refused (l. 672), but the test never holds.
NumeralsExact ==
  command.name = "nsconv" =>
    LET number == command.number
        value == Exact(number, command.from)
    IN /\ answer.kind = "numeral" =>
            /\ \A k \in DOMAIN answer.digits : answer.digits[k] \in 0 .. command.to - 1
            /\ answer.digits[1] = 0 => Len(answer.digits) = 1
            /\ Exact(answer.digits, command.to) = value % Word
            /\ command.from = 10 => value < Word
       /\ answer = Error("overflow") =>
            /\ command.from = 10
            /\ \/ \E k \in DOMAIN number : number[k] \notin 0 .. 9
               \/ TooLong(number)
               \/ value >= Word

\* The size in the other unit, rounded down, and its hundredths.
SizeIn(n, from, to) ==
  IF from > to THEN n * Power(Kilo, from - to) ELSE n \div Power(Kilo, to - from)
HundredthsIn(n, from, to) ==
  LET divisor == Power(Kilo, to - from)
  IN IF from > to THEN 0 ELSE ((n % divisor) * 100) \div divisor
Hundredths(decimals) == 10 * decimals[1] + decimals[2]

\* szconv answers with the size rounded down, which fits a word but in bytes, where it is
\* cut to the word.  The hundredths are right where nothing is divided and from megabytes
\* and gigabytes to terabytes; the other divisions show none, or those of a product that
\* was cut, and nothing is said of them.  The report wants the bytes refused, and its
\* example shows hundredths of kilobytes.  "overflow" is said only of a number that is
\* none, is too long, or does not fit a word before or after the conversion, and of
\* terabytes in gigabytes from the limit on that the code has for them.
SizesExact ==
  command.name = "szconv" =>
    LET number == command.number
        n == Exact(number, 10)
        from == command.from.rank
        to == command.to.rank
    IN /\ answer.kind = "size" =>
            /\ to > 0 => SizeIn(n, from, to) < Word
            /\ answer.integer = SizeIn(n, from, to) % Word
            /\ from >= to \/ (from > 1 /\ to = 4) =>
                 Hundredths(answer.decimals) = HundredthsIn(n, from, to)
       /\ answer = Error("overflow") =>
            \/ number = <<>> \/ \E k \in DOMAIN number : number[k] \notin 0 .. 9
            \/ TooLong(number)
            \/ n >= Word
            \/ SizeIn(n, from, to) >= Word
            \/ from = 4 /\ to = 3 /\ n >= Word \div Power(Kilo, 2)
=============================================================================
