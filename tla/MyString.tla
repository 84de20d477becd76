------------------------------- MODULE MyString -------------------------------
(***************************************************************************)
(* The class MyString (3/ООП/Старое/MyString.cpp): bytes in a buffer that  *)
(* grows by doubling.  The methods with several overloads work through the *)
(* same helpers, which are the operators here: an object is a record, and  *)
(* an operator returns what a call makes of it.                            *)
(*                                                                         *)
(* A byte is a number, Nul is 0.  Junk is a byte of a fresh buffer, of one *)
(* that is freed, or behind the end of one.                                *)
(***************************************************************************)
EXTENDS MachineConstants

VARIABLE str \* the object: my_ptr, my_size and my_capacity

Nul == 0
Junk == -1

\* What C strings, characters and other strings are as arguments.
Texts == UNION {[1 .. n -> Bytes] : n \in 0 .. MaxArgument}
\* The texts that COUNT copies of a character are.
Runs == {data \in Texts : \A k \in DOMAIN data : data[k] = data[1]}
Least(m, n) == IF m < n THEN m ELSE n
First(places) == CHOOSE k \in places : \A m \in places : k <= m

----------------------------------------------------------------------------
\* The helpers.

Object(ptr, size, capacity) == [ptr |-> ptr, size |-> size, capacity |-> capacity]
NewBuffer(capacity) == [k \in 0 .. capacity - 1 |-> Junk]
ReadAt(buf, k) == IF k \in DOMAIN buf THEN buf[k] ELSE Junk

\* memcpy(buf + at, data, len), also of a repeated character.
Copied(buf, at, data) ==
  [k \in DOMAIN buf |-> IF k \in at .. at + Len(data) - 1 THEN data[k - at + 1] ELSE buf[k]]

\* The data of an object, ended by a Nul, in a buffer of the given capacity.
Placed(ptr, data) == [Copied(ptr, 0, data) EXCEPT ![Len(data)] = Nul]

\* The bytes of an object.
Text(o) == [k \in 1 .. o.size |-> o.ptr[k - 1]]

init_from_buffer(data) == Object(Placed(NewBuffer(Len(data) + 1), data), Len(data), Len(data) + 1)

\* The loop doubles what it starts from until it suffices.
next_capacity_ge(current, required) ==
  LET doubled[capacity \in Nat] == IF capacity >= required THEN capacity ELSE doubled[2 * capacity]
  IN doubled[IF current = 0 THEN 1 ELSE current]

ensure_capacity(o, required) ==
  IF o.capacity >= required THEN o
  ELSE LET capacity == next_capacity_ge(o.capacity, required)
       IN Object(Placed(NewBuffer(capacity), Text(o)), o.size, capacity)

\* A slip: the bytes are moved in ascending order, each over one that is still to move.
shift_rightAscending(buf, index, size, len) ==
  [k \in DOMAIN buf |-> IF k \in index + len .. size + len THEN buf[index + ((k - index) % len)] ELSE buf[k]]

shift_right(buf, index, size, len) ==
  [k \in DOMAIN buf |-> IF k \in index + len .. size + len THEN buf[k - len] ELSE buf[k]]

\* The last bytes that are moved come from behind the Nul, perhaps from behind
\* the buffer.
shift_left(buf, index, size, len) ==
  [k \in DOMAIN buf |-> IF k \in index .. size THEN ReadAt(buf, k + len) ELSE buf[k]]

\* my_ptr[my_size] = 0, after my_size has changed.
Ended(ptr, size, capacity) == Object([ptr EXCEPT ![size] = Nul], size, capacity)

----------------------------------------------------------------------------
\* The methods that change a string.

insert_internal(o, index, data) ==
  IF data = <<>> \/ index > o.size THEN o
  ELSE LET grown == ensure_capacity(o, o.size + Len(data) + 1)
       IN Object(Copied(shift_right(grown.ptr, index, o.size, Len(data)), index, data),
                 o.size + Len(data), grown.capacity)

\* insert(INDEX, COUNT, char): the buffer grows even if the index is refused.
InsertRun(o, index, data) ==
  LET grown == ensure_capacity(o, o.size + Len(data) + 1)
  IN IF data = <<>> THEN o
     ELSE IF index > o.size THEN grown
     ELSE Ended(Copied(shift_right(grown.ptr, index, o.size, Len(data)), index, data),
                o.size + Len(data), grown.capacity)

append_internal(o, data) ==
  IF data = <<>> THEN o
  ELSE LET grown == ensure_capacity(o, o.size + Len(data) + 1)
       IN Ended(Copied(grown.ptr, o.size, data), o.size + Len(data), grown.capacity)

erase(o, index, count) ==
  IF index >= o.size \/ count = 0 THEN o
  ELSE LET actual == Least(count, o.size - index)
       IN Ended(shift_left(o.ptr, index, o.size, actual), o.size - actual, o.capacity)

replace_internal(o, index, count, data) ==
  LET actual == Least(count, o.size - index)
      len == Len(data)
      grown == ensure_capacity(o, o.size + len - actual + 1)
  IN IF index > o.size THEN o
     ELSE IF len = actual THEN Object(Copied(o.ptr, index, data), o.size, o.capacity)
     ELSE IF len > actual
          THEN Ended(Copied(shift_right(grown.ptr, index + actual, o.size, len - actual), index, data),
                     o.size + len - actual, grown.capacity)
     ELSE Ended(shift_left(Copied(o.ptr, index, data), index + len, o.size, actual - len),
                o.size + len - actual, o.capacity)

\* The string itself as the argument of an edit at index: a buffer that grows is
\* freed before it is read, and bytes behind index are moved or written over.
Itself(o, index, required) ==
  IF required > o.capacity \/ index < o.size THEN [k \in 1 .. o.size |-> Junk] ELSE Text(o)

AppendSelf(o) == append_internal(o, Itself(o, o.size, 2 * o.size + 1))
InsertSelf(o, index) == insert_internal(o, index, Itself(o, index, 2 * o.size + 1))

\* A string that replaces all of itself is copied to where it is.
ReplaceSelf(o, index, count) ==
  LET required == 2 * o.size + 1 - Least(count, o.size - index)
  IN IF index = 0 /\ count >= o.size THEN o
     ELSE replace_internal(o, index, count, Itself(o, index, required))

\* replace: without a text, or with none of it, what is replaced is erased.
replace(o, index, count, data) ==
  IF data = <<>> THEN erase(o, index, count) ELSE replace_internal(o, index, count, data)

\* operator=
Assign(o, data) ==
  IF Len(data) + 1 > o.capacity THEN init_from_buffer(data)
  ELSE Object(Placed(o.ptr, data), Len(data), o.capacity)

\* s[index] = char, which __setitem__ of the binding does; it throws behind the end.
SetItem(o, index, char) ==
  IF index >= o.size THEN o ELSE Object([o.ptr EXCEPT ![index] = char], o.size, o.capacity)

shrink_to_fit(o) == IF o.capacity = o.size + 1 THEN o ELSE init_from_buffer(Text(o))

----------------------------------------------------------------------------
\* The methods that do not.

cmp_lex(a, b) ==
  LET differ == {k \in 1 .. Least(Len(a), Len(b)) : a[k] # b[k]}
  IN IF differ # {} THEN IF a[First(differ)] < b[First(differ)] THEN -1 ELSE 1
     ELSE IF Len(a) = Len(b) THEN 0
     ELSE IF Len(a) < Len(b) THEN -1 ELSE 1

\* compare(char): a longer string is greater, whatever it begins with.
CompareChar(o, char) ==
  IF o.size = 0 THEN -1
  ELSE IF o.size > 1 THEN 1
  ELSE IF o.ptr[0] = char THEN 0
  ELSE IF o.ptr[0] < char THEN -1 ELSE 1

\* A slip: the last place is not tried.
StartsTooFew(txt, pat, start) == start .. Len(txt) - Len(pat) - 1

\* Where pat may begin.
Starts(txt, pat, start) == start .. Len(txt) - Len(pat)

find_naive(txt, pat, start) ==
  LET found == {i \in Starts(txt, pat, start) : SubSeq(txt, i + 1, i + Len(pat)) = pat}
  IN IF pat = <<>> THEN Least(start, Len(txt))
     ELSE IF start > Len(txt) \/ Len(pat) > Len(txt) \/ found = {} THEN -1
     ELSE First(found)

substr(o, index, count) ==
  IF index >= o.size \/ count = 0 THEN init_from_buffer(<<>>)
  ELSE LET len == Least(count, o.size - index)
       IN Object(Placed(NewBuffer(len + 1), [k \in 1 .. len |-> o.ptr[index + k - 1]]), len, len + 1)

\* operator+ and plus.
plus(o, data) ==
  LET size == o.size + Len(data)
  IN Object(Placed(NewBuffer(size + 1), Text(o) \o data), size, size + 1)

----------------------------------------------------------------------------
Init == \E data \in Texts : str = init_from_buffer(data)

\* A string with Junk in it is not used any more.
Defined(o) == \A k \in 1 .. o.size : Text(o)[k] # Junk
Becomes(o) == Defined(str) /\ o.size <= MaxSize /\ str' = o

Indices == 0 .. MaxSize + 1

Insert == \E index \in Indices, data \in Texts : Becomes(insert_internal(str, index, data))
InsertRepeated == \E index \in Indices, data \in Runs : Becomes(InsertRun(str, index, data))
AppendText == \E data \in Texts : Becomes(append_internal(str, data))
AppendItself == Becomes(AppendSelf(str))
InsertItself == \E index \in Indices : Becomes(InsertSelf(str, index))
ReplaceItself == \E index, count \in Indices : Becomes(ReplaceSelf(str, index, count))
Set == \E index \in Indices, char \in Bytes : Becomes(SetItem(str, index, char))
Erase == \E index, count \in Indices : Becomes(erase(str, index, count))
Replace == \E index, count \in Indices, data \in Texts : Becomes(replace(str, index, count, data))
AssignText == \E data \in Texts : Becomes(Assign(str, data))
Clear == Becomes(init_from_buffer(<<>>))
ShrinkToFit == Becomes(shrink_to_fit(str))

Next ==
  \/ Insert \/ InsertRepeated \/ InsertItself \/ AppendText \/ AppendItself
  \/ ReplaceItself \/ Set \/ Erase \/ Replace \/ AssignText \/ Clear \/ ShrinkToFit

Spec == Init /\ [][Next]_str

----------------------------------------------------------------------------
\* The text ends, with a Nul, in a buffer of the capacity.
WellFormed(o) ==
  /\ o.size < o.capacity
  /\ DOMAIN o.ptr = 0 .. o.capacity - 1
  /\ o.ptr[o.size] = Nul

TypeOK ==
  /\ str.size \in Nat /\ str.capacity \in Nat
  /\ str.ptr \in [0 .. str.capacity - 1 -> Bytes \cup {Nul, Junk}]

\* What a call should do: data in the place of count bytes from index on.
Spliced(text, index, count, data) ==
  [k \in 1 .. Len(text) - count + Len(data) |->
     IF k <= index THEN text[k]
     ELSE IF k <= index + Len(data) THEN data[k - index]
     ELSE text[k - Len(data) + count]]

Holds(o, text) == WellFormed(o) /\ Text(o) = text

\* Every call makes of every string that calls can make what the same edit makes
\* of a sequence, ended and within its buffer; what lies behind the end is never
\* seen.  A string that is joined to itself is right if its buffer need not grow.
EditsRight ==
  LET text == Text(str)
  IN /\ WellFormed(str)
     /\ Defined(str) =>
          /\ str.capacity > 2 * str.size =>
               \A o \in {AppendSelf(str), InsertSelf(str, str.size), ReplaceSelf(str, str.size, 0)} :
                 Holds(o, text \o text)
          /\ \A index \in Indices, char \in Bytes :
               Holds(SetItem(str, index, char),
                     IF index < str.size THEN Spliced(text, index, 1, <<char>>) ELSE text)
          /\ Holds(shrink_to_fit(str), text)
          /\ \A data \in Texts :
               /\ Holds(append_internal(str, data), Spliced(text, str.size, 0, data))
               /\ Holds(Assign(str, data), data)
               /\ \A index \in Indices :
                    IF index > str.size
                    THEN \A o \in {insert_internal(str, index, data), InsertRun(str, index, data),
                                   erase(str, index, 1), replace(str, index, 1, data)} :
                           Holds(o, text)
                    ELSE \A count \in Indices :
                           LET cut == Least(count, str.size - index)
                           IN /\ Holds(insert_internal(str, index, data), Spliced(text, index, 0, data))
                              /\ Holds(InsertRun(str, index, data), Spliced(text, index, 0, data))
                              /\ Holds(erase(str, index, count), Spliced(text, index, cut, <<>>))
                              /\ Holds(replace(str, index, count, data),
                                       Spliced(text, index, cut, data))

\* a comes before b in a dictionary.
Before(a, b) ==
  \E n \in 0 .. Least(Len(a), Len(b)) :
    /\ \A k \in 1 .. n : a[k] = b[k]
    /\ n < Len(b) /\ (n = Len(a) \/ a[n + 1] < b[n + 1])

\* The text that a string is compared with, searched for or joined with is
\* treated as a sequence is; a search for nothing stops at the end.  Only a
\* string of at most one byte compares with a character as with a text.
QueriesRight ==
  LET text == Text(str)
  IN Defined(str) =>
       /\ \A data \in Texts :
            /\ cmp_lex(text, data) = -1 <=> Before(text, data)
            /\ cmp_lex(text, data) = 1 <=> Before(data, text)
            /\ Holds(plus(str, data), text \o data)
            /\ \A start \in Indices :
                 LET i == find_naive(text, data, start)
                     OccursAt(j) == j + Len(data) <= str.size
                                      /\ \A k \in 1 .. Len(data) : text[j + k] = data[k]
                 IN IF i = -1 THEN ~ \E j \in start .. str.size : OccursAt(j)
                    ELSE OccursAt(i) /\ (i >= start \/ data = <<>>)
                           /\ ~ \E j \in start .. i - 1 : OccursAt(j)
       /\ \A index, count \in Indices :
            LET cut == IF index > str.size THEN 0 ELSE Least(count, str.size - index)
            IN Holds(substr(str, index, count), SubSeq(text, index + 1, index + cut))
       /\ str.size <= 1 => \A char \in Bytes : CompareChar(str, char) = cmp_lex(text, <<char>>)
=============================================================================
