---------------------------- MODULE MyStringProofs ----------------------------
(***************************************************************************)
(* For all strings, indices, counts and arguments: an edit of MyString is  *)
(* the edit of a sequence, and every string that edits make is well        *)
(* formed.                                                                 *)
(***************************************************************************)
EXTENDS MyString, WellFoundedInduction, TLAPS

----------------------------------------------------------------------------
\* Induction.

\* The order of the numbers, as a set of pairs.
Less == {p \in Nat \X Nat : p[1] < p[2]}
LEMMA LessIsWellFounded == IsWellFoundedOn(Less, Nat)
<1>1. Less = OpToRel(<, Nat)
  BY DEF Less, OpToRel
<1>. QED
  BY <1>1, NatLessThanWellFounded

\* A set of numbers has a least one.
LEMMA LeastElement ==
  ASSUME NEW S \in SUBSET Nat, S # {}
  PROVE \E n \in S : \A m \in S : n <= m
<1>1. PICK n \in S : \A m \in S : ~ (<<m, n>> \in Less)
  BY LessIsWellFounded, WFMin
<1>2. \A m \in S : <<m, n>> \in Nat \X Nat /\ <<m, n>>[1] = m /\ <<m, n>>[2] = n
  OBVIOUS
<1>3. \A m \in S : ~ (m < n)
  BY <1>1, <1>2 DEF Less
<1>. QED
  BY <1>3

\* Induction, over a set instead of a property.
LEMMA Induction ==
  ASSUME NEW S, 0 \in S, \A n \in Nat : n \in S => n + 1 \in S
  PROVE  Nat \subseteq S
<1>. SUFFICES ASSUME NEW k \in Nat, k \notin S
              PROVE  FALSE
  OBVIOUS
<1>. DEFINE T == {n \in Nat : n \notin S}
<1>1. PICK n \in T : \A m \in T : n <= m
  BY LeastElement
<1>2. n # 0 /\ n - 1 \in Nat /\ n - 1 + 1 = n
  BY <1>1
<1>3. n - 1 \notin T
  BY <1>1, <1>2
<1>. QED
  BY <1>1, <1>2, <1>3

\* A step can be taken any number of times.
AreIterates(f, A, base, step, n) ==
  f \in [0 .. n -> A] /\ f[0] = base /\ \A k \in 1 .. n : f[k] = step[f[k - 1]]

LEMMA Iterates ==
  ASSUME NEW A, NEW base \in A, NEW step \in [A -> A], NEW n \in Nat
  PROVE  \E f : AreIterates(f, A, base, step, n)
<1>. DEFINE Good(f, m) == f[0] = base /\ \A k \in 1 .. m : f[k] = step[f[k - 1]]
            S == {m \in Nat : \E f \in [0 .. m -> A] : Good(f, m)}
<1>1. 0 \in S
  <2>1. [k \in 0 .. 0 |-> base] \in [0 .. 0 -> A]
    OBVIOUS
  <2>2. Good([k \in 0 .. 0 |-> base], 0)
    OBVIOUS
  <2>. QED
    BY <2>1, <2>2
<1>2. ASSUME NEW m \in Nat, m \in S
      PROVE  m + 1 \in S
  <2>1. PICK f \in [0 .. m -> A] : Good(f, m)
    BY <1>2
  <2>. DEFINE g == [k \in 0 .. m + 1 |-> IF k = m + 1 THEN step[f[m]] ELSE f[k]]
  <2>2. step[f[m]] \in A
    OBVIOUS
  <2>3. g \in [0 .. m + 1 -> A]
    BY <2>2
  <2>4. g[0] = base
    BY <2>1
  <2>5. ASSUME NEW k \in 1 .. m + 1
        PROVE  g[k] = step[g[k - 1]]
    <3>1. k - 1 \in 0 .. m /\ g[k - 1] = f[k - 1]
      OBVIOUS
    <3>2. CASE k = m + 1
      <4>1. k - 1 = m /\ g[k] = step[f[m]]
        BY <3>2
      <4>. HIDE DEF g
      <4>. QED
        BY <3>1, <4>1
    <3>3. CASE k # m + 1
      <4>1. k \in 1 .. m /\ g[k] = f[k]
        BY <3>3
      <4>. HIDE DEF g
      <4>. QED
        BY <2>1, <3>1, <4>1
    <3>. QED
      BY <3>2, <3>3
  <2>. HIDE DEF g
  <2>. QED
    BY <2>3, <2>4, <2>5
<1>3. n \in S
  <2>. HIDE DEF S
  <2>1. Nat \subseteq S
    BY <1>1, <1>2, Induction
  <2>. QED
    BY <2>1
<1>. QED
  BY <1>3 DEF AreIterates

\* What next_capacity_ge defines.
Doubles(doubled, required) ==
  doubled = [capacity \in Nat |-> IF capacity >= required THEN capacity ELSE doubled[2 * capacity]]

\* The loop can be defined from its end.
LEMMA DoublingExists ==
  ASSUME NEW required \in Nat
  PROVE  \E doubled : Doubles(doubled, required)
<1>. DEFINE Step(g, c) == IF c >= required THEN c ELSE g[2 * c]
            S == {m \in Nat : \E g \in [Nat -> Nat] : \A c \in Nat : c + m >= required => g[c] = Step(g, c)}
<1>1. 0 \in S
  <2>. DEFINE g == [c \in Nat |-> c]
  <2>1. g \in [Nat -> Nat] /\ \A c \in Nat : c + 0 >= required => g[c] = Step(g, c)
    OBVIOUS
  <2>. HIDE DEF g
  <2>. QED
    BY <2>1
<1>2. ASSUME NEW m \in Nat, m \in S
      PROVE  m + 1 \in S
  <2>1. PICK g \in [Nat -> Nat] : \A c \in Nat : c + m >= required => g[c] = Step(g, c)
    BY <1>2
  <2>2. CASE required - (m + 1) \notin Nat
    <3>1. \A c \in Nat : c + (m + 1) >= required => c + m >= required
      BY <2>2
    <3>. QED
      BY <2>1, <3>1
  <2>3. CASE required - (m + 1) \in Nat
    <3>. DEFINE first == required - (m + 1)
                h == [g EXCEPT ![first] = IF first = 0 THEN g[0] ELSE g[2 * first]]
    <3>1. h \in [Nat -> Nat] /\ first \in Nat /\ first < required
      BY <2>3
    <3>2. \A c \in Nat : c # first => h[c] = g[c]
      OBVIOUS
    <3>3. h[first] = IF first = 0 THEN g[0] ELSE g[2 * first]
      BY <3>1
    <3>4. ASSUME NEW c \in Nat, c + (m + 1) >= required
          PROVE  h[c] = Step(h, c)
      <4>1. CASE c = first
        <5>1. h[2 * c] = IF c = 0 THEN h[c] ELSE g[2 * c]
          BY <3>1, <3>2, <4>1
        <5>. HIDE DEF h
        <5>. QED
          BY <3>1, <3>3, <4>1, <5>1
      <4>2. CASE c # first
        <5>1. c > first /\ c + m >= required
          BY <3>1, <3>4, <4>2
        <5>2. 2 * c # first /\ 2 * c \in Nat
          BY <3>1, <5>1
        <5>3. h[c] = g[c] /\ h[2 * c] = g[2 * c]
          BY <3>2, <5>1, <5>2
        <5>. HIDE DEF h
        <5>. QED
          BY <2>1, <5>1, <5>3
      <4>. QED
        BY <4>1, <4>2
    <3>. HIDE DEF h, first
    <3>. QED
      BY <3>1, <3>4
  <2>. QED
    BY <2>2, <2>3
<1>3. required \in S
  <2>. HIDE DEF S
  <2>1. Nat \subseteq S
    BY <1>1, <1>2, Induction
  <2>. QED
    BY <2>1
<1>4. PICK g \in [Nat -> Nat] : \A c \in Nat : c + required >= required => g[c] = Step(g, c)
  BY <1>3
<1>5. g = [c \in Nat |-> Step(g, c)]
  BY <1>4
<1>. QED
  BY <1>5 DEF Doubles

\* Doubled often enough, a capacity suffices.
LEMMA DoublingGrows ==
  ASSUME NEW required \in Nat, NEW doubled, Doubles(doubled, required), NEW start \in Nat, start > 0
  PROVE  doubled[start] \in Nat /\ doubled[start] >= required
<1>. DEFINE Good(c) == doubled[c] \in Nat /\ doubled[c] >= required
            S == {m \in Nat : \A c \in Nat : c > 0 /\ c + m >= required => Good(c)}
<1>1. \A c \in Nat : doubled[c] = IF c >= required THEN c ELSE doubled[2 * c]
  BY DEF Doubles
<1>2. 0 \in S
  BY <1>1
<1>3. ASSUME NEW m \in Nat, m \in S
      PROVE  m + 1 \in S
  <2>1. ASSUME NEW c \in Nat, c > 0, c + (m + 1) >= required
        PROVE  Good(c)
    <3>1. CASE c >= required
      BY <1>1, <3>1
    <3>2. CASE ~ (c >= required)
      <4>1. 2 * c \in Nat /\ 2 * c > 0 /\ 2 * c + m >= required
        BY <2>1
      <4>. QED
        BY <1>1, <1>3, <3>2, <4>1
    <3>. QED
      BY <3>1, <3>2
  <2>. QED
    BY <2>1
<1>4. required \in S
  <2>. HIDE DEF S
  <2>1. Nat \subseteq S
    BY <1>2, <1>3, Induction
  <2>. QED
    BY <2>1
<1>. QED
  BY <1>4

LEMMA DoublingSuffices ==
  ASSUME NEW current \in Nat, NEW required \in Nat
  PROVE  /\ next_capacity_ge(current, required) \in Nat
         /\ next_capacity_ge(current, required) >= required
<1>. DEFINE doubled == CHOOSE f : Doubles(f, required)
            start == IF current = 0 THEN 1 ELSE current
<1>1. Doubles(doubled, required)
  BY DoublingExists
<1>2. next_capacity_ge(current, required) = doubled[start]
  BY DEF next_capacity_ge, Doubles
<1>3. start \in Nat /\ start > 0
  OBVIOUS
<1>. HIDE DEF doubled, start
<1>. QED
  BY <1>1, <1>2, <1>3, DoublingGrows

----------------------------------------------------------------------------
Byte == Bytes \cup {Nul, Junk}

IsText(data) == data \in [1 .. Len(data) -> Byte] /\ Len(data) \in Nat

IsBuffer(ptr, capacity) == ptr \in [0 .. capacity - 1 -> Byte]

IsString(o) ==
  /\ o = Object(o.ptr, o.size, o.capacity)
  /\ o.size \in Nat /\ o.capacity \in Nat
  /\ o.ptr \in [0 .. o.capacity - 1 -> Byte]
  /\ WellFormed(o)

\* A text and the string that has it.
Has(o, text) == IsString(o) /\ Text(o) = text

----------------------------------------------------------------------------
\* Sequences are functions.

LEMMA FunctionIsText ==
  ASSUME NEW n \in Nat, NEW data \in [1 .. n -> Byte]
  PROVE  IsText(data) /\ Len(data) = n
<1>1. data \in Seq(Byte)
  OBVIOUS
<1>2. Len(data) \in Nat /\ DOMAIN data = 1 .. Len(data)
  BY <1>1
<1>. QED
  BY <1>2 DEF IsText

LEMMA TextsAreTexts ==
  ASSUME NEW data \in Texts
  PROVE  IsText(data) /\ Len(data) <= MaxArgument
<1>1. PICK n \in 0 .. MaxArgument : data \in [1 .. n -> Bytes]
  BY DEF Texts
<1>2. data \in [1 .. n -> Byte] /\ n \in Nat /\ n <= MaxArgument
  BY <1>1, StringAssumption DEF Byte
<1>. QED
  BY <1>2, FunctionIsText

LEMMA EmptyText == IsText(<<>>) /\ Len(<<>>) = 0
  BY DEF IsText

LEMMA LeastIs ==
  ASSUME NEW m \in Nat, NEW n \in Nat
  PROVE  Least(m, n) \in Nat /\ Least(m, n) <= m /\ Least(m, n) <= n
  BY DEF Least

LEMMA TextOf ==
  ASSUME NEW o, IsString(o)
  PROVE  IsText(Text(o)) /\ Len(Text(o)) = o.size
<1>1. o.size \in Nat /\ o.size < o.capacity /\ o.capacity \in Nat
  BY DEF IsString, WellFormed
<1>2. o.ptr \in [0 .. o.capacity - 1 -> Byte]
  BY DEF IsString
<1>3. \A k \in 1 .. o.size : k - 1 \in 0 .. o.capacity - 1
  BY <1>1
<1>4. Text(o) \in [1 .. o.size -> Byte]
  BY <1>1, <1>2, <1>3 DEF Text
<1>. QED
  BY <1>1, <1>4, FunctionIsText

\* What has to be shown of a string that a helper returns.
LEMMA StringHas ==
  ASSUME NEW capacity \in Nat, NEW size \in Nat, size < capacity,
         NEW ptr \in [0 .. capacity - 1 -> Byte], ptr[size] = Nul,
         NEW text, IsText(text), Len(text) = size,
         \A k \in 1 .. size : text[k] = ptr[k - 1]
  PROVE  Has(Object(ptr, size, capacity), text)
<1>. DEFINE o == Object(ptr, size, capacity)
<1>1. o.ptr = ptr /\ o.size = size /\ o.capacity = capacity
  BY DEF Object
<1>2. IsString(o)
  BY <1>1 DEF IsString, WellFormed, Object
<1>3. text = [k \in 1 .. size |-> ptr[k - 1]]
  BY DEF IsText
<1>4. Text(o) = [k \in 1 .. size |-> ptr[k - 1]]
  BY <1>1 DEF Text
<1>. QED
  BY <1>2, <1>3, <1>4 DEF Has

\* A text that begins a buffer, with Nul behind it.
LEMMA PlacedHas ==
  ASSUME NEW capacity \in Nat, NEW ptr \in [0 .. capacity - 1 -> Byte],
         NEW data, IsText(data), Len(data) < capacity
  PROVE  Has(Object(Placed(ptr, data), Len(data), capacity), data)
<1>1. Len(data) \in Nat /\ data \in [1 .. Len(data) -> Byte]
  BY DEF IsText
<1>2. Nul \in Byte
  BY DEF Byte
<1>. DEFINE copied == Copied(ptr, 0, data)
<1>3. DOMAIN ptr = 0 .. capacity - 1 /\ 0 + Len(data) - 1 = Len(data) - 1
  BY <1>1
<1>4. /\ copied \in [0 .. capacity - 1 -> Byte]
      /\ \A k \in 1 .. Len(data) : copied[k - 1] = data[k]
  BY <1>1, <1>3 DEF Copied
<1>. HIDE DEF copied
<1>5. Placed(ptr, data) = [copied EXCEPT ![Len(data)] = Nul]
  BY DEF Placed, copied
<1>6. Len(data) \in 0 .. capacity - 1
  BY <1>1
<1>7. Placed(ptr, data) \in [0 .. capacity - 1 -> Byte] /\ Placed(ptr, data)[Len(data)] = Nul
  BY <1>2, <1>4, <1>5, <1>6
<1>8. \A k \in 1 .. Len(data) : Placed(ptr, data)[k - 1] = data[k]
  BY <1>1, <1>4, <1>5, <1>6
<1>. QED
  BY <1>1, <1>7, <1>8, StringHas

LEMMA NewBufferIs ==
  ASSUME NEW capacity \in Nat
  PROVE  NewBuffer(capacity) \in [0 .. capacity - 1 -> Byte]
  BY DEF NewBuffer, Byte

LEMMA InitHas ==
  ASSUME NEW data, IsText(data)
  PROVE  Has(init_from_buffer(data), data)
<1>1. Len(data) + 1 \in Nat /\ Len(data) < Len(data) + 1
  BY DEF IsText
<1>2. NewBuffer(Len(data) + 1) \in [0 .. Len(data) + 1 - 1 -> Byte]
  BY <1>1, NewBufferIs
<1>. QED
  BY <1>1, <1>2, PlacedHas DEF init_from_buffer

\* Growing keeps the text and makes room.
LEMMA Grown ==
  ASSUME NEW o, IsString(o), NEW required \in Nat
  PROVE  LET grown == ensure_capacity(o, required)
         IN Has(grown, Text(o)) /\ grown.size = o.size /\ grown.capacity >= required
                                /\ grown.capacity >= o.capacity
<1>1. CASE o.capacity >= required
  BY <1>1 DEF ensure_capacity, Has, IsString
<1>2. CASE ~ (o.capacity >= required)
  <2>. DEFINE capacity == next_capacity_ge(o.capacity, required)
  <2>1. o.capacity \in Nat /\ o.size \in Nat /\ o.size < o.capacity
    BY DEF IsString, WellFormed
  <2>2. capacity \in Nat /\ capacity >= required
    BY <2>1, DoublingSuffices
  <2>3. ensure_capacity(o, required) = Object(Placed(NewBuffer(capacity), Text(o)), o.size, capacity)
    BY <1>2 DEF ensure_capacity
  <2>. HIDE DEF capacity
  <2>4. IsText(Text(o)) /\ Len(Text(o)) = o.size
    BY TextOf
  <2>5. Has(Object(Placed(NewBuffer(capacity), Text(o)), o.size, capacity), Text(o))
    <3>1. NewBuffer(capacity) \in [0 .. capacity - 1 -> Byte]
      BY <2>2, NewBufferIs
    <3>2. Len(Text(o)) < capacity
      BY <1>2, <2>1, <2>2, <2>4
    <3>3. Has(Object(Placed(NewBuffer(capacity), Text(o)), Len(Text(o)), capacity), Text(o))
      BY <2>2, <2>4, <3>1, <3>2, PlacedHas
    <3>. QED
      BY <2>4, <3>3
  <2>. QED
    BY <1>2, <2>1, <2>2, <2>3, <2>5 DEF Object
<1>. QED
  BY <1>1, <1>2

----------------------------------------------------------------------------
\* Edits of sequences.

LEMMA SplicedIs ==
  ASSUME NEW text, IsText(text), NEW data, IsText(data),
         NEW index \in Nat, NEW cut \in Nat, index + cut <= Len(text),
         NEW size \in Nat, size = Len(text) - cut + Len(data)
  PROVE  /\ IsText(Spliced(text, index, cut, data))
         /\ Len(Spliced(text, index, cut, data)) = size
         /\ \A k \in 1 .. size :
              Spliced(text, index, cut, data)[k] =
                IF k <= index THEN text[k]
                ELSE IF k <= index + Len(data) THEN data[k - index]
                ELSE text[k - Len(data) + cut]
<1>. DEFINE Element(k) == IF k <= index THEN text[k]
                          ELSE IF k <= index + Len(data) THEN data[k - index]
                          ELSE text[k - Len(data) + cut]
            spliced == [k \in 1 .. size |-> Element(k)]
<1>1. /\ Len(text) \in Nat /\ text \in [1 .. Len(text) -> Byte]
      /\ Len(data) \in Nat /\ data \in [1 .. Len(data) -> Byte]
  BY DEF IsText
<1>3. \A k \in 1 .. size : Element(k) \in Byte
  BY <1>1
<1>4. spliced \in [1 .. size -> Byte]
  BY <1>3
<1>5. IsText(spliced) /\ Len(spliced) = size
  BY <1>4, FunctionIsText
<1>6. \A k \in 1 .. size : spliced[k] = Element(k)
  OBVIOUS
<1>. QED
  BY <1>5, <1>6 DEF Spliced

\* The first bytes of a buffer are those of an edited text.
BeginsEdited(ptr, size, text, index, cut, data) ==
  /\ \A k \in 0 .. index - 1 : ptr[k] = text[k + 1]
  /\ \A k \in index .. index + Len(data) - 1 : ptr[k] = data[k - index + 1]
  /\ \A k \in index + Len(data) .. size - 1 : ptr[k] = text[k - Len(data) + cut + 1]

\* What has to be shown of the bytes of an edited string.
LEMMA EditedHas ==
  ASSUME NEW text, IsText(text), NEW data, IsText(data),
         NEW index \in Nat, NEW cut \in Nat, index + cut <= Len(text),
         NEW capacity \in Nat, NEW ptr \in [0 .. capacity - 1 -> Byte],
         NEW size \in Nat, size = Len(text) - cut + Len(data), size < capacity,
         ptr[size] = Nul,
         BeginsEdited(ptr, size, text, index, cut, data)
  PROVE  Has(Object(ptr, size, capacity), Spliced(text, index, cut, data))
<1>. DEFINE spliced == Spliced(text, index, cut, data)
<1>1. Len(text) \in Nat /\ Len(data) \in Nat
  BY DEF IsText
<1>2. /\ IsText(spliced) /\ Len(spliced) = size
      /\ \A k \in 1 .. size :
           spliced[k] = IF k <= index THEN text[k]
                        ELSE IF k <= index + Len(data) THEN data[k - index]
                        ELSE text[k - Len(data) + cut]
  BY SplicedIs
<1>. HIDE DEF spliced
<1>. USE DEF BeginsEdited
<1>3. ASSUME NEW k \in 1 .. size
      PROVE  spliced[k] = ptr[k - 1]
  <2>1. CASE k <= index
    <3>1. k - 1 \in 0 .. index - 1 /\ (k - 1) + 1 = k
      BY <2>1
    <3>. QED
      BY <1>2, <2>1, <3>1
  <2>2. CASE ~ (k <= index) /\ k <= index + Len(data)
    <3>1. k - 1 \in index .. index + Len(data) - 1 /\ (k - 1) - index + 1 = k - index
      BY <1>1, <2>2
    <3>. QED
      BY <1>2, <2>2, <3>1
  <2>3. CASE ~ (k <= index) /\ ~ (k <= index + Len(data))
    <3>1. /\ k - 1 \in index + Len(data) .. size - 1
          /\ (k - 1) - Len(data) + cut + 1 = k - Len(data) + cut
      BY <1>1, <2>3
    <3>. QED
      BY <1>2, <2>3, <3>1
  <2>. QED
    BY <2>1, <2>2, <2>3
<1>. QED
  BY <1>2, <1>3, StringHas DEF spliced

\* The same for a string that is ended last.
LEMMA EndedHas ==
  ASSUME NEW text, IsText(text), NEW data, IsText(data),
         NEW index \in Nat, NEW cut \in Nat, index + cut <= Len(text),
         NEW capacity \in Nat, NEW ptr \in [0 .. capacity - 1 -> Byte],
         NEW size \in Nat, size = Len(text) - cut + Len(data), size < capacity,
         BeginsEdited(ptr, size, text, index, cut, data)
  PROVE  Has(Ended(ptr, size, capacity), Spliced(text, index, cut, data))
<1>. DEFINE ended == [ptr EXCEPT ![size] = Nul]
<1>1. Len(text) \in Nat /\ Len(data) \in Nat
  BY DEF IsText
<1>2. Nul \in Byte /\ size \in 0 .. capacity - 1
  BY DEF Byte
<1>3. ended \in [0 .. capacity - 1 -> Byte] /\ ended[size] = Nul
  BY <1>2
<1>4. \A k \in 0 .. size - 1 : ended[k] = ptr[k]
  BY <1>2
<1>. HIDE DEF ended
<1>5. /\ \A k \in 0 .. index - 1 : ended[k] = text[k + 1]
      /\ \A k \in index .. index + Len(data) - 1 : ended[k] = data[k - index + 1]
      /\ \A k \in index + Len(data) .. size - 1 : ended[k] = text[k - Len(data) + cut + 1]
  <2>. USE DEF BeginsEdited
  <2>1. /\ \A k \in 0 .. index - 1 : k \in 0 .. size - 1
        /\ \A k \in index .. index + Len(data) - 1 : k \in 0 .. size - 1
        /\ \A k \in index + Len(data) .. size - 1 : k \in 0 .. size - 1
    BY <1>1
  <2>. QED
    BY <1>4, <2>1
<1>6. Has(Object(ended, size, capacity), Spliced(text, index, cut, data))
  <2>1. BeginsEdited(ended, size, text, index, cut, data)
    BY <1>5 DEF BeginsEdited
  <2>. QED
    BY <1>3, <2>1, EditedHas
<1>. QED
  BY <1>6 DEF Ended, ended

\* The bytes of a string are those of its text.
LEMMA BytesOf ==
  ASSUME NEW o, NEW text, Has(o, text)
  PROVE  /\ IsText(text) /\ Len(text) = o.size /\ o.size \in Nat
         /\ o.capacity \in Nat /\ o.size < o.capacity
         /\ o.ptr \in [0 .. o.capacity - 1 -> Byte] /\ o.ptr[o.size] = Nul
         /\ \A k \in 0 .. o.size - 1 : o.ptr[k] = text[k + 1]
<1>1. /\ o.size \in Nat /\ o.capacity \in Nat /\ o.size < o.capacity
      /\ o.ptr \in [0 .. o.capacity - 1 -> Byte] /\ o.ptr[o.size] = Nul
  BY DEF Has, IsString, WellFormed
<1>2. IsText(text) /\ Len(text) = o.size
  BY TextOf DEF Has
<1>3. text = [k \in 1 .. o.size |-> o.ptr[k - 1]]
  BY DEF Has, Text
<1>4. ASSUME NEW k \in 0 .. o.size - 1
      PROVE  o.ptr[k] = text[k + 1]
  <2>1. k + 1 \in 1 .. o.size /\ (k + 1) - 1 = k
    BY <1>1
  <2>. QED
    BY <1>3, <2>1
<1>. QED
  BY <1>1, <1>2, <1>4

----------------------------------------------------------------------------
\* The helpers on buffers.

AreCopied(ptr, capacity, buf, at, data, len) ==
  /\ IsBuffer(ptr, capacity)
  /\ \A k \in 0 .. at - 1 : ptr[k] = buf[k]
  /\ \A k \in at .. at + len - 1 : ptr[k] = data[k - at + 1]
  /\ \A k \in at + len .. capacity - 1 : ptr[k] = buf[k]

LEMMA CopiedIs ==
  ASSUME NEW capacity \in Nat, NEW buf, IsBuffer(buf, capacity),
         NEW len \in Nat, NEW data, IsText(data), Len(data) = len,
         NEW at \in Nat, at + len <= capacity
  PROVE  AreCopied(Copied(buf, at, data), capacity, buf, at, data, len)
<1>1. data \in [1 .. len -> Byte]
  BY DEF IsText
<1>2. DOMAIN buf = 0 .. capacity - 1
  BY DEF IsBuffer
<1>. QED
  BY <1>1, <1>2 DEF Copied, IsBuffer, AreCopied

AreShiftedRight(ptr, capacity, buf, index, size, len) ==
  /\ IsBuffer(ptr, capacity)
  /\ \A k \in 0 .. capacity - 1 : k < index + len => ptr[k] = buf[k]
  /\ \A k \in index + len .. size + len : ptr[k] = buf[k - len]

LEMMA ShiftedRight ==
  ASSUME NEW capacity \in Nat, NEW buf, IsBuffer(buf, capacity),
         NEW index \in Nat, NEW size \in Nat, NEW len \in Nat, size + len < capacity
  PROVE  AreShiftedRight(shift_right(buf, index, size, len), capacity, buf, index, size, len)
<1>1. DOMAIN buf = 0 .. capacity - 1
  BY DEF IsBuffer
<1>2. \A k \in index + len .. size + len : k \in 0 .. capacity - 1 /\ k - len \in 0 .. capacity - 1
  OBVIOUS
<1>. QED
  BY <1>1, <1>2 DEF shift_right, IsBuffer, AreShiftedRight

AreShiftedLeft(ptr, capacity, buf, index, size, len) ==
  /\ IsBuffer(ptr, capacity)
  /\ \A k \in 0 .. capacity - 1 : k < index => ptr[k] = buf[k]
  /\ \A k \in index .. size : k + len \in 0 .. capacity - 1 => ptr[k] = buf[k + len]

LEMMA ShiftedLeft ==
  ASSUME NEW capacity \in Nat, NEW buf, IsBuffer(buf, capacity),
         NEW index \in Nat, NEW size \in Nat, NEW len \in Nat
  PROVE  AreShiftedLeft(shift_left(buf, index, size, len), capacity, buf, index, size, len)
<1>1. DOMAIN buf = 0 .. capacity - 1
  BY DEF IsBuffer
<1>2. Junk \in Byte
  BY DEF Byte
<1>3. \A k \in 0 .. capacity - 1 : ReadAt(buf, k + len) \in Byte
  BY <1>1, <1>2 DEF ReadAt, IsBuffer
<1>4. \A k \in index .. size : k + len \in 0 .. capacity - 1 =>
        k \in 0 .. capacity - 1 /\ ReadAt(buf, k + len) = buf[k + len]
  BY <1>1 DEF ReadAt
<1>. DEFINE Moved(k) == IF k \in index .. size THEN ReadAt(buf, k + len) ELSE buf[k]
            moved == [k \in 0 .. capacity - 1 |-> Moved(k)]
<1>5. shift_left(buf, index, size, len) = moved
  BY <1>1 DEF shift_left
<1>6. \A k \in 0 .. capacity - 1 : Moved(k) \in Byte
  BY <1>3 DEF IsBuffer
<1>7. moved \in [0 .. capacity - 1 -> Byte]
  BY <1>6
<1>8. \A k \in 0 .. capacity - 1 : k < index => moved[k] = buf[k]
  OBVIOUS
<1>9. \A k \in index .. size : k + len \in 0 .. capacity - 1 => moved[k] = buf[k + len]
  BY <1>4
<1>. QED
  BY <1>5, <1>7, <1>8, <1>9 DEF IsBuffer, AreShiftedLeft

\* Room is made for data: what was at from is behind them.
AreOpened(ptr, capacity, buf, index, data, len, size, more) ==
  /\ IsBuffer(ptr, capacity)
  /\ \A k \in 0 .. index - 1 : ptr[k] = buf[k]
  /\ \A k \in index .. index + len - 1 : ptr[k] = data[k - index + 1]
  /\ \A k \in index + len .. size + more : ptr[k] = buf[k - more]

LEMMA Opened ==
  ASSUME NEW capacity \in Nat, NEW buf, IsBuffer(buf, capacity),
         NEW len \in Nat, NEW data, IsText(data), Len(data) = len,
         NEW index \in Nat, NEW size \in Nat, NEW from \in Nat, index <= from, from <= size,
         NEW more \in Nat, from + more = index + len, size + more < capacity
  PROVE  AreOpened(Copied(shift_right(buf, from, size, more), index, data),
                   capacity, buf, index, data, len, size, more)
<1>. DEFINE shifted == shift_right(buf, from, size, more)
            ptr == Copied(shifted, index, data)
<1>1. AreShiftedRight(shifted, capacity, buf, from, size, more)
  BY ShiftedRight
<1>. HIDE DEF shifted
<1>2. IsBuffer(shifted, capacity) /\ index + len <= capacity
  BY <1>1 DEF AreShiftedRight
<1>3. AreCopied(ptr, capacity, shifted, index, data, len)
  BY <1>2, CopiedIs
<1>. HIDE DEF ptr
<1>4. ASSUME NEW k \in 0 .. index - 1
      PROVE  ptr[k] = buf[k]
  <2>1. k \in 0 .. capacity - 1 /\ k < from + more
    OBVIOUS
  <2>. QED
    BY <1>1, <1>3, <2>1 DEF AreShiftedRight, AreCopied
<1>5. ASSUME NEW k \in index + len .. size + more
      PROVE  ptr[k] = buf[k - more]
  <2>1. k \in index + len .. capacity - 1 /\ k \in from + more .. size + more
    OBVIOUS
  <2>. QED
    BY <1>1, <1>3, <2>1 DEF AreShiftedRight, AreCopied
<1>. QED
  BY <1>3, <1>4, <1>5 DEF ptr, shifted, AreOpened, AreCopied

----------------------------------------------------------------------------
\* The bytes that are moved, as strings.

LEMMA OpenedHas ==
  ASSUME NEW capacity \in Nat, NEW buf, IsBuffer(buf, capacity),
         NEW size \in Nat, size < capacity, buf[size] = Nul,
         NEW text, IsText(text), Len(text) = size,
         \A k \in 0 .. size - 1 : buf[k] = text[k + 1],
         NEW data, IsText(data), NEW len \in Nat, Len(data) = len,
         NEW index \in Nat, NEW cut \in Nat, cut <= len, index + cut <= size,
         NEW more \in Nat, more = len - cut,
         NEW total \in Nat, total = size + more, total < capacity,
         NEW from \in Nat, from = index + cut
  PROVE  LET ptr == Copied(shift_right(buf, from, size, more), index, data)
         IN /\ Has(Object(ptr, total, capacity), Spliced(text, index, cut, data))
            /\ Has(Ended(ptr, total, capacity), Spliced(text, index, cut, data))
<1>. DEFINE ptr == Copied(shift_right(buf, from, size, more), index, data)
<1>1. AreOpened(ptr, capacity, buf, index, data, len, size, more)
  <2>1. index <= from /\ from <= size /\ from + more = index + len /\ size + more < capacity
    OBVIOUS
  <2>. QED
    BY <2>1, Opened
<1>. HIDE DEF ptr
<1>2. ptr \in [0 .. capacity - 1 -> Byte]
  BY <1>1 DEF AreOpened, IsBuffer
<1>3. ptr[total] = Nul
  <2>1. total \in index + len .. size + more /\ total - more = size
    OBVIOUS
  <2>. QED
    BY <1>1, <2>1 DEF AreOpened
<1>4. \A k \in 0 .. index - 1 : ptr[k] = text[k + 1]
  <2>1. \A k \in 0 .. index - 1 : k \in 0 .. size - 1
    OBVIOUS
  <2>. QED
    BY <1>1, <2>1 DEF AreOpened
<1>5. \A k \in index + Len(data) .. total - 1 : ptr[k] = text[k - Len(data) + cut + 1]
  <2>1. \A k \in index + Len(data) .. total - 1 :
          /\ k \in index + len .. size + more /\ k - more \in 0 .. size - 1
          /\ (k - more) + 1 = k - Len(data) + cut + 1
    OBVIOUS
  <2>. QED
    BY <1>1, <2>1 DEF AreOpened
<1>6. \A k \in index .. index + Len(data) - 1 : ptr[k] = data[k - index + 1]
  BY <1>1 DEF AreOpened
<1>7. total = Len(text) - cut + Len(data) /\ index + cut <= Len(text)
  OBVIOUS
<1>8. BeginsEdited(ptr, total, text, index, cut, data)
  BY <1>4, <1>5, <1>6 DEF BeginsEdited
<1>9. Has(Object(ptr, total, capacity), Spliced(text, index, cut, data))
  BY <1>2, <1>3, <1>7, <1>8, EditedHas
<1>10. Has(Ended(ptr, total, capacity), Spliced(text, index, cut, data))
  BY <1>2, <1>7, <1>8, EndedHas
<1>. QED
  BY <1>9, <1>10 DEF ptr

LEMMA ClosedHas ==
  ASSUME NEW capacity \in Nat, NEW old, NEW size \in Nat, size < capacity,
         NEW text, IsText(text), Len(text) = size,
         \A k \in 0 .. size - 1 : old[k] = text[k + 1],
         NEW data, IsText(data), NEW len \in Nat, Len(data) = len,
         NEW index \in Nat, NEW cut \in Nat, len <= cut, index + cut <= size,
         NEW less \in Nat, less = cut - len,
         NEW total \in Nat, total = size - less,
         NEW from \in Nat, from = index + len,
         NEW buf, AreCopied(buf, capacity, old, index, data, len)
  PROVE  Has(Ended(shift_left(buf, from, size, less), total, capacity),
             Spliced(text, index, cut, data))
<1>. DEFINE ptr == shift_left(buf, from, size, less)
<1>1. AreShiftedLeft(ptr, capacity, buf, from, size, less)
  BY ShiftedLeft DEF AreCopied
<1>. HIDE DEF ptr
<1>2. ptr \in [0 .. capacity - 1 -> Byte]
  BY <1>1 DEF IsBuffer, AreShiftedLeft
<1>3. total < capacity /\ total = Len(text) - cut + Len(data) /\ index + cut <= Len(text)
  OBVIOUS
<1>4. \A k \in 0 .. index - 1 : ptr[k] = text[k + 1]
  <2>1. \A k \in 0 .. index - 1 : k \in 0 .. capacity - 1 /\ k < from /\ k \in 0 .. size - 1
    OBVIOUS
  <2>. QED
    BY <1>1, <2>1 DEF AreShiftedLeft, AreCopied
<1>5. \A k \in index .. index + Len(data) - 1 : ptr[k] = data[k - index + 1]
  <2>1. \A k \in index .. index + Len(data) - 1 :
          k \in 0 .. capacity - 1 /\ k < from /\ k \in index .. index + len - 1
    OBVIOUS
  <2>. QED
    BY <1>1, <2>1 DEF AreShiftedLeft, AreCopied
<1>6. \A k \in index + Len(data) .. total - 1 : ptr[k] = text[k - Len(data) + cut + 1]
  <2>1. \A k \in index + Len(data) .. total - 1 :
          /\ k \in from .. size /\ k + less \in 0 .. capacity - 1
          /\ k + less \in 0 .. size - 1 /\ k + less \in index + len .. capacity - 1
          /\ (k + less) + 1 = k - Len(data) + cut + 1
    OBVIOUS
  <2>. QED
    BY <1>1, <2>1 DEF AreShiftedLeft, AreCopied
<1>7. BeginsEdited(ptr, total, text, index, cut, data)
  BY <1>4, <1>5, <1>6 DEF BeginsEdited
<1>. QED
  BY <1>2, <1>3, <1>7, EndedHas DEF ptr
----------------------------------------------------------------------------
\* The methods.

\* Growing, as facts about the bytes.
LEMMA GrownHas ==
  ASSUME NEW o, NEW text, Has(o, text), NEW required \in Nat
  PROVE  LET grown == ensure_capacity(o, required)
         IN /\ Has(grown, text) /\ grown.size = o.size
            /\ grown.capacity >= required /\ grown.capacity >= o.capacity
  BY Grown DEF Has

LEMMA NothingSpliced ==
  ASSUME NEW text, IsText(text), NEW data, IsText(data), Len(data) = 0,
         NEW index \in Nat, index <= Len(text)
  PROVE  Spliced(text, index, 0, data) = text
<1>1. Len(text) \in Nat /\ text \in [1 .. Len(text) -> Byte]
  BY DEF IsText
<1>2. Len(text) - 0 + Len(data) = Len(text)
  BY <1>1
<1>3. \A k \in 1 .. Len(text) : k > index => k - Len(data) + 0 = k
  BY <1>1
<1>. DEFINE Element(k) == IF k <= index THEN text[k]
                          ELSE IF k <= index + Len(data) THEN data[k - index]
                          ELSE text[k - Len(data) + 0]
<1>4. \A k \in 1 .. Len(text) : Element(k) = text[k]
  BY <1>1, <1>3
<1>5. Spliced(text, index, 0, data) = [k \in 1 .. Len(text) |-> Element(k)]
  BY <1>2 DEF Spliced
<1>. HIDE DEF Element
<1>. QED
  BY <1>1, <1>4, <1>5

\* insert puts a text where it is told to.
LEMMA InsertHas ==
  ASSUME NEW o, NEW text, Has(o, text), NEW data, IsText(data),
         NEW index \in Nat, index <= o.size
  PROVE  /\ Has(insert_internal(o, index, data), Spliced(text, index, 0, data))
         /\ Has(InsertRun(o, index, data), Spliced(text, index, 0, data))
<1>1. /\ IsText(text) /\ Len(text) = o.size /\ o.size \in Nat
  BY BytesOf
<1>2. CASE data = <<>>
  <2>1. Spliced(text, index, 0, data) = text
    BY <1>1, <1>2, EmptyText, NothingSpliced
  <2>. QED
    BY <1>2, <2>1 DEF insert_internal, InsertRun
<1>3. CASE data # <<>>
  <2>. DEFINE len == Len(data)
              total == o.size + len
              grown == ensure_capacity(o, total + 1)
              buf == grown.ptr
              capacity == grown.capacity
              ptr == Copied(shift_right(buf, index, o.size, len), index, data)
  <2>1. len \in Nat /\ total \in Nat /\ total + 1 \in Nat
    BY <1>1 DEF IsText
  <2>2. insert_internal(o, index, data) = Object(ptr, total, capacity)
    BY <1>1, <1>3 DEF insert_internal
  <2>3. InsertRun(o, index, data) = Ended(ptr, total, capacity)
    BY <1>1, <1>3 DEF InsertRun
  <2>. HIDE DEF total
  <2>4. Has(grown, text) /\ grown.size = o.size /\ grown.capacity >= total + 1
    BY <2>1, GrownHas
  <2>. HIDE DEF grown
  <2>5. /\ capacity \in Nat /\ IsBuffer(buf, capacity) /\ o.size < capacity /\ buf[o.size] = Nul
        /\ \A k \in 0 .. o.size - 1 : buf[k] = text[k + 1]
    BY <2>4, BytesOf DEF IsBuffer
  <2>6. /\ index + 0 <= o.size /\ 0 <= len /\ len = len - 0 /\ total < capacity
        /\ total = o.size + len /\ index = index + 0 /\ 0 \in Nat
    BY <1>1, <2>1, <2>4, <2>5 DEF total
  <2>. HIDE DEF len, buf, capacity
  <2>7. IsText(data) /\ Len(data) = len
    BY DEF len
  <2>8. /\ Has(Object(ptr, total, capacity), Spliced(text, index, 0, data))
        /\ Has(Ended(ptr, total, capacity), Spliced(text, index, 0, data))
    BY <1>1, <2>1, <2>5, <2>6, <2>7, OpenedHas
  <2>. QED
    BY <2>2, <2>3, <2>8
<1>. QED
  BY <1>2, <1>3

\* append puts a text at the end.
LEMMA AppendHas ==
  ASSUME NEW o, NEW text, Has(o, text), NEW data, IsText(data)
  PROVE  Has(append_internal(o, data), Spliced(text, o.size, 0, data))
<1>. DEFINE size == o.size
<1>1. /\ IsText(text) /\ Len(text) = size /\ size \in Nat
  BY BytesOf
<1>2. CASE data = <<>>
  <2>1. Spliced(text, size, 0, data) = text
    BY <1>1, <1>2, EmptyText, NothingSpliced
  <2>. QED
    BY <1>2, <2>1 DEF append_internal
<1>3. CASE data # <<>>
  <2>. DEFINE len == Len(data)
              total == size + len
              grown == ensure_capacity(o, total + 1)
              buf == grown.ptr
              capacity == grown.capacity
              ptr == Copied(buf, size, data)
  <2>1. len \in Nat /\ total \in Nat /\ total + 1 \in Nat
    BY <1>1 DEF IsText
  <2>2. append_internal(o, data) = Ended(ptr, total, capacity)
    BY <1>3 DEF append_internal
  <2>. HIDE DEF total
  <2>4. Has(grown, text) /\ grown.size = size /\ grown.capacity >= total + 1
    BY <2>1, GrownHas
  <2>. HIDE DEF grown
  <2>5. /\ capacity \in Nat /\ IsBuffer(buf, capacity)
        /\ \A k \in 0 .. size - 1 : buf[k] = text[k + 1]
    BY <2>4, BytesOf DEF IsBuffer
  <2>6. size + len <= capacity /\ total < capacity /\ total = size + len
    BY <1>1, <2>1, <2>4, <2>5 DEF total
  <2>. HIDE DEF len, buf, capacity, size
  <2>7. IsText(data) /\ Len(data) = len
    BY DEF len
  <2>8. AreCopied(ptr, capacity, buf, size, data, len)
    BY <1>1, <2>1, <2>5, <2>6, <2>7, CopiedIs
  <2>. HIDE DEF ptr
  <2>9. BeginsEdited(ptr, total, text, size, 0, data)
    <3>1. \A k \in 0 .. size - 1 : ptr[k] = text[k + 1]
      BY <2>5, <2>8 DEF AreCopied
    <3>2. \A k \in size .. size + Len(data) - 1 : ptr[k] = data[k - size + 1]
      BY <2>7, <2>8 DEF AreCopied
    <3>3. ~ \E k \in size + Len(data) .. total - 1 : TRUE
      BY <1>1, <2>1, <2>6, <2>7
    <3>. QED
      BY <3>1, <3>2, <3>3 DEF BeginsEdited
  <2>10. size + 0 <= Len(text) /\ total = Len(text) - 0 + Len(data) /\ 0 \in Nat
    BY <1>1, <2>1, <2>6, <2>7
  <2>11. ptr \in [0 .. capacity - 1 -> Byte]
    BY <2>8 DEF AreCopied, IsBuffer
  <2>12. Has(Ended(ptr, total, capacity), Spliced(text, size, 0, data))
    BY <1>1, <2>1, <2>5, <2>6, <2>9, <2>10, <2>11, EndedHas
  <2>. QED
    BY <2>2, <2>12 DEF size
<1>. QED
  BY <1>2, <1>3
\* erase takes at most the bytes that there are.
LEMMA EraseHas ==
  ASSUME NEW o, NEW text, Has(o, text), NEW index \in Nat, index <= o.size, NEW count \in Nat,
         NEW cut, cut = Least(count, o.size - index)
  PROVE  Has(erase(o, index, count), Spliced(text, index, cut, <<>>))
<1>. DEFINE size == o.size
            capacity == o.capacity
            buf == o.ptr
<1>1. /\ IsText(text) /\ Len(text) = size /\ size \in Nat /\ capacity \in Nat /\ size < capacity
      /\ IsBuffer(buf, capacity) /\ \A k \in 0 .. size - 1 : buf[k] = text[k + 1]
  BY BytesOf DEF IsBuffer
<1>2. cut \in Nat /\ cut <= size - index /\ size - index \in Nat
  <2>1. size - index \in Nat
    BY <1>1
  <2>. QED
    BY <2>1, LeastIs
<1>3. CASE index >= size \/ count = 0
  <2>1. cut = 0
    BY <1>1, <1>2, <1>3 DEF Least
  <2>2. Spliced(text, index, 0, <<>>) = text
    BY <1>1, EmptyText, NothingSpliced
  <2>. QED
    BY <1>3, <2>1, <2>2 DEF erase
<1>4. CASE ~ (index >= size \/ count = 0)
  <2>. DEFINE total == size - cut
              ptr == shift_left(buf, index, size, cut)
  <2>1. erase(o, index, count) = Ended(ptr, total, capacity)
    BY <1>4 DEF erase
  <2>. HIDE DEF size, capacity, buf
  <2>2. AreCopied(buf, capacity, buf, index, <<>>, 0)
    BY <1>1, <1>2 DEF AreCopied
  <2>3. /\ 0 \in Nat /\ 0 <= cut /\ index + cut <= size /\ cut = cut - 0
        /\ total \in Nat /\ total = size - cut /\ index = index + 0
    BY <1>1, <1>2
  <2>. HIDE DEF total
  <2>. DEFINE none == <<>>
  <2>4. IsText(none) /\ Len(none) = 0
    BY EmptyText
  <2>5. AreCopied(buf, capacity, buf, index, none, 0)
    BY <2>2
  <2>. HIDE DEF none
  <2>6. Has(Ended(ptr, total, capacity), Spliced(text, index, cut, none))
    BY <1>1, <1>2, <2>3, <2>4, <2>5, ClosedHas
  <2>. QED
    BY <2>1, <2>6 DEF none
<1>. QED
  BY <1>3, <1>4

\* replace puts a text in the place of at most the bytes that there are.
LEMMA ReplaceInternalHas ==
  ASSUME NEW o, NEW text, Has(o, text), NEW data, IsText(data),
         NEW index \in Nat, index <= o.size, NEW count \in Nat,
         NEW cut, cut = Least(count, o.size - index)
  PROVE  Has(replace_internal(o, index, count, data), Spliced(text, index, cut, data))
<1>. DEFINE size == o.size
            capacity == o.capacity
            buf == o.ptr
            len == Len(data)
            total == size + len - cut
            copied == Copied(buf, index, data)
<1>1. /\ IsText(text) /\ Len(text) = size /\ size \in Nat /\ capacity \in Nat /\ size < capacity
      /\ IsBuffer(buf, capacity) /\ buf[size] = Nul
      /\ \A k \in 0 .. size - 1 : buf[k] = text[k + 1]
  BY BytesOf DEF IsBuffer
<1>2. cut \in Nat /\ index + cut <= size /\ len \in Nat /\ total \in Nat
  <2>1. size - index \in Nat
    BY <1>1
  <2>2. cut \in Nat /\ cut <= size - index
    BY <2>1, LeastIs
  <2>. QED
    BY <1>1, <2>2 DEF IsText
<1>3. CASE len = cut
  <2>1. replace_internal(o, index, count, data) = Object(copied, size, capacity)
    BY <1>1, <1>3 DEF replace_internal
  <2>. HIDE DEF size, capacity, buf
  <2>2. IsText(data) /\ Len(data) = len /\ index + len <= capacity
    BY <1>1, <1>2, <1>3
  <2>. HIDE DEF len
  <2>3. AreCopied(copied, capacity, buf, index, data, len)
    BY <1>1, <1>2, <2>2, CopiedIs
  <2>. HIDE DEF copied
  <2>4. copied \in [0 .. capacity - 1 -> Byte]
    BY <2>3 DEF AreCopied, IsBuffer
  <2>5. copied[size] = Nul
    <3>1. size \in index + len .. capacity - 1
      BY <1>1, <1>2, <1>3
    <3>. QED
      BY <1>1, <2>3, <3>1 DEF AreCopied
  <2>6. BeginsEdited(copied, size, text, index, cut, data)
    <3>1. \A k \in 0 .. index - 1 : copied[k] = text[k + 1]
      <4>1. \A k \in 0 .. index - 1 : k \in 0 .. size - 1
        BY <1>1, <1>2
      <4>. QED
        BY <1>1, <2>3, <4>1 DEF AreCopied
    <3>2. \A k \in index .. index + Len(data) - 1 : copied[k] = data[k - index + 1]
      BY <2>2, <2>3 DEF AreCopied
    <3>3. \A k \in index + Len(data) .. size - 1 : copied[k] = text[k - Len(data) + cut + 1]
      <4>1. Len(data) = cut /\ len = cut /\ size \in Nat /\ capacity \in Nat /\ size < capacity
        BY <1>1, <1>3, <2>2
      <4>2. \A k \in index + cut .. size - 1 :
              k \in index + cut .. capacity - 1 /\ k \in 0 .. size - 1 /\ k - cut + cut + 1 = k + 1
        <5>1. \A m, c \in Nat : \A k \in m .. size - 1 :
                k \in m .. capacity - 1 /\ k \in 0 .. size - 1 /\ k - c + c + 1 = k + 1
          BY <4>1
        <5>2. index + cut \in Nat
          BY <1>2
        <5>. QED
          BY <1>2, <5>1, <5>2
      <4>3. \A k \in index + Len(data) .. size - 1 :
              /\ k \in index + len .. capacity - 1 /\ k \in 0 .. size - 1
              /\ k - Len(data) + cut + 1 = k + 1
        BY <4>1, <4>2
      <4>. QED
        BY <1>1, <2>3, <4>3 DEF AreCopied
    <3>. QED
      BY <3>1, <3>2, <3>3 DEF BeginsEdited
  <2>7. size = Len(text) - cut + Len(data) /\ index + cut <= Len(text)
    BY <1>1, <1>2, <1>3, <2>2
  <2>8. Has(Object(copied, size, capacity), Spliced(text, index, cut, data))
    BY <1>1, <1>2, <2>4, <2>5, <2>6, <2>7, EditedHas
  <2>. QED
    BY <2>1, <2>8
<1>4. CASE len > cut
  <2>. DEFINE grown == ensure_capacity(o, total + 1)
              newbuf == grown.ptr
              room == grown.capacity
              from == index + cut
              more == len - cut
              ptr == Copied(shift_right(newbuf, from, size, more), index, data)
  <2>1. replace_internal(o, index, count, data) = Ended(ptr, total, room)
    <3>1. ~ (index > size) /\ len # cut
      BY <1>1, <1>2, <1>4
    <3>. QED
      BY <1>4, <3>1 DEF replace_internal
  <2>2. Has(grown, text) /\ grown.size = size /\ grown.capacity >= total + 1
    <3>1. total + 1 \in Nat
      BY <1>2
    <3>. HIDE DEF total
    <3>. QED
      BY <3>1, GrownHas
  <2>. HIDE DEF grown
  <2>3. /\ room \in Nat /\ IsBuffer(newbuf, room) /\ size < room /\ newbuf[size] = Nul
        /\ \A k \in 0 .. size - 1 : newbuf[k] = text[k + 1]
    BY <2>2, BytesOf DEF IsBuffer
  <2>. HIDE DEF size, newbuf, room
  <2>4. IsText(data) /\ Len(data) = len
    OBVIOUS
  <2>. HIDE DEF len
  <2>5. /\ cut <= len /\ more \in Nat /\ more = len - cut /\ total = size + more /\ total < room
        /\ from \in Nat /\ from = index + cut
    <3>1. room >= total + 1
      BY <2>2 DEF room
    <3>2. size \in Nat /\ room \in Nat
      BY <1>1, <2>3
    <3>. QED
      BY <1>2, <1>4, <3>1, <3>2
  <2>. HIDE DEF total, more, from
  <2>6. Has(Ended(ptr, total, room), Spliced(text, index, cut, data))
    BY <1>1, <1>2, <2>3, <2>4, <2>5, OpenedHas
  <2>. QED
    BY <2>1, <2>6
<1>5. CASE len < cut
  <2>. DEFINE from == index + len
              less == cut - len
              ptr == shift_left(copied, from, size, less)
  <2>1. replace_internal(o, index, count, data) = Ended(ptr, total, capacity)
    <3>1. ~ (index > size) /\ len # cut /\ ~ (len > cut)
      BY <1>1, <1>2, <1>5
    <3>. QED
      BY <3>1 DEF replace_internal
  <2>. HIDE DEF size, capacity, buf
  <2>2. IsText(data) /\ Len(data) = len /\ index + len <= capacity
    BY <1>1, <1>2, <1>5
  <2>. HIDE DEF len
  <2>3. AreCopied(copied, capacity, buf, index, data, len)
    BY <1>1, <1>2, <2>2, CopiedIs
  <2>. HIDE DEF copied
  <2>4. /\ len <= cut /\ less \in Nat /\ less = cut - len /\ total = size - less
        /\ from \in Nat /\ from = index + len
    BY <1>1, <1>2, <1>5
  <2>. HIDE DEF total, less, from
  <2>5. Has(Ended(ptr, total, capacity), Spliced(text, index, cut, data))
    BY <1>1, <1>2, <2>2, <2>3, <2>4, ClosedHas
  <2>. QED
    BY <2>1, <2>5
<1>. QED
  BY <1>2, <1>3, <1>4, <1>5

LEMMA ReplaceHas ==
  ASSUME NEW o, NEW text, Has(o, text), NEW data, IsText(data),
         NEW index \in Nat, index <= o.size, NEW count \in Nat,
         NEW cut, cut = Least(count, o.size - index)
  PROVE  Has(replace(o, index, count, data), Spliced(text, index, cut, data))
<1>1. CASE data = <<>>
  BY <1>1, EraseHas DEF replace
<1>2. CASE data # <<>>
  BY <1>2, ReplaceInternalHas DEF replace
<1>. QED
  BY <1>1, <1>2
\* operator= takes the new text, in the old buffer if it has room.
LEMMA AssignHas ==
  ASSUME NEW o, IsString(o), NEW data, IsText(data)
  PROVE  Has(Assign(o, data), data)
<1>1. CASE Len(data) + 1 > o.capacity
  BY <1>1, InitHas DEF Assign
<1>2. CASE ~ (Len(data) + 1 > o.capacity)
  <2>. DEFINE capacity == o.capacity
  <2>1. Len(data) \in Nat /\ capacity \in Nat /\ o.ptr \in [0 .. capacity - 1 -> Byte]
    BY DEF IsText, IsString
  <2>2. Len(data) < capacity
    BY <1>2, <2>1
  <2>3. Assign(o, data) = Object(Placed(o.ptr, data), Len(data), capacity)
    BY <1>2 DEF Assign
  <2>. HIDE DEF capacity
  <2>. QED
    BY <2>1, <2>2, <2>3, PlacedHas
<1>. QED
  BY <1>1, <1>2

\* s[index] = char changes one byte of the text and nothing behind it.
LEMMA SetHas ==
  ASSUME NEW o, NEW text, Has(o, text), NEW index \in Nat, index < o.size, NEW char \in Byte
  PROVE  Has(SetItem(o, index, char), Spliced(text, index, 1, <<char>>))
<1>. DEFINE size == o.size
            capacity == o.capacity
            buf == o.ptr
            data == <<char>>
            ptr == [buf EXCEPT ![index] = char]
<1>1. /\ IsText(text) /\ Len(text) = size /\ size \in Nat /\ capacity \in Nat /\ size < capacity
      /\ buf \in [0 .. capacity - 1 -> Byte] /\ buf[size] = Nul
      /\ \A k \in 0 .. size - 1 : buf[k] = text[k + 1]
  BY BytesOf
<1>2. IsText(data) /\ Len(data) = 1 /\ data[1] = char
  BY DEF IsText
<1>3. SetItem(o, index, char) = Object(ptr, size, capacity)
  BY <1>1 DEF SetItem
<1>4. index < size
  OBVIOUS
<1>. HIDE DEF size, capacity, buf, data
<1>5. ptr \in [0 .. capacity - 1 -> Byte]
  BY <1>1
<1>6. ptr[size] = Nul
  <2>1. size \in 0 .. capacity - 1 /\ size # index
    BY <1>1, <1>4
  <2>. QED
    BY <1>1, <2>1
<1>7. BeginsEdited(ptr, size, text, index, 1, data)
  <2>1. \A k \in 0 .. index - 1 : k \in 0 .. capacity - 1 /\ k # index /\ k \in 0 .. size - 1
    BY <1>1, <1>4
  <2>2. \A k \in 0 .. index - 1 : ptr[k] = text[k + 1]
    BY <1>1, <2>1
  <2>3. index \in 0 .. capacity - 1
    BY <1>1, <1>4
  <2>4. \A k \in index .. index + 1 - 1 : k = index /\ k - index + 1 = 1
    OBVIOUS
  <2>5. \A k \in index .. index + 1 - 1 : ptr[k] = data[k - index + 1]
    BY <1>1, <1>2, <2>3, <2>4
  <2>6. \A k \in index + 1 .. size - 1 :
          k \in 0 .. capacity - 1 /\ k # index /\ k \in 0 .. size - 1 /\ k - 1 + 1 + 1 = k + 1
    BY <1>1
  <2>7. \A k \in index + 1 .. size - 1 : ptr[k] = text[k - 1 + 1 + 1]
    BY <1>1, <2>6
  <2>. HIDE DEF ptr
  <2>. QED
    BY <1>2, <2>2, <2>5, <2>7 DEF BeginsEdited
<1>. HIDE DEF ptr
<1>8. size = Len(text) - 1 + Len(data) /\ index + 1 <= Len(text) /\ 1 \in Nat
  BY <1>1, <1>2, <1>4
<1>9. Has(Object(ptr, size, capacity), Spliced(text, index, 1, data))
  BY <1>1, <1>2, <1>5, <1>6, <1>7, <1>8, EditedHas
<1>. QED
  BY <1>3, <1>9 DEF data

\* shrink_to_fit keeps the text.
LEMMA ShrinkHas ==
  ASSUME NEW o, IsString(o)
  PROVE  Has(shrink_to_fit(o), Text(o))
<1>1. Has(o, Text(o)) /\ IsText(Text(o))
  BY TextOf DEF Has
<1>. QED
  BY <1>1, InitHas DEF shrink_to_fit

\* What is joined to a text stands behind it.
LEMMA JoinedIs ==
  ASSUME NEW text, IsText(text), NEW data, IsText(data)
  PROVE  Spliced(text, Len(text), 0, data) = text \o data
<1>1. /\ Len(text) \in Nat /\ text \in [1 .. Len(text) -> Byte]
      /\ Len(data) \in Nat /\ data \in [1 .. Len(data) -> Byte]
  BY DEF IsText
<1>2. text \in Seq(Byte) /\ data \in Seq(Byte)
  BY <1>1
<1>. DEFINE total == Len(text) + Len(data)
            Element(k) == IF k <= Len(text) THEN text[k]
                          ELSE IF k <= Len(text) + Len(data) THEN data[k - Len(text)]
                          ELSE text[k - Len(data) + 0]
<1>3. total \in Nat /\ Len(text) - 0 + Len(data) = total
  BY <1>1
<1>4. Spliced(text, Len(text), 0, data) = [k \in 1 .. total |-> Element(k)]
  BY <1>3 DEF Spliced
<1>5. text \o data \in Seq(Byte) /\ Len(text \o data) = total
  BY <1>2
<1>6. text \o data \in [1 .. total -> Byte]
  <2>. DEFINE joined == text \o data
  <2>1. joined \in Seq(Byte) /\ Len(joined) = total
    BY <1>5
  <2>. HIDE DEF joined, total
  <2>2. joined \in [1 .. Len(joined) -> Byte]
    BY <2>1
  <2>. QED
    BY <2>1, <2>2 DEF joined
<1>7. \A k \in 1 .. total : (text \o data)[k] = Element(k)
  BY <1>1, <1>2
<1>. HIDE DEF Element, total
<1>. QED
  BY <1>4, <1>6, <1>7
----------------------------------------------------------------------------
\* The string as its own argument.

LEMMA ItselfIs ==
  ASSUME NEW o, IsString(o), NEW index, NEW required
  PROVE  IsText(Itself(o, index, required))
<1>1. o.size \in Nat
  BY DEF IsString
<1>2. [k \in 1 .. o.size |-> Junk] \in [1 .. o.size -> Byte]
  BY DEF Byte
<1>3. IsText([k \in 1 .. o.size |-> Junk])
  BY <1>1, <1>2, FunctionIsText
<1>. QED
  BY <1>3, TextOf DEF Itself

\* A string that need not grow is joined to itself at its end.
LEMMA SelfHas ==
  ASSUME NEW o, NEW text, Has(o, text), o.capacity > 2 * o.size
  PROVE  /\ Has(AppendSelf(o), text \o text)
         /\ Has(InsertSelf(o, o.size), text \o text)
         /\ Has(ReplaceSelf(o, o.size, 0), text \o text)
<1>. DEFINE size == o.size
            required == 2 * size + 1
<1>1. IsText(text) /\ Len(text) = size /\ size \in Nat /\ o.capacity \in Nat /\ text = Text(o)
  BY BytesOf DEF Has
<1>2. Itself(o, size, required) = text
  BY <1>1 DEF Itself
<1>3. Spliced(text, size, 0, text) = text \o text
  BY <1>1, JoinedIs
<1>4. Has(AppendSelf(o), text \o text)
  BY <1>1, <1>2, <1>3, AppendHas DEF AppendSelf
<1>5. Has(InsertSelf(o, size), text \o text)
  <2>1. size \in Nat /\ size <= o.size
    BY <1>1
  <2>. QED
    BY <1>1, <1>2, <1>3, <2>1, InsertHas DEF InsertSelf
<1>6. Has(ReplaceSelf(o, size, 0), text \o text)
  <2>1. Least(0, size - size) = 0
    BY <1>1 DEF Least
  <2>2. CASE size = 0
    <3>1. text = <<>>
      BY <1>1, <2>2 DEF IsText
    <3>2. text \o text = text
      BY <3>1
    <3>3. ReplaceSelf(o, size, 0) = o
      BY <2>2 DEF ReplaceSelf
    <3>. QED
      BY <3>2, <3>3
  <2>3. CASE size # 0
    <3>1. required - 0 = required
      BY <1>1
    <3>2. ReplaceSelf(o, size, 0) = replace_internal(o, size, 0, text)
      BY <1>1, <1>2, <2>1, <2>3, <3>1 DEF ReplaceSelf
    <3>3. Has(replace_internal(o, size, 0, text), Spliced(text, size, 0, text))
      BY <1>1, <2>1, ReplaceInternalHas
    <3>. QED
      BY <1>3, <3>2, <3>3
  <2>. QED
    BY <2>2, <2>3
<1>. QED
  BY <1>4, <1>5, <1>6

\* An index behind the end changes no text.
LEMMA RefusedHas ==
  ASSUME NEW o, NEW text, Has(o, text), NEW data, IsText(data),
         NEW index \in Nat, index > o.size, NEW count \in Nat
  PROVE  /\ Has(insert_internal(o, index, data), text)
         /\ Has(InsertRun(o, index, data), text)
         /\ Has(erase(o, index, count), text)
         /\ Has(replace_internal(o, index, count, data), text)
         /\ Has(replace(o, index, count, data), text)
<1>1. o.size \in Nat /\ Len(data) \in Nat
  BY BytesOf DEF IsText
<1>2. insert_internal(o, index, data) = o
  BY DEF insert_internal
<1>3. erase(o, index, count) = o
  BY <1>1 DEF erase
<1>4. replace_internal(o, index, count, data) = o
  BY DEF replace_internal
<1>5. replace(o, index, count, data) = o
  BY <1>3, <1>4 DEF replace
<1>6. Has(InsertRun(o, index, data), text)
  <2>1. o.size + Len(data) + 1 \in Nat
    BY <1>1
  <2>2. Has(ensure_capacity(o, o.size + Len(data) + 1), text)
    BY <2>1, GrownHas
  <2>3. InsertRun(o, index, data) \in {o, ensure_capacity(o, o.size + Len(data) + 1)}
    BY DEF InsertRun
  <2>. QED
    BY <2>2, <2>3
<1>. QED
  BY <1>2, <1>3, <1>4, <1>5, <1>6
----------------------------------------------------------------------------
\* The specification.

LEMMA IndicesAreNat == Indices \subseteq Nat /\ Indices # {}
  BY StringAssumption DEF Indices

LEMMA RunsAreTexts ==
  ASSUME NEW data \in Runs
  PROVE  data \in Texts
  BY DEF Runs

\* The inductive invariant: what an edit makes of a string is a string.
LEMMA InitString == Init => IsString(str)
<1>. SUFFICES ASSUME NEW data \in Texts, str = init_from_buffer(data)
              PROVE  IsString(str)
  BY DEF Init
<1>. QED
  BY TextsAreTexts, InitHas DEF Has

LEMMA EditIsString ==
  ASSUME NEW o, IsString(o), NEW data, IsText(data),
         NEW index \in Nat, NEW count \in Nat
  PROVE  /\ IsString(insert_internal(o, index, data))
         /\ IsString(InsertRun(o, index, data))
         /\ IsString(erase(o, index, count))
         /\ IsString(replace_internal(o, index, count, data))
         /\ IsString(replace(o, index, count, data))
<1>1. Has(o, Text(o)) /\ o.size \in Nat
  BY DEF Has, IsString
<1>2. CASE index > o.size
  BY <1>1, <1>2, RefusedHas DEF Has
<1>3. CASE index <= o.size
  <2>. DEFINE cut == Least(count, o.size - index)
  <2>1. /\ Has(insert_internal(o, index, data), Spliced(Text(o), index, 0, data))
        /\ Has(InsertRun(o, index, data), Spliced(Text(o), index, 0, data))
    BY <1>1, <1>3, InsertHas
  <2>2. Has(erase(o, index, count), Spliced(Text(o), index, cut, <<>>))
    BY <1>1, <1>3, EraseHas
  <2>3. Has(replace_internal(o, index, count, data), Spliced(Text(o), index, cut, data))
    BY <1>1, <1>3, ReplaceInternalHas
  <2>4. Has(replace(o, index, count, data), Spliced(Text(o), index, cut, data))
    BY <1>1, <1>3, ReplaceHas
  <2>. QED
    BY <2>1, <2>2, <2>3, <2>4 DEF Has
<1>. QED
  BY <1>1, <1>2, <1>3

LEMMA NextString == IsString(str) /\ [Next]_str => IsString(str')
<1>. SUFFICES ASSUME IsString(str), [Next]_str
              PROVE  IsString(str')
  OBVIOUS
<1>1. CASE Insert
  <2>1. PICK index \in Indices, data \in Texts : str' = insert_internal(str, index, data)
    BY <1>1 DEF Insert, Becomes
  <2>. QED
    BY <2>1, IndicesAreNat, TextsAreTexts, EditIsString
<1>2. CASE InsertRepeated
  <2>1. PICK index \in Indices, data \in Runs : str' = InsertRun(str, index, data)
    BY <1>2 DEF InsertRepeated, Becomes
  <2>. QED
    BY <2>1, IndicesAreNat, RunsAreTexts, TextsAreTexts, EditIsString
<1>3. CASE InsertItself
  <2>1. PICK index \in Indices : str' = InsertSelf(str, index)
    BY <1>3 DEF InsertItself, Becomes
  <2>2. IsText(Itself(str, index, 2 * str.size + 1))
    BY ItselfIs
  <2>. QED
    BY <2>1, <2>2, IndicesAreNat, EditIsString DEF InsertSelf
<1>4. CASE AppendText
  <2>1. PICK data \in Texts : str' = append_internal(str, data)
    BY <1>4 DEF AppendText, Becomes
  <2>. QED
    BY <2>1, TextsAreTexts, AppendHas DEF Has
<1>5. CASE AppendItself
  <2>1. str' = append_internal(str, Itself(str, str.size, 2 * str.size + 1))
    BY <1>5 DEF AppendItself, AppendSelf, Becomes
  <2>2. IsText(Itself(str, str.size, 2 * str.size + 1))
    BY ItselfIs
  <2>. QED
    BY <2>1, <2>2, AppendHas DEF Has
<1>6. CASE ReplaceItself
  <2>1. PICK index \in Indices, count \in Indices : str' = ReplaceSelf(str, index, count)
    BY <1>6 DEF ReplaceItself, Becomes
  <2>. DEFINE data == Itself(str, index, 2 * str.size + 1 - Least(count, str.size - index))
  <2>2. str' = str \/ str' = replace_internal(str, index, count, data)
    BY <2>1 DEF ReplaceSelf
  <2>3. IsText(data)
    BY ItselfIs
  <2>. HIDE DEF data
  <2>. QED
    BY <2>2, <2>3, IndicesAreNat, EditIsString
<1>7. CASE Set
  <2>1. PICK index \in Indices, char \in Bytes : str' = SetItem(str, index, char)
    BY <1>7 DEF Set, Becomes
  <2>2. CASE index >= str.size
    BY <2>1, <2>2 DEF SetItem
  <2>3. CASE ~ (index >= str.size)
    <3>1. index \in Nat /\ str.size \in Nat /\ index < str.size /\ char \in Byte
      BY <2>3, IndicesAreNat DEF IsString, Byte
    <3>2. Has(SetItem(str, index, char), Spliced(Text(str), index, 1, <<char>>))
      BY <3>1, SetHas DEF Has
    <3>. QED
      BY <2>1, <3>2 DEF Has
  <2>. QED
    BY <2>2, <2>3
<1>8. CASE Erase
  <2>1. PICK index \in Indices, count \in Indices : str' = erase(str, index, count)
    BY <1>8 DEF Erase, Becomes
  <2>. QED
    BY <2>1, IndicesAreNat, EmptyText, EditIsString
<1>9. CASE Replace
  <2>1. PICK index \in Indices, count \in Indices, data \in Texts :
          str' = replace(str, index, count, data)
    BY <1>9 DEF Replace, Becomes
  <2>. QED
    BY <2>1, IndicesAreNat, TextsAreTexts, EditIsString
<1>10. CASE AssignText
  <2>1. PICK data \in Texts : str' = Assign(str, data)
    BY <1>10 DEF AssignText, Becomes
  <2>. QED
    BY <2>1, TextsAreTexts, AssignHas DEF Has
<1>11. CASE Clear
  BY <1>11, EmptyText, InitHas DEF Clear, Becomes, Has
<1>12. CASE ShrinkToFit
  BY <1>12, ShrinkHas DEF ShrinkToFit, Becomes, Has
<1>13. CASE UNCHANGED str
  BY <1>13
<1>. QED
  BY <1>1, <1>2, <1>3, <1>4, <1>5, <1>6, <1>7, <1>8, <1>9, <1>10, <1>11, <1>12, <1>13 DEF Next

\* Every string that calls can make has its end mark within its buffer, whatever
\* the arguments of the calls are and however many there are.
THEOREM StringsWellFormed == Spec => []IsString(str)
<1>1. Init => IsString(str)
  BY InitString
<1>2. IsString(str) /\ [Next]_str => IsString(str)'
  BY NextString
<1>. QED
  BY <1>1, <1>2, PTL DEF Spec

LEMMA HasHolds ==
  ASSUME NEW o, NEW text, Has(o, text)
  PROVE  Holds(o, text)
  BY DEF Has, Holds, IsString

LEMMA EditsOfStrings == IsString(str) => EditsRight
<1>. SUFFICES ASSUME IsString(str)
              PROVE  EditsRight
  OBVIOUS
<1>. DEFINE text == Text(str)
<1>1. Has(str, text) /\ IsText(text) /\ Len(text) = str.size /\ str.size \in Nat
  BY TextOf DEF Has, IsString
<1>2. WellFormed(str)
  BY DEF IsString
<1>3. ASSUME str.capacity > 2 * str.size,
             NEW o \in {AppendSelf(str), InsertSelf(str, str.size), ReplaceSelf(str, str.size, 0)}
      PROVE  Holds(o, text \o text)
  BY <1>1, <1>3, SelfHas, HasHolds
<1>4. ASSUME NEW index \in Indices, NEW char \in Bytes
      PROVE  Holds(SetItem(str, index, char),
                   IF index < str.size THEN Spliced(text, index, 1, <<char>>) ELSE text)
  <2>1. index \in Nat /\ char \in Byte
    BY IndicesAreNat DEF Byte
  <2>2. CASE index < str.size
    BY <1>1, <2>1, <2>2, SetHas, HasHolds
  <2>3. CASE ~ (index < str.size)
    <3>1. SetItem(str, index, char) = str
      BY <1>1, <2>1, <2>3 DEF SetItem
    <3>. QED
      BY <1>1, <2>3, <3>1, HasHolds
  <2>. QED
    BY <2>2, <2>3
<1>5. Holds(shrink_to_fit(str), text)
  BY ShrinkHas, HasHolds
<1>6. ASSUME NEW data \in Texts
      PROVE  Holds(append_internal(str, data), Spliced(text, str.size, 0, data))
  BY <1>1, TextsAreTexts, AppendHas, HasHolds
<1>7. ASSUME NEW data \in Texts
      PROVE  Holds(Assign(str, data), data)
  BY TextsAreTexts, AssignHas, HasHolds
<1>8. ASSUME NEW data \in Texts, NEW index \in Indices, index > str.size,
             NEW o \in {insert_internal(str, index, data), InsertRun(str, index, data),
                        erase(str, index, 1), replace(str, index, 1, data)}
      PROVE  Holds(o, text)
  <2>1. IsText(data) /\ index \in Nat /\ 1 \in Nat
    BY TextsAreTexts, IndicesAreNat
  <2>. QED
    BY <1>1, <1>8, <2>1, RefusedHas, HasHolds
<1>9. ASSUME NEW data \in Texts, NEW index \in Indices, ~ (index > str.size), NEW count \in Indices
      PROVE  LET cut == Least(count, str.size - index)
             IN /\ Holds(insert_internal(str, index, data), Spliced(text, index, 0, data))
                /\ Holds(InsertRun(str, index, data), Spliced(text, index, 0, data))
                /\ Holds(erase(str, index, count), Spliced(text, index, cut, <<>>))
                /\ Holds(replace(str, index, count, data), Spliced(text, index, cut, data))
  <2>. DEFINE cut == Least(count, str.size - index)
  <2>1. IsText(data) /\ index \in Nat /\ index <= str.size /\ count \in Nat
    BY <1>1, <1>9, TextsAreTexts, IndicesAreNat
  <2>2. /\ Has(insert_internal(str, index, data), Spliced(text, index, 0, data))
        /\ Has(InsertRun(str, index, data), Spliced(text, index, 0, data))
    BY <1>1, <2>1, InsertHas
  <2>3. Has(erase(str, index, count), Spliced(text, index, cut, <<>>))
    BY <1>1, <2>1, EraseHas
  <2>4. Has(replace(str, index, count, data), Spliced(text, index, cut, data))
    BY <1>1, <2>1, ReplaceHas
  <2>. QED
    BY <2>2, <2>3, <2>4, HasHolds
<1>. HIDE DEF text
<1>. QED
  BY <1>2, <1>3, <1>4, <1>5, <1>6, <1>7, <1>8, <1>9, Zenon DEF EditsRight, text

\* Every edit of every string that calls can make is the edit of a sequence.
THEOREM EditsAlwaysRight == Spec => []EditsRight
<1>1. Spec => []IsString(str)
  BY StringsWellFormed
<1>2. IsString(str) => EditsRight
  BY EditsOfStrings
<1>. QED
  BY <1>1, <1>2, PTL

----------------------------------------------------------------------------
\* The methods that do not change a string.

LEMMA FirstIs ==
  ASSUME NEW S \in SUBSET Nat, S # {}
  PROVE  First(S) \in S /\ \A n \in S : First(S) <= n
BY LeastElement DEF First

LEMMA BytesAreInt ==
  ASSUME NEW text, IsText(text), NEW k \in 1 .. Len(text)
  PROVE  text[k] \in Int
<1>1. text[k] \in Byte
  BY DEF IsText
<1>2. Byte \subseteq Int
  BY StringAssumption DEF Byte, Nul, Junk
<1>. QED
  BY <1>1, <1>2

\* Texts that differ are in the order of the first bytes that do.
LEMMA BeforeAt ==
  ASSUME NEW a, IsText(a), NEW b, IsText(b),
         NEW d \in Nat, 1 <= d, d <= Len(a), d <= Len(b),
         \A k \in 1 .. d - 1 : a[k] = b[k], a[d] # b[d]
  PROVE  Before(a, b) <=> a[d] < b[d]
<1>1. /\ Len(a) \in Nat /\ a \in [1 .. Len(a) -> Byte]
      /\ Len(b) \in Nat /\ b \in [1 .. Len(b) -> Byte]
  BY DEF IsText
<1>2. ASSUME a[d] < b[d]
      PROVE  Before(a, b)
  <2>1. d - 1 \in 0 .. Least(Len(a), Len(b))
    BY <1>1 DEF Least
  <2>2. d - 1 < Len(b) /\ d - 1 + 1 = d
    BY <1>1
  <2>. QED
    BY <1>2, <2>1, <2>2 DEF Before
<1>3. ASSUME Before(a, b)
      PROVE  a[d] < b[d]
  <2>1. PICK n \in 0 .. Least(Len(a), Len(b)) :
          /\ \A k \in 1 .. n : a[k] = b[k]
          /\ n < Len(b) /\ (n = Len(a) \/ a[n + 1] < b[n + 1])
    BY <1>3 DEF Before
  <2>2. n \in Nat /\ n < d
    <3>1. n \in Nat
      BY <1>1 DEF Least
    <3>2. d \notin 1 .. n
      BY <2>1
    <3>. QED
      BY <3>1, <3>2
  <2>3. n # Len(a)
    <3>. DEFINE la == Len(a)
    <3>1. la \in Nat /\ d <= la
      BY <1>1
    <3>. HIDE DEF la
    <3>. QED
      BY <2>2, <3>1 DEF la
  <2>4. a[n + 1] < b[n + 1]
    BY <2>1, <2>3
  <2>5. a[n + 1] # b[n + 1]
    <3>1. n + 1 \in 1 .. Len(a) /\ n + 1 \in 1 .. Len(b)
      <4>. DEFINE la == Len(a)
                  lb == Len(b)
      <4>1. la \in Nat /\ lb \in Nat /\ d <= la /\ d <= lb
        BY <1>1
      <4>. HIDE DEF la, lb
      <4>2. n + 1 \in 1 .. la /\ n + 1 \in 1 .. lb
        BY <2>2, <4>1
      <4>. QED
        BY <4>2 DEF la, lb
    <3>2. a[n + 1] \in Int /\ b[n + 1] \in Int
      BY <3>1, BytesAreInt
    <3>. QED
      BY <2>4, <3>2
  <2>6. n + 1 = d
    BY <2>2, <2>5
  <2>. QED
    BY <2>4, <2>6
<1>. QED
  BY <1>2, <1>3

\* Of two texts that do not differ the shorter one is before the other.
LEMMA BeforeEnd ==
  ASSUME NEW a, IsText(a), NEW b, IsText(b),
         \A k \in 1 .. Least(Len(a), Len(b)) : a[k] = b[k]
  PROVE  Before(a, b) <=> Len(a) < Len(b)
<1>1. /\ Len(a) \in Nat /\ a \in [1 .. Len(a) -> Byte]
      /\ Len(b) \in Nat /\ b \in [1 .. Len(b) -> Byte]
  BY DEF IsText
<1>2. ASSUME Len(a) < Len(b)
      PROVE  Before(a, b)
  <2>1. Len(a) \in 0 .. Least(Len(a), Len(b)) /\ Least(Len(a), Len(b)) = Len(a)
    BY <1>1, <1>2 DEF Least
  <2>. QED
    BY <1>2, <2>1 DEF Before
<1>3. ASSUME Before(a, b), ~ (Len(a) < Len(b))
      PROVE  FALSE
  <2>1. PICK n \in 0 .. Least(Len(a), Len(b)) :
          n < Len(b) /\ (n = Len(a) \/ a[n + 1] < b[n + 1])
    BY <1>3 DEF Before
  <2>. DEFINE la == Len(a)
              lb == Len(b)
  <2>0. la \in Nat /\ lb \in Nat /\ ~ (la < lb) /\ n < lb /\ Least(la, lb) = lb
    BY <1>1, <1>3, <2>1 DEF Least
  <2>. HIDE DEF la, lb
  <2>2. n + 1 \in 1 .. Least(la, lb) /\ n + 1 \in 1 .. la /\ n + 1 \in 1 .. lb /\ n # la
    BY <2>0 DEF la
  <2>3. a[n + 1] = b[n + 1] /\ a[n + 1] \in Int
    BY <2>2, BytesAreInt DEF la, lb
  <2>. QED
    BY <2>1, <2>2, <2>3 DEF la
<1>. QED
  BY <1>2, <1>3

\* cmp_lex compares as a dictionary does.
LEMMA ComparesRight ==
  ASSUME NEW a, IsText(a), NEW b, IsText(b)
  PROVE  /\ cmp_lex(a, b) = -1 <=> Before(a, b)
         /\ cmp_lex(a, b) = 1 <=> Before(b, a)
<1>1. /\ Len(a) \in Nat /\ a \in [1 .. Len(a) -> Byte]
      /\ Len(b) \in Nat /\ b \in [1 .. Len(b) -> Byte]
  BY DEF IsText
<1>. DEFINE differ == {k \in 1 .. Least(Len(a), Len(b)) : a[k] # b[k]}
            d == First(differ)
<1>2. CASE differ # {}
  <2>1. differ \subseteq Nat
    OBVIOUS
  <2>2. d \in differ /\ \A n \in differ : d <= n
    BY <1>2, <2>1, FirstIs
  <2>3. cmp_lex(a, b) = IF a[d] < b[d] THEN -1 ELSE 1
    BY <1>2 DEF cmp_lex
  <2>. HIDE DEF d
  <2>4. d \in Nat /\ 1 <= d /\ d <= Len(a) /\ d <= Len(b) /\ a[d] # b[d]
    BY <1>1, <2>2 DEF Least
  <2>5. \A k \in 1 .. d - 1 : a[k] = b[k]
    BY <1>1, <2>2, <2>4 DEF Least
  <2>6. Before(a, b) <=> a[d] < b[d]
    BY <2>4, <2>5, BeforeAt
  <2>7. Before(b, a) <=> b[d] < a[d]
    BY <2>4, <2>5, BeforeAt
  <2>8. a[d] \in Int /\ b[d] \in Int
    <3>1. d \in 1 .. Len(a) /\ d \in 1 .. Len(b)
      BY <2>4
    <3>. QED
      BY <3>1, BytesAreInt
  <2>. QED
    BY <2>3, <2>4, <2>6, <2>7, <2>8
<1>3. CASE differ = {}
  <2>1. cmp_lex(a, b) = IF Len(a) = Len(b) THEN 0 ELSE IF Len(a) < Len(b) THEN -1 ELSE 1
    BY <1>3 DEF cmp_lex
  <2>2. \A k \in 1 .. Least(Len(a), Len(b)) : a[k] = b[k]
    BY <1>3
  <2>3. Least(Len(a), Len(b)) = Least(Len(b), Len(a))
    BY <1>1 DEF Least
  <2>4. Before(a, b) <=> Len(a) < Len(b)
    BY <2>2, BeforeEnd
  <2>5. Before(b, a) <=> Len(b) < Len(a)
    BY <2>2, <2>3, BeforeEnd
  <2>. DEFINE la == Len(a)
              lb == Len(b)
  <2>6. la \in Nat /\ lb \in Nat
    BY <1>1
  <2>. HIDE DEF la, lb
  <2>7. /\ cmp_lex(a, b) = IF la = lb THEN 0 ELSE IF la < lb THEN -1 ELSE 1
        /\ Before(a, b) <=> la < lb
        /\ Before(b, a) <=> lb < la
    BY <2>1, <2>4, <2>5 DEF la, lb
  <2>. QED
    BY <2>6, <2>7
<1>. QED
  BY <1>2, <1>3

\* A part of a text that is another text.
LEMMA SubSeqIs ==
  ASSUME NEW text, IsText(text), NEW index \in Nat, NEW len \in Nat, index + len <= Len(text)
  PROVE  /\ IsText(SubSeq(text, index + 1, index + len))
         /\ Len(SubSeq(text, index + 1, index + len)) = len
         /\ SubSeq(text, index + 1, index + len) = [k \in 1 .. len |-> text[index + k]]
<1>1. Len(text) \in Nat /\ text \in [1 .. Len(text) -> Byte]
  BY DEF IsText
<1>2. text \in Seq(Byte)
  BY <1>1
<1>. DEFINE part == SubSeq(text, index + 1, index + len)
<1>3. part = [k \in 1 .. (index + len) - (index + 1) + 1 |-> text[k + (index + 1) - 1]]
  BY <1>1, <1>2
<1>4. (index + len) - (index + 1) + 1 = len
  OBVIOUS
<1>5. \A k \in 1 .. len : k + (index + 1) - 1 = index + k /\ index + k \in 1 .. Len(text)
  BY <1>1
<1>6. part = [k \in 1 .. len |-> text[index + k]]
  BY <1>3, <1>4, <1>5
<1>7. part \in [1 .. len -> Byte]
  BY <1>1, <1>5, <1>6
<1>. QED
  BY <1>6, <1>7, FunctionIsText

\* Where pat is found, or not, in txt.
LEMMA FindsRight ==
  ASSUME NEW txt, IsText(txt), NEW pat, IsText(pat), NEW start \in Nat
  PROVE  LET i == find_naive(txt, pat, start)
             OccursAt(j) == j + Len(pat) <= Len(txt)
                              /\ \A k \in 1 .. Len(pat) : txt[j + k] = pat[k]
         IN IF i = -1 THEN ~ \E j \in start .. Len(txt) : OccursAt(j)
            ELSE OccursAt(i) /\ (i >= start \/ pat = <<>>)
                   /\ ~ \E j \in start .. i - 1 : OccursAt(j)
<1>. DEFINE OccursAt(j) == j + Len(pat) <= Len(txt)
                             /\ \A k \in 1 .. Len(pat) : txt[j + k] = pat[k]
            found == {i \in Starts(txt, pat, start) : SubSeq(txt, i + 1, i + Len(pat)) = pat}
            i == find_naive(txt, pat, start)
            n == Len(txt)
            m == Len(pat)
<1>1. /\ n \in Nat /\ txt \in [1 .. n -> Byte]
      /\ m \in Nat /\ pat \in [1 .. m -> Byte]
  BY DEF IsText
<1>2. CASE pat = <<>>
  <2>1. i = Least(start, n) /\ m = 0
    BY <1>2 DEF find_naive
  <2>2. i \in Nat /\ i <= n /\ i <= start
    BY <1>1, <2>1, LeastIs
  <2>3. OccursAt(i)
    BY <1>1, <2>1, <2>2
  <2>. HIDE DEF i
  <2>4. ~ \E j \in start .. i - 1 : OccursAt(j)
    BY <2>2
  <2>. HIDE DEF OccursAt
  <2>. QED
    BY <1>2, <2>2, <2>3, <2>4 DEF i, OccursAt
<1>3. CASE pat # <<>>
  <2>1. i = IF start > n \/ m > n \/ found = {} THEN -1 ELSE First(found)
    BY <1>3 DEF find_naive
  <2>2. ASSUME NEW j \in Nat, j + m <= n
        PROVE  SubSeq(txt, j + 1, j + m) = pat <=> OccursAt(j)
    <3>1. SubSeq(txt, j + 1, j + m) = [k \in 1 .. m |-> txt[j + k]]
      BY <1>1, <2>2, SubSeqIs
    <3>2. pat = [k \in 1 .. m |-> pat[k]]
      BY <1>1
    <3>. HIDE DEF n, m
    <3>. QED
      BY <2>2, <3>1, <3>2 DEF n, m
  <2>3. found \subseteq {j \in Nat : start <= j /\ j + m <= n}
    BY <1>1 DEF Starts
  <2>4. \A j \in Nat : start <= j /\ j + m <= n => j \in Starts(txt, pat, start)
    BY <1>1 DEF Starts
  <2>5. \A j \in Nat : j \in found <=> start <= j /\ OccursAt(j)
    <3>1. ASSUME NEW j \in Nat
          PROVE  j \in found <=> start <= j /\ OccursAt(j)
      <4>1. OccursAt(j) => j + m <= n
        OBVIOUS
      <4>. HIDE DEF OccursAt
      <4>. QED
        BY <2>2, <2>3, <2>4, <4>1
    <3>. QED
      BY <3>1
  <2>. HIDE DEF found, i, OccursAt
  <2>6. CASE start > n \/ m > n \/ found = {}
    <3>1. i = -1
      BY <2>1, <2>6
    <3>2. ASSUME NEW j \in start .. n, OccursAt(j)
          PROVE  FALSE
      <4>1. j \in found /\ j + m <= n /\ start <= j /\ j \in Nat
        BY <2>3, <2>5, <3>2
      <4>. QED
        BY <1>1, <2>6, <4>1
    <3>. QED
      BY <3>1, <3>2 DEF i, OccursAt
  <2>7. CASE ~ (start > n \/ m > n \/ found = {})
    <3>1. i \in found /\ \A j \in found : i <= j
      BY <2>1, <2>3, <2>7, FirstIs
    <3>2. i \in Nat /\ start <= i /\ OccursAt(i)
      BY <2>3, <2>5, <3>1
    <3>3. ASSUME NEW j \in start .. i - 1, OccursAt(j)
          PROVE  FALSE
      <4>1. j \in found
        BY <2>5, <3>2, <3>3
      <4>. QED
        BY <3>1, <3>2, <4>1
    <3>. QED
      BY <3>2, <3>3 DEF i, OccursAt
  <2>. QED
    BY <2>6, <2>7
<1>. QED
  BY <1>2, <1>3

\* A string of at most one byte and a character.
LEMMA ComparesCharRight ==
  ASSUME NEW o, NEW text, Has(o, text), o.size <= 1, NEW char \in Bytes
  PROVE  CompareChar(o, char) = cmp_lex(text, <<char>>)
<1>1. /\ IsText(text) /\ Len(text) = o.size /\ o.size \in Nat
      /\ text = [k \in 1 .. o.size |-> o.ptr[k - 1]]
  BY BytesOf DEF Has, Text
<1>. DEFINE other == <<char>>
<1>2. Len(other) = 1 /\ other[1] = char /\ char \in Int
  BY StringAssumption
<1>. DEFINE differ == {k \in 1 .. Least(Len(text), Len(other)) : text[k] # other[k]}
<1>. HIDE DEF other
<1>3. CASE o.size = 0
  <2>1. differ = {}
    BY <1>1, <1>2, <1>3 DEF Least
  <2>2. cmp_lex(text, other) = -1
    BY <1>1, <1>2, <1>3, <2>1 DEF cmp_lex
  <2>. QED
    BY <1>3, <2>2 DEF CompareChar, other
<1>4. CASE o.size = 1
  <2>1. text[1] = o.ptr[0] /\ text[1] \in Int
    BY <1>1, <1>4, BytesAreInt
  <2>2. CompareChar(o, char) = IF text[1] = char THEN 0 ELSE IF text[1] < char THEN -1 ELSE 1
    BY <1>4, <2>1 DEF CompareChar
  <2>3. 1 .. Least(Len(text), Len(other)) = {1}
    BY <1>1, <1>2, <1>4 DEF Least
  <2>4. CASE text[1] = char
    <3>1. differ = {}
      BY <1>2, <2>3, <2>4
    <3>. QED
      BY <1>1, <1>2, <1>4, <2>2, <2>4, <3>1 DEF cmp_lex, other
  <2>5. CASE text[1] # char
    <3>1. differ = {1}
      BY <1>2, <2>3, <2>5
    <3>2. First(differ) = 1
      <4>1. differ \in SUBSET Nat /\ differ # {}
        BY <3>1
      <4>. QED
        BY <3>1, <4>1, FirstIs
    <3>3. cmp_lex(text, other) = IF text[1] < other[1] THEN -1 ELSE 1
      <4>1. differ # {}
        BY <3>1
      <4>. QED
        BY <3>2, <4>1 DEF cmp_lex
    <3>. QED
      BY <1>2, <2>2, <2>5, <3>3 DEF other
  <2>. QED
    BY <2>4, <2>5
<1>. QED
  BY <1>1, <1>3, <1>4

\* What is asked of a string is what is asked of its text.
LEMMA QueriesOfStrings == IsString(str) => QueriesRight
<1>. SUFFICES ASSUME IsString(str)
              PROVE  QueriesRight
  OBVIOUS
<1>. DEFINE text == Text(str)
<1>1. Has(str, text) /\ IsText(text) /\ Len(text) = str.size /\ str.size \in Nat
  BY TextOf DEF Has, IsString
<1>2. ASSUME NEW data \in Texts
      PROVE  /\ cmp_lex(text, data) = -1 <=> Before(text, data)
             /\ cmp_lex(text, data) = 1 <=> Before(data, text)
  BY <1>1, TextsAreTexts, ComparesRight
<1>3. ASSUME NEW data \in Texts
      PROVE  Holds(plus(str, data), text \o data)
  <2>1. IsText(data)
    BY TextsAreTexts
  <2>2. text \in Seq(Byte) /\ data \in Seq(Byte) /\ Len(data) \in Nat
    BY <1>1, <2>1 DEF IsText
  <2>. DEFINE joined == text \o data
  <2>3. joined \in Seq(Byte) /\ Len(joined) = str.size + Len(data)
    BY <1>1, <2>2
  <2>4. plus(str, data) = init_from_buffer(joined)
    BY <2>3 DEF plus, init_from_buffer
  <2>. HIDE DEF joined
  <2>5. IsText(joined)
    BY <2>3 DEF IsText
  <2>. QED
    BY <2>4, <2>5, InitHas, HasHolds DEF joined
<1>4. ASSUME NEW data \in Texts, NEW start \in Indices
      PROVE  LET i == find_naive(text, data, start)
                 OccursAt(j) == j + Len(data) <= str.size
                                  /\ \A k \in 1 .. Len(data) : text[j + k] = data[k]
             IN IF i = -1 THEN ~ \E j \in start .. str.size : OccursAt(j)
                ELSE OccursAt(i) /\ (i >= start \/ data = <<>>)
                       /\ ~ \E j \in start .. i - 1 : OccursAt(j)
  <2>1. IsText(data) /\ start \in Nat
    BY TextsAreTexts, IndicesAreNat
  <2>. HIDE DEF text
  <2>. QED
    BY <1>1, <2>1, FindsRight
<1>5. ASSUME NEW index \in Indices, NEW count \in Indices
      PROVE  LET cut == IF index > str.size THEN 0 ELSE Least(count, str.size - index)
             IN Holds(substr(str, index, count), SubSeq(text, index + 1, index + cut))
  <2>. DEFINE cut == IF index > str.size THEN 0 ELSE Least(count, str.size - index)
              part == SubSeq(text, index + 1, index + cut)
  <2>1. index \in Nat /\ count \in Nat
    BY IndicesAreNat
  <2>2. CASE index >= str.size \/ count = 0
    <3>1. cut = 0
      BY <1>1, <2>1, <2>2 DEF Least
    <3>2. part = <<>>
      <4>1. text \in Seq(Byte)
        BY <1>1 DEF IsText
      <4>. HIDE DEF text
      <4>2. SubSeq(text, index + 1, index + 0) = <<>>
        BY <2>1, <4>1
      <4>. QED
        BY <3>1, <4>2
    <3>3. substr(str, index, count) = init_from_buffer(<<>>)
      BY <2>2 DEF substr
    <3>. QED
      BY <3>2, <3>3, EmptyText, InitHas, HasHolds
  <2>3. CASE ~ (index >= str.size \/ count = 0)
    <3>1. cut = Least(count, str.size - index) /\ cut \in Nat /\ index + cut <= Len(text)
      BY <1>1, <2>1, <2>3 DEF Least
    <3>. HIDE DEF cut
    <3>2. IsText(part) /\ Len(part) = cut /\ part = [k \in 1 .. cut |-> text[index + k]]
      <4>. HIDE DEF text
      <4>1. IsText(text) /\ index \in Nat /\ cut \in Nat /\ index + cut <= Len(text)
        BY <1>1, <2>1, <3>1
      <4>2. IsText(part)
        BY <4>1, SubSeqIs DEF part
      <4>3. part = [k \in 1 .. cut |-> text[index + k]]
        BY <4>1, SubSeqIs DEF part
      <4>4. Len(part) = cut
        <5>1. DOMAIN part = 1 .. cut
          BY <4>3
        <5>2. DOMAIN part = 1 .. Len(part) /\ Len(part) \in Nat
          BY <4>2 DEF IsText
        <5>. DEFINE len == Len(part)
        <5>3. 1 .. cut = 1 .. len /\ len \in Nat /\ cut \in Nat
          BY <4>1, <5>1, <5>2
        <5>. HIDE DEF len
        <5>. QED
          <6>1. (cut \in 1 .. cut <=> cut \in 1 .. len) /\ (len \in 1 .. cut <=> len \in 1 .. len)
            BY <5>3
          <6>2. len = cut
            BY <5>3, <6>1
          <6>. QED
            BY <6>2 DEF len
      <4>. QED
        BY <4>2, <4>3, <4>4
    <3>4. \A k \in 1 .. cut : text[index + k] = str.ptr[index + k - 1]
      <4>1. ASSUME NEW k \in 1 .. cut
            PROVE  text[index + k] = str.ptr[index + k - 1]
        <5>1. index + k \in 1 .. str.size
          BY <1>1, <2>1, <3>1
        <5>2. text = [j \in 1 .. str.size |-> str.ptr[j - 1]]
          BY DEF Text
        <5>3. (index + k) - 1 = index + k - 1
          BY <2>1, <3>1
        <5>. HIDE DEF text
        <5>. QED
          BY <5>1, <5>2, <5>3
      <4>. QED
        BY <4>1
    <3>5. part = [k \in 1 .. cut |-> str.ptr[index + k - 1]]
      BY <3>2, <3>4
    <3>6. substr(str, index, count) = init_from_buffer(part)
      <4>1. substr(str, index, count)
              = Object(Placed(NewBuffer(cut + 1), [k \in 1 .. cut |-> str.ptr[index + k - 1]]),
                       cut, cut + 1)
        BY <2>3, <3>1 DEF substr
      <4>. HIDE DEF part
      <4>. QED
        BY <3>2, <3>5, <4>1 DEF init_from_buffer
    <3>. QED
      BY <3>2, <3>6, InitHas, HasHolds DEF cut
  <2>. QED
    BY <2>2, <2>3
<1>6. ASSUME str.size <= 1, NEW char \in Bytes
      PROVE  CompareChar(str, char) = cmp_lex(text, <<char>>)
  BY <1>1, <1>6, ComparesCharRight
<1>. HIDE DEF text
<1>. QED
  BY <1>2, <1>3, <1>4, <1>5, <1>6, Zenon DEF QueriesRight, text

\* Comparing, searching, joining and cutting out do with every string that calls can
\* make what they do with its sequence of bytes.
THEOREM QueriesAlwaysRight == Spec => []QueriesRight
<1>1. Spec => []IsString(str)
  BY StringsWellFormed
<1>2. IsString(str) => QueriesRight
  BY QueriesOfStrings
<1>. QED
  BY <1>1, <1>2, PTL
=============================================================================
