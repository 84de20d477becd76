------------------------------ MODULE Dormitory -------------------------------
(***************************************************************************)
(* The database of dormitory students (1/.../DataBase Dormitories.cpp): a  *)
(* linked list in the memory of the program, read from a file at the start *)
(* and written at the end.  A list is the sequence of its elements.        *)
(*                                                                         *)
(* A record is a surname, a name, a gender and the rest, which stands for  *)
(* the other fields; none is empty or has blanks, which separate them in   *)
(* the file.                                                               *)
(***************************************************************************)
EXTENDS MachineConstants, FiniteSets

VARIABLES
  base,   \* main's new_student
  based,  \* the lines of Based.txt
  up,     \* the program runs
  shown   \* the records that the last command prints

vars == <<base, based, up, shown>>

\* The comparison of the gender that is typed compares addresses: it never holds.
Entered(r) == [r EXCEPT !.gender = "male"]

\* A slip: the new element does not get the rest of the list.
InsertedLast(list, r) == IF list = <<>> THEN <<r>> ELSE <<Head(list), r>>

\* Behind the first element.
Inserted(list, r) == IF list = <<>> THEN <<r>> ELSE <<Head(list), r>> \o Tail(list)

\* Every line in turn: all but the first end up in reverse.
add_from_file(lines) ==
  LET added[k \in 0 .. Len(lines)] == IF k = 0 THEN <<>> ELSE Inserted(added[k - 1], lines[k])
  IN added[Len(lines)]

delete_student(list, i) ==
  [k \in 1 .. Len(list) - 1 |-> IF k < i THEN list[k] ELSE list[k + 1]]

Matches(r, s) == r.surname = s.surname /\ r.name = s.name

\* The students that agree in a field with what is typed.
Agreeing(list, r, field) ==
  LET chosen[k \in 0 .. Len(list)] ==
        IF k = 0 THEN <<>>
        ELSE IF list[k][field] = r[field] THEN Append(chosen[k - 1], list[k])
        ELSE chosen[k - 1]
  IN chosen[Len(list)]

----------------------------------------------------------------------------
Init ==
  /\ \E lines \in UNION {[1 .. k -> Students] : k \in 0 .. MaxStudents} :
       based = lines /\ base = add_from_file(lines)
  /\ up = TRUE /\ shown = <<>>

Command == up /\ UNCHANGED <<based, up>>

\* MaxStudents bounds the model.
add_to_base_rb_consol ==
  /\ Command /\ Len(base) < MaxStudents
  /\ \E r \in Students : base' = Inserted(base, Entered(r))
  /\ shown' = <<>>

\* The first student of the name that is typed.
delete_from_base ==
  /\ Command
  /\ \E r \in Students :
       LET found == {i \in DOMAIN base : Matches(r, base[i])}
       IN base' = IF found = {} THEN base
                  ELSE delete_student(base, CHOOSE i \in found : \A j \in found : i <= j)
  /\ shown' = <<>>

print_base_console == Command /\ shown' = base /\ UNCHANGED base

poisk_student(field) ==
  /\ Command
  /\ \E r \in Students : shown' = Agreeing(base, r, field)
  /\ UNCHANGED base

poisk_data == \E r \in Students : \E field \in DOMAIN r : poisk_student(field)

saving_data == up /\ based' = base /\ up' = FALSE /\ shown' = <<>> /\ UNCHANGED base

\* A number that is not in the menu ends the program.
WrongNumber == up /\ up' = FALSE /\ shown' = <<>> /\ UNCHANGED <<base, based>>

Start ==
  /\ ~ up /\ up' = TRUE /\ base' = add_from_file(based) /\ shown' = <<>>
  /\ UNCHANGED based

Next ==
  \/ add_to_base_rb_consol \/ delete_from_base \/ print_base_console \/ poisk_data
  \/ saving_data \/ WrongNumber \/ Start

Spec == Init /\ [][Next]_vars

----------------------------------------------------------------------------
TypeOK ==
  /\ base \in Seq(Students \cup {Entered(r) : r \in Students}) /\ Len(base) <= MaxStudents
  /\ based \in Seq(Students \cup {Entered(r) : r \in Students})
  /\ up \in BOOLEAN

RecordsOf(list) == {list[i] : i \in DOMAIN list}
BagOf(list) == [r \in RecordsOf(list) |-> Cardinality({i \in DOMAIN list : list[i] = r})]

Promised ==
  INSTANCE Register WITH
    Genders <- {r.gender : r \in Students} \cup {"male"},
    enrolled <- BagOf(base), stored <- BagOf(based), running <- up, printed <- BagOf(shown)

\* The list keeps the register: no command, save, lost session or restart loses,
\* repeats or changes a record of another student.
KeepsRegister == Promised!RegSpec
=============================================================================
