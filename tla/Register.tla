------------------------------- MODULE Register -------------------------------
(***************************************************************************)
(* What the database of dormitory students promises: a bag of records that *)
(* grows and shrinks by one record at a time, and that is stored as a      *)
(* whole or not at all.  In what order records are kept, which of several  *)
(* students of the same name is removed, and the gender of a new record    *)
(* are not promised.                                                       *)
(***************************************************************************)
EXTENDS Integers

CONSTANTS Students, Genders

VARIABLES
  enrolled, \* the bag of the running program
  stored,   \* the bag in the file
  running,
  printed   \* what the last command prints, as a bag

regVars == <<enrolled, stored, running, printed>>

\* A bag gives each of its records the number of its copies.
EmptyBag == [s \in {} |-> 0]
Copies(bag, s) == IF s \in DOMAIN bag THEN bag[s] ELSE 0
With(bag, r) == [s \in DOMAIN bag \cup {r} |-> IF s = r THEN Copies(bag, r) + 1 ELSE bag[s]]
Without(bag, r) ==
  LET left == {s \in DOMAIN bag : s = r => bag[r] > 1}
  IN [s \in left |-> IF s = r THEN bag[r] - 1 ELSE bag[s]]

SameName(r, s) == r.surname = s.surname /\ r.name = s.name

RegInit == enrolled = stored /\ running = TRUE /\ printed = EmptyBag

Enrol ==
  /\ running /\ UNCHANGED <<stored, running>> /\ printed' = EmptyBag
  /\ \E r \in Students, g \in Genders :
       enrolled' = With(enrolled, [r EXCEPT !.gender = g])

\* A student of the name that is given, if there is one.
Expel ==
  /\ running /\ UNCHANGED <<stored, running>> /\ printed' = EmptyBag
  /\ \E r \in Students :
       \/ \E s \in DOMAIN enrolled : SameName(r, s) /\ enrolled' = Without(enrolled, s)
       \/ ~ (\E s \in DOMAIN enrolled : SameName(r, s)) /\ UNCHANGED enrolled

\* All records, or all that agree with one in a field.
Show ==
  /\ running /\ UNCHANGED <<enrolled, stored, running>>
  /\ \/ printed' = enrolled
     \/ \E r \in Students : \E field \in DOMAIN r :
          LET found == {s \in DOMAIN enrolled : s[field] = r[field]}
          IN printed' = [s \in found |-> enrolled[s]]

Save == running /\ ~ running' /\ stored' = enrolled /\ printed' = EmptyBag /\ UNCHANGED enrolled

\* A wrong number in the menu: what is not stored is lost.
Quit == running /\ ~ running' /\ printed' = EmptyBag /\ UNCHANGED <<enrolled, stored>>

Restart == ~ running /\ running' /\ enrolled' = stored /\ printed' = EmptyBag /\ UNCHANGED stored

RegNext == Enrol \/ Expel \/ Show \/ Save \/ Quit \/ Restart

RegSpec == RegInit /\ [][RegNext]_regVars
=============================================================================
