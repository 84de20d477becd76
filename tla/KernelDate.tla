------------------------------ MODULE KernelDate ------------------------------
(***************************************************************************)
(* date() of the kernel (2/ОСИ/ОС1/kernel.cpp), behind posixtime and       *)
(* wintime: the date of a number of seconds since the first of January of  *)
(* a year.  The number is given as days and the seconds of the last day.   *)
(*                                                                         *)
(* What checks it is a calendar that is advanced day by day.               *)
(***************************************************************************)
EXTENDS MachineConstants

VARIABLES
  first_year, number, \* the arguments
  calendar            \* the day, month and year of the day number

dateVars == <<first_year, number, calendar>>

Leap(year) == year % 400 = 0 \/ (year % 4 = 0 /\ year % 100 # 0)
YearDays(year) == IF Leap(year) THEN 366 ELSE 365
MonthDays(year) ==
  <<31, IF Leap(year) THEN 29 ELSE 28, 31, 30, 31, 30, 31, 31, 30, 31, 30, 31>>

\* A slip: a year ends a day late.
YearOfLate(days, year) ==
  LET loop[x \in Nat \X Nat] ==
        IF x[1] <= YearDays(x[2]) THEN x
        ELSE loop[<<x[1] - YearDays(x[2]), x[2] + 1>>]
  IN loop[<<days, year>>]

\* The loop over the years: what is left of the days, and the year.
YearOf(days, year) ==
  LET loop[x \in Nat \X Nat] ==
        IF x[1] < YearDays(x[2]) THEN x
        ELSE loop[<<x[1] - YearDays(x[2]), x[2] + 1>>]
  IN loop[<<days, year>>]

\* The loop over the months: the day of the month and the month, both from 1.
MonthOf(days, year) ==
  LET loop[x \in Nat \X (1 .. 13)] ==
        IF x[2] <= 12 /\ x[1] >= MonthDays(year)[x[2]]
        THEN loop[<<x[1] - MonthDays(year)[x[2]], x[2] + 1>>]
        ELSE <<x[1] + 1, x[2]>>
  IN loop[<<days, 1>>]

Date(days, year) ==
  LET found == YearOf(days, year)
      month == MonthOf(found[1], found[2])
  IN [day |-> month[1], month |-> month[2], year |-> found[2]]

\* The hour, minute and second of the day.
Clock(seconds) == <<(seconds \div 3600) % 24, (seconds \div 60) % 60, seconds % 60>>

----------------------------------------------------------------------------
\* The calendar: the day after.
DayAfter(date) ==
  IF date.day < (CASE date.month \in {4, 6, 9, 11} -> 30
                   [] date.month = 2 -> IF (date.year % 100 = 0 /\ date.year % 400 # 0)
                                           \/ date.year % 4 # 0 THEN 28 ELSE 29
                   [] OTHER -> 31)
  THEN [date EXCEPT !.day = @ + 1]
  ELSE IF date.month < 12 THEN [day |-> 1, month |-> date.month + 1, year |-> date.year]
  ELSE [day |-> 1, month |-> 1, year |-> date.year + 1]

Init ==
  /\ first_year \in FirstYears
  /\ number = 0
  /\ calendar = [day |-> 1, month |-> 1, year |-> first_year]

NextDay ==
  /\ number < MaxDay
  /\ number' = number + 1
  /\ calendar' = DayAfter(calendar)
  /\ UNCHANGED first_year

Next == NextDay

----------------------------------------------------------------------------
TypeOK == first_year \in FirstYears /\ number \in 0 .. MaxDay

\* What is printed for a number of seconds is the calendar's date of that day
\* and the time of the seconds, for every day that an unsigned integer reaches.
DateRight ==
  /\ Date(number, first_year) = calendar
  /\ \A seconds \in SecondsOfDay :
       LET clock == Clock(seconds)
       IN /\ clock \in (0 .. 23) \X (0 .. 59) \X (0 .. 59)
          /\ clock[1] * 3600 + clock[2] * 60 + clock[3] = seconds
=============================================================================
