---------------------------- MODULE Philosophers ----------------------------
(***************************************************************************)
(* phil.cpp: five philosophers whose meals main arranges in waves of two.  *)
(*                                                                         *)
(* main sets the start events of a wave's two philosophers and waits for   *)
(* both done events, but for no longer than two meals take; then it clears *)
(* the done events and goes on to the next wave.  All events reset         *)
(* themselves when a wait takes them, and setting a set event is no more   *)
(* than setting it once.                                                   *)
(*                                                                         *)
(* Time is abstracted to what may happen: the wait for a wave may time out *)
(* whenever one of its two is not done (the limit is 2 * PHIL ms, a thread *)
(* needs PHIL ms and the time to be scheduled and to print), and the       *)
(* program may end after any wave.                                         *)
(***************************************************************************)
EXTENDS Integers, Sequences, FiniteSets, ThreadConstants

Philosophers == 0 .. 4

\* A slip: a philosopher in place of another.
WavesUneven == <<<<1, 4>>, <<2, 0>>, <<4, 1>>, <<4, 2>>, <<0, 3>>>>

waves == <<<<1, 4>>, <<2, 0>>, <<3, 1>>, <<4, 2>>, <<0, 3>>>>

VARIABLES
  start_evt, done_evt, \* the philosophers whose event is set
  wpc,      \* where each philosopher is
  mpc,      \* where main is
  wave_idx, \* 1 .. 5, the code's wave_idx + 1
  begun,    \* history: how often each philosopher was part of a wave
  meals,    \* history: how many meals each philosopher has ended
  late      \* history: how many waits for a wave timed out

eventVars == <<start_evt, done_evt>>
vars == <<eventVars, wpc, mpc, wave_idx, begun, meals, late>>

Zero == [i \in Philosophers |-> 0]

Init ==
  /\ start_evt = {} /\ done_evt = {}
  /\ wpc = [i \in Philosophers |-> "wait"]
  /\ mpc = "loop" /\ wave_idx = 1
  /\ begun = Zero /\ meals = Zero /\ late = 0

----------------------------------------------------------------------------
\* The thread of philosopher i.
At(i, from, to) == wpc[i] = from /\ wpc' = [wpc EXCEPT ![i] = to]

\* The wait for the start event takes it; g_state becomes ST_E.
TakeStart(i) ==
  /\ i \in start_evt
  /\ At(i, "wait", "started")
  /\ start_evt' = start_evt \ {i}
  /\ UNCHANGED <<done_evt, mpc, wave_idx, begun, meals, late>>

\* T->E is printed, under the print mutex.
PrintEating(i) == At(i, "started", "eating") /\ UNCHANGED <<eventVars, mpc, wave_idx, begun, meals, late>>

\* The meal is over: g_state becomes ST_T.
EndMeal(i) ==
  /\ At(i, "eating", "ended")
  /\ meals' = [meals EXCEPT ![i] = @ + 1]
  /\ UNCHANGED <<eventVars, mpc, wave_idx, begun, late>>

\* E->T is printed.
PrintThinking(i) == At(i, "ended", "printed") /\ UNCHANGED <<eventVars, mpc, wave_idx, begun, meals, late>>

SetDone(i) ==
  /\ At(i, "printed", "wait")
  /\ done_evt' = done_evt \cup {i}
  /\ UNCHANGED <<start_evt, mpc, wave_idx, begun, meals, late>>

Philosopher(i) == TakeStart(i) \/ PrintEating(i) \/ EndMeal(i) \/ PrintThinking(i) \/ SetDone(i)

----------------------------------------------------------------------------
\* The main thread.
MainAt(from, to) == mpc = from /\ mpc' = to

First == waves[wave_idx][1]
Second == waves[wave_idx][2]

Start(i) ==
  /\ start_evt' = start_evt \cup {i}
  /\ begun' = [begun EXCEPT ![i] = @ + 1]
  /\ UNCHANGED <<done_evt, wpc, wave_idx, meals, late>>

\* The test of the loop, and the first event of the wave.
StartFirst ==
  /\ MainAt("loop", "second")
  /\ begun[First] < MaxMeals /\ begun[Second] < MaxMeals
  /\ Start(First)

StartSecond == MainAt("second", "await") /\ Start(Second)

\* A slip: the wait ends when one of the two is done (bWaitAll = FALSE).
AwaitAny ==
  /\ MainAt("await", "clear")
  /\ {First, Second} \cap done_evt # {}
  /\ done_evt' = done_evt \ {First, Second}
  /\ UNCHANGED <<start_evt, wpc, wave_idx, begun, meals, late>>

\* WaitForMultipleObjects takes both events or none.
AwaitBoth ==
  /\ MainAt("await", "clear")
  /\ {First, Second} \subseteq done_evt
  /\ done_evt' = done_evt \ {First, Second}
  /\ UNCHANGED <<start_evt, wpc, wave_idx, begun, meals, late>>

AwaitTimeout ==
  /\ MainAt("await", "clear")
  /\ ~({First, Second} \subseteq done_evt)
  /\ late < MaxLate
  /\ late' = late + 1
  /\ UNCHANGED <<eventVars, wpc, wave_idx, begun, meals>>

\* ResetEvent for one of the two and then the other.
ClearFirst ==
  /\ MainAt("clear", "clear2")
  /\ done_evt' = done_evt \ {First}
  /\ UNCHANGED <<start_evt, wpc, wave_idx, begun, meals, late>>

ClearSecond ==
  /\ MainAt("clear2", "loop")
  /\ done_evt' = done_evt \ {Second}
  /\ wave_idx' = (wave_idx % 5) + 1
  /\ UNCHANGED <<start_evt, wpc, begun, meals, late>>

\* The time is over: by one of the two tests, both between two waves.
LeaveLoop ==
  /\ MainAt("loop", "terminate")
  /\ UNCHANGED <<eventVars, wpc, wave_idx, begun, meals, late>>

\* TerminateThread, in the order of the philosophers, wherever they are.
Terminate ==
  /\ mpc = "terminate"
  /\ \E i \in Philosophers :
       /\ wpc[i] # "terminated"
       /\ \A k \in 0 .. i - 1 : wpc[k] = "terminated"
       /\ wpc' = [wpc EXCEPT ![i] = "terminated"]
       /\ mpc' = IF i = 4 THEN "over" ELSE mpc
  /\ UNCHANGED <<eventVars, wave_idx, begun, meals, late>>

Main ==
  \/ StartFirst \/ StartSecond \/ AwaitBoth \/ AwaitTimeout
  \/ ClearFirst \/ ClearSecond \/ LeaveLoop \/ Terminate

Next == Main \/ \E i \in Philosophers : Philosopher(i)

Spec == Init /\ [][Next]_vars

\* Every thread that can take a step is scheduled again.
FairSpec == Spec /\ WF_vars(Main) /\ \A i \in Philosophers : WF_vars(Philosopher(i))

----------------------------------------------------------------------------
\* The variables hold values of their types.
TypeOK ==
  /\ start_evt \subseteq Philosophers /\ done_evt \subseteq Philosophers
  /\ wpc \in [Philosophers -> {"wait", "started", "eating", "ended", "printed", "terminated"}]
  /\ mpc \in {"loop", "second", "await", "clear", "clear2", "terminate", "over"}
  /\ wave_idx \in 1 .. 5
  /\ begun \in [Philosophers -> 0 .. MaxMeals] /\ meals \in [Philosophers -> 0 .. MaxMeals]
  /\ late \in 0 .. MaxLate

\* Who eats, by g_state and by what was printed last.
Eats(i) == wpc[i] \in {"started", "eating"}
ShownEating(i) == wpc[i] \in {"eating", "ended"}

Neighbour(i) == (i + 1) % 5

\* Unless a wait timed out, neighbours never eat at the same time, neither in
\* g_state nor in the printed log (main, waves and WaitForMultipleObjects).
NeighboursApart ==
  late = 0 => \A i \in Philosophers :
             /\ ~(Eats(i) /\ Eats(Neighbour(i)))
             /\ ~(ShownEating(i) /\ ShownEating(Neighbour(i)))

\* Every start becomes one meal, also when events are left over by a wait that
\* timed out (then some starts may be lost: setting a set event does nothing);
\* and unless one timed out, between two waves nobody is ahead of anybody by
\* more than one meal.
MealsInTurn ==
  /\ \A i \in Philosophers :
       LET owed == IF i \in start_evt THEN 1 ELSE 0
           now == IF Eats(i) THEN 1 ELSE 0
       IN  /\ mpc \notin {"terminate", "over"} => meals[i] + now + owed <= begun[i]
           /\ mpc \notin {"terminate", "over"} /\ late = 0 => meals[i] + now + owed = begun[i]
  /\ late = 0 /\ mpc = "loop" => \A i, k \in Philosophers : meals[i] <= meals[k] + 1

\* The program ends and no meal is cut off, unless a wait timed out.
Ended == (mpc = "over" /\ meals = begun) \/ late > 0

Ends == <>Ended
=============================================================================
