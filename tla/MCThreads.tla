------------------------------ MODULE MCThreads ------------------------------
(***************************************************************************)
(* Small instances of the thread programs.  They share nothing but names:  *)
(* a behaviour runs one of Programs, chosen at the start, and the variables *)
(* that only other programs have keep the value NotUsed.                   *)
(***************************************************************************)
EXTENDS Integers, Sequences, FiniteSets, TLC, ThreadConstants

CONSTANTS Programs, NotUsed, w1, w2, w3

OneWorker == {w1}
TwoWorkers == {w1, w2}
ThreeWorkers == {w1, w2, w3}

TwoValues == 1 .. 2
ThreeValues == 1 .. 3
FourValues == 1 .. 4

WorkersAlike == Permutations(Workers)

VARIABLES
  program,
  wpc, mpc, queue,
  sem_ready, seg, stops, tasks_active, inlined,                    \* qsort, msort
  part, event_done, settled,                                       \* qsort
  A, A0,                                                           \* partition, msort
  half, buf,                                                       \* msort
  pivot, i, j, pc,                                                 \* partition
  start_epoch, finished, dp, seen, todo, epoch, result_val, early, \* expr
  start_flag, all_work_done, active_workers, added, seeded, job,   \* chess
  start_evt, done_evt, wave_idx, begun, meals, late                \* phil

threadVars == <<wpc, mpc>>
sortVars == <<sem_ready, seg, stops, tasks_active, inlined>>
qsortVars == <<part, event_done, settled>>
arrayVars == <<A, A0>>
msortVars == <<half, buf>>
partitionVars == <<pivot, i, j, pc>>
exprVars == <<start_epoch, finished, dp, seen, todo, epoch, result_val, early>>
chessVars == <<start_flag, all_work_done, active_workers, added, seeded, job>>
philVars == <<start_evt, done_evt, wave_idx, begun, meals, late>>

vars == <<program, threadVars, queue, sortVars, qsortVars, arrayVars, msortVars,
          partitionVars, exprVars, chessVars, philVars>>

QSort == INSTANCE QSortPool
Partition == INSTANCE QSortPartition
MSort == INSTANCE MSortPool
Expr == INSTANCE ExprBarrier
Chess == INSTANCE ChessPool
Phil == INSTANCE Philosophers

\* The variables each program leaves alone.
NotInQSort == <<arrayVars, msortVars, partitionVars, exprVars, chessVars, philVars>>
NotInPartition == <<threadVars, queue, sortVars, qsortVars, msortVars, exprVars, chessVars, philVars>>
NotInMSort == <<qsortVars, partitionVars, exprVars, chessVars, philVars>>
NotInExpr == <<queue, sortVars, qsortVars, arrayVars, msortVars, partitionVars, chessVars, philVars>>
NotInChess == <<sortVars, qsortVars, arrayVars, msortVars, partitionVars, exprVars, philVars>>
NotInPhil == <<queue, sortVars, qsortVars, arrayVars, msortVars, partitionVars, exprVars,
               chessVars>>

Unused1(v) == v = NotUsed
Unused2(v1, v2) == Unused1(v1) /\ Unused1(v2)
Unused3(v1, v2, v3) == Unused2(v1, v2) /\ Unused1(v3)
Unused4(v1, v2, v3, v4) == Unused3(v1, v2, v3) /\ Unused1(v4)

NoSort == Unused4(sem_ready, seg, stops, tasks_active) /\ Unused1(inlined)
NoQSort == Unused3(part, event_done, settled)
NoArray == Unused2(A, A0)
NoMSort == Unused2(half, buf)
NoPartition == Unused4(pivot, i, j, pc)
NoExpr == Unused4(start_epoch, finished, dp, seen) /\ Unused4(todo, epoch, result_val, early)
NoChess == Unused4(start_flag, all_work_done, active_workers, added) /\ Unused2(seeded, job)
NoPhil == Unused4(start_evt, done_evt, wave_idx, begun) /\ Unused2(meals, late)

Init ==
  /\ program \in Programs
  /\ \/ /\ program = "qsort"
        /\ QSort!Init
        /\ NoArray /\ NoMSort /\ NoPartition /\ NoExpr /\ NoChess /\ NoPhil
     \/ /\ program = "partition"
        /\ Partition!Init
        /\ Unused3(wpc, mpc, queue)
        /\ NoSort /\ NoQSort /\ NoMSort /\ NoExpr /\ NoChess /\ NoPhil
     \/ /\ program = "msort"
        /\ MSort!Init
        /\ NoQSort /\ NoPartition /\ NoExpr /\ NoChess /\ NoPhil
     \/ /\ program = "expr"
        /\ Expr!Init
        /\ Unused1(queue)
        /\ NoSort /\ NoQSort /\ NoArray /\ NoMSort /\ NoPartition /\ NoChess /\ NoPhil
     \/ /\ program = "chess"
        /\ Chess!Init
        /\ NoSort /\ NoQSort /\ NoArray /\ NoMSort /\ NoPartition /\ NoExpr /\ NoPhil
     \/ /\ program = "phil"
        /\ Phil!Init
        /\ Unused1(queue)
        /\ NoSort /\ NoQSort /\ NoArray /\ NoMSort /\ NoPartition /\ NoExpr /\ NoChess

Runs(name, others) == program = name /\ UNCHANGED <<program, others>>

Next ==
  \/ Runs("qsort", NotInQSort) /\ QSort!Next
  \/ Runs("partition", NotInPartition) /\ Partition!Next
  \/ Runs("msort", NotInMSort) /\ MSort!Next
  \/ Runs("expr", NotInExpr) /\ Expr!Next
  \/ Runs("chess", NotInChess) /\ Chess!Next
  \/ Runs("phil", NotInPhil) /\ Phil!Next

Spec == Init /\ [][Next]_vars

\* The fairness of the program that runs.
FairSpec ==
  /\ Spec
  /\ WF_vars(Runs("qsort", NotInQSort) /\ QSort!Main)
  /\ WF_vars(Runs("partition", NotInPartition) /\ Partition!Next)
  /\ WF_vars(Runs("msort", NotInMSort) /\ MSort!Main)
  /\ WF_vars(Runs("expr", NotInExpr) /\ Expr!Main)
  /\ WF_vars(Runs("chess", NotInChess) /\ Chess!Main)
  /\ WF_vars(Runs("phil", NotInPhil) /\ Phil!Main)
  /\ \A w \in Workers :
       /\ WF_vars(Runs("qsort", NotInQSort) /\ QSort!Worker(w))
       /\ WF_vars(Runs("msort", NotInMSort) /\ MSort!Worker(w))
       /\ WF_vars(Runs("chess", NotInChess) /\ Chess!Worker(w))
  /\ \A t \in Expr!Threads : WF_vars(Runs("expr", NotInExpr) /\ Expr!Worker(t))
  /\ \A i0 \in Phil!Philosophers : WF_vars(Runs("phil", NotInPhil) /\ Phil!Philosopher(i0))

----------------------------------------------------------------------------
\* The programs' properties, under their own names; each is stated in the
\* program's module.

\* The variables of the program that runs hold values of their types.
TypeOK ==
  /\ program = "qsort" => QSort!TypeOK
  /\ program = "partition" => Partition!TypeOK
  /\ program = "msort" => MSort!TypeOK
  /\ program = "expr" => Expr!TypeOK
  /\ program = "chess" => Chess!TypeOK
  /\ program = "phil" => Phil!TypeOK

\* qsort.cpp: tasks_active is what it stands for.
Accounted == program = "qsort" => QSort!Accounted

\* qsort.cpp: main is woken only when every element is in its place.
DoneMeansSorted == program = "qsort" => QSort!DoneMeansSorted

\* qsort.cpp: no two threads hold the same element.
Disjoint == program = "qsort" => QSort!Disjoint

\* qsort.cpp: no thread takes from an empty ring.
SemaphoreCounts == program = "qsort" => QSort!SemaphoreCounts

\* qsort.cpp: the scans of the partition stay in the segment.
InBounds == program = "partition" => Partition!InBounds

\* qsort.cpp: the parts are proper and separated by the pivot.
Partitioned == program = "partition" => Partition!Partitioned

\* qsort.cpp: the partition moves elements only.
Permuted == program = "partition" => Partition!Permuted

\* msort.cpp: tasks_active is what it stands for.
HalvesCounted == program = "msort" => MSort!HalvesCounted

\* msort.cpp: main stops the workers only when they are done.
QuietAtEnd == program = "msort" => MSort!QuietAtEnd

\* msort.cpp: the output is sorted.
OutputSorted == program = "msort" => MSort!OutputSorted

\* expr.cpp: the barrier separates the epochs.
Barrier == program = "expr" => Expr!Barrier

\* expr.cpp: the columns main has left are right.
ColumnsRight == program = "expr" => Expr!ColumnsRight

\* expr.cpp: so is the number it prints.
ResultRight == program = "expr" => Expr!ResultRight

\* chess.cpp: all_work_done means that every job is counted once.
DoneMeansAll == program = "chess" => Chess!DoneMeansAll

\* chess.cpp: nobody is left asleep.
SleepersWoken == program = "chess" => Chess!SleepersWoken

\* phil.cpp: neighbours never eat at the same time unless a wait timed out.
NeighboursApart == program = "phil" => Phil!NeighboursApart

\* phil.cpp: every start becomes one meal, and nobody is ahead by more than one.
MealsInTurn == program = "phil" => Phil!MealsInTurn

\* Every program ends (qsort and msort unless their queue was full, expr unless
\* a thread took epoch 0, of chess the threads).
ThreadsEnd ==
  <>(\/ program = "qsort" /\ QSort!Ended
     \/ program = "partition" /\ Partition!Ended
     \/ program = "msort" /\ MSort!Ended
     \/ program = "expr" /\ Expr!Ended
     \/ program = "chess" /\ Chess!WorkersEnded
     \/ program = "phil" /\ Phil!Ended)

\* chess.cpp: main ends.
MainEnds == <>(program = "chess" /\ Chess!Ended)
=============================================================================
