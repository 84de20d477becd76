----------------------------- MODULE ExprBarrier -----------------------------
(***************************************************************************)
(* expr.cpp: the number of ways to write N as a sum, by T threads.         *)
(*                                                                         *)
(* Column j of the table dp is computed in epoch j: main fills the rows    *)
(* below j, announces the epoch, and waits until T threads have counted    *)
(* themselves finished; thread t computes the rows of its residues mod j.  *)
(* Everything between a lock and an unlock of mtx is one step; a thread in *)
(* pthread_cond_wait sleeps until the condition variable is signalled, or  *)
(* for no reason at all.  A cell is an unsigned integer of 64 bits: it is  *)
(* counted modulo CellWord.                                                *)
(*                                                                         *)
(* start_epoch is 0 before the first epoch is announced, and a thread that *)
(* looks then takes it for an epoch.  `early' remembers the threads that   *)
(* did.                                                                    *)
(***************************************************************************)
EXTENDS Integers, FiniteSets, ThreadConstants

Threads == 0 .. TExpr - 1
Rows == 0 .. NExpr
Cells == Rows \X Rows

VARIABLES
  start_epoch, finished,
  dp,         \* dp[<<i, j>>]
  seen,       \* the epoch each thread took last, -1 before the first
  wpc,        \* "check", "sleep", "compute", "count" or "exited"
  todo,       \* the rows a thread has still to compute in its epoch
  mpc,        \* "fill", "announce", "sleep", "recheck", "stop", "join", "done"
  epoch,      \* main's j
  result_val, \* what main prints
  early       \* history: threads that took epoch 0

workerVars == <<seen, wpc, todo>>
mainVars == <<mpc, epoch, result_val>>
vars == <<start_epoch, finished, dp, workerVars, mainVars, early>>

Init ==
  /\ start_epoch = 0 /\ finished = 0
  /\ dp = [c \in Cells |-> IF c[1] = 0 THEN 1 ELSE 0]
  /\ seen = [t \in Threads |-> -1]
  /\ wpc = [t \in Threads |-> "check"]
  /\ todo = [t \in Threads |-> {}]
  /\ mpc = "fill" /\ epoch = 1 /\ result_val = 0
  /\ early = {}

----------------------------------------------------------------------------
\* The rows thread t computes in epoch j: those whose residue mod j is one of
\* t, t + TExpr, t + 2T, ... below j.  Main has filled the rows below j.
RowsOf(t, j) == {i \in j .. NExpr : (i % j) % TExpr = t}

\* The loops go through the residues one after the other, each upwards.
NextRow(S, j) ==
  CHOOSE i \in S : \A k \in S : i % j < k % j \/ (i % j = k % j /\ i <= k)

Check(t) ==
  /\ wpc[t] = "check"
  /\ \/ /\ seen[t] = start_epoch
        /\ wpc' = [wpc EXCEPT ![t] = "sleep"]
        /\ UNCHANGED <<seen, todo, early>>
     \/ /\ seen[t] # start_epoch /\ start_epoch < 0
        /\ wpc' = [wpc EXCEPT ![t] = "exited"]
        /\ UNCHANGED <<seen, todo, early>>
     \/ /\ seen[t] # start_epoch /\ start_epoch >= 0
        /\ seen' = [seen EXCEPT ![t] = start_epoch]
        /\ todo' = [todo EXCEPT ![t] = IF start_epoch = 0 THEN {} ELSE RowsOf(t, start_epoch)]
        /\ wpc' = [wpc EXCEPT ![t] = "compute"]
        /\ early' = IF start_epoch = 0 THEN early \cup {t} ELSE early
  /\ UNCHANGED <<start_epoch, finished, dp, mainVars>>

Compute(t) ==
  /\ wpc[t] = "compute"
  /\ IF todo[t] = {}
     THEN /\ wpc' = [wpc EXCEPT ![t] = "count"]
          /\ UNCHANGED <<dp, todo>>
     ELSE LET j == seen[t]
              i == NextRow(todo[t], j)
          IN  /\ dp' = [dp EXCEPT ![<<i, j>>] = (dp[<<i, j - 1>>] + dp[<<i - j, j>>]) % CellWord]
              /\ todo' = [todo EXCEPT ![t] = @ \ {i}]
              /\ UNCHANGED wpc
  /\ UNCHANGED <<start_epoch, finished, seen, mainVars, early>>

\* Exactly the TExpr-th thread wakes main.
Count(t) ==
  /\ wpc[t] = "count"
  /\ finished' = finished + 1
  /\ mpc' = IF finished' = TExpr /\ mpc = "sleep" THEN "recheck" ELSE mpc
  /\ wpc' = [wpc EXCEPT ![t] = "check"]
  /\ UNCHANGED <<start_epoch, dp, seen, todo, epoch, result_val, early>>

Worker(t) == Check(t) \/ Compute(t) \/ Count(t)

----------------------------------------------------------------------------
\* pthread_cond_broadcast(&cv_start)
WakeThreads ==
  wpc' = [t \in Threads |-> IF wpc[t] = "sleep" THEN "check" ELSE wpc[t]]

\* The rows 1 .. j-1 of column j are those of column j-1.
Fill ==
  /\ mpc = "fill"
  /\ epoch <= NExpr
  /\ dp' = [c \in Cells |->
              IF c[2] = epoch /\ c[1] \in 1 .. epoch - 1 THEN dp[<<c[1], epoch - 1>>] ELSE dp[c]]
  /\ mpc' = "announce"
  /\ UNCHANGED <<start_epoch, finished, workerVars, epoch, result_val, early>>

\* A slip: the count of the previous epoch stays.
AnnounceNoReset ==
  /\ mpc = "announce"
  /\ start_epoch' = epoch
  /\ WakeThreads
  /\ mpc' = IF finished < TExpr THEN "sleep" ELSE "recheck"
  /\ UNCHANGED <<finished, dp, seen, todo, epoch, result_val, early>>

Announce ==
  /\ mpc = "announce"
  /\ start_epoch' = epoch
  /\ finished' = 0
  /\ WakeThreads
  /\ mpc' = "sleep"
  /\ UNCHANGED <<dp, seen, todo, epoch, result_val, early>>

\* A slip: `if' in place of `while'.
RecheckOnce ==
  /\ mpc = "recheck"
  /\ mpc' = "fill" /\ epoch' = epoch + 1
  /\ UNCHANGED <<start_epoch, finished, dp, workerVars, result_val, early>>

\* Main wakes from the wait for finished = TExpr.
Recheck ==
  /\ mpc = "recheck"
  /\ IF finished < TExpr
     THEN mpc' = "sleep" /\ UNCHANGED epoch
     ELSE mpc' = "fill" /\ epoch' = epoch + 1
  /\ UNCHANGED <<start_epoch, finished, dp, workerVars, result_val, early>>

StopThreads ==
  /\ mpc = "fill"
  /\ epoch > NExpr
  /\ result_val' = dp[<<NExpr, NExpr - 1>>]
  /\ start_epoch' = -1
  /\ WakeThreads
  /\ mpc' = "join"
  /\ UNCHANGED <<finished, dp, seen, todo, epoch, early>>

Join ==
  /\ mpc = "join"
  /\ \A t \in Threads : wpc[t] = "exited"
  /\ mpc' = "done"
  /\ UNCHANGED <<start_epoch, finished, dp, workerVars, epoch, result_val, early>>

Main == Fill \/ Announce \/ Recheck \/ StopThreads \/ Join

\* POSIX lets a thread in pthread_cond_wait wake up without a signal.
SpuriousWakeup ==
  /\ \/ \E t \in Threads :
          wpc[t] = "sleep" /\ wpc' = [wpc EXCEPT ![t] = "check"] /\ UNCHANGED mpc
     \/ mpc = "sleep" /\ mpc' = "recheck" /\ UNCHANGED wpc
  /\ UNCHANGED <<start_epoch, finished, dp, seen, todo, epoch, result_val, early>>

Next == Main \/ SpuriousWakeup \/ \E t \in Threads : Worker(t)

Spec == Init /\ [][Next]_vars

\* Every thread that can take a step is scheduled again.
FairSpec == Spec /\ WF_vars(Main) /\ \A t \in Threads : WF_vars(Worker(t))

----------------------------------------------------------------------------
\* The variables hold values of their types.
TypeOK ==
  /\ start_epoch \in -1 .. NExpr /\ finished \in Nat
  /\ dp \in [Cells -> 0 .. CellWord - 1]
  /\ seen \in [Threads -> -1 .. NExpr]
  /\ wpc \in [Threads -> {"check", "sleep", "compute", "count", "exited"}]
  /\ todo \in [Threads -> SUBSET Rows]
  /\ mpc \in {"fill", "announce", "sleep", "recheck", "join", "done"}
  /\ epoch \in 1 .. NExpr + 1 /\ result_val \in 0 .. CellWord - 1
  /\ early \subseteq Threads

\* The number of ways to write i as a sum of numbers up to j, the numbers that
\* the table of debug_check holds, modulo CellWord too.
Ways[c \in Cells] ==
  IF c[1] = 0 THEN 1
  ELSE IF c[2] = 0 THEN 0
  ELSE Ways[<<c[1], c[2] - 1>>] + IF c[1] >= c[2] THEN Ways[<<c[1] - c[2], c[2]>>] ELSE 0

\* The barrier: unless a thread took epoch 0, main leaves an epoch only when no
\* thread is in it any more and all have been in it.
Released == early = {} /\ mpc \in {"fill", "announce", "join", "done"} /\ epoch > 1

Barrier == Released => \A t \in Threads : seen[t] = epoch - 1 /\ wpc[t] \in {"check", "sleep", "exited"}

\* Then every column main has left is the one debug_check compares it with,
\* wrapped where the numbers leave a cell.
ColumnsRight ==
  early = {} => \A c \in Cells : c[2] < epoch => dp[c] = Ways[c] % CellWord

\* What debug_check expects main to print.
Expected == Ways[<<NExpr, NExpr - 1>>] % CellWord

\* The program ends with the right number unless a thread took epoch 0.
Ended == (mpc = "done" /\ result_val = Expected) \/ early # {}

Ends == <>Ended

\* What the debug check expects of every run.
ResultRight == mpc \in {"join", "done"} => result_val = Expected
=============================================================================
