------------------------------ MODULE UploadLog ------------------------------
(***************************************************************************)
(* What the upload over UDP promises, without a network, histories, acks   *)
(* or retransmission: a message is stored at most once, a client learns    *)
(* that a message was accepted only after it was stored, and a client      *)
(* leaves only when enough of its messages are known to be stored.         *)
(***************************************************************************)
EXTENDS Integers, FiniteSets

CONSTANTS
  Procs, \* the clients
  Total, \* Total[p]: the number of messages of client p
  Enough \* how many confirmations satisfy a client that has that many messages

Messages == UNION {{p} \X (0 .. Total[p] - 1) : p \in Procs}

Required(p) == IF Total[p] < Enough THEN Total[p] ELSE Enough

VARIABLES
  stored,    \* the messages in the file
  confirmed, \* for each client, the indices it knows to be stored
  left       \* the clients that are finished

vars == <<stored, confirmed, left>>

Init ==
  /\ stored = [m \in Messages |-> 0]
  /\ confirmed = [p \in Procs |-> {}]
  /\ left = {}

Store(m) ==
  /\ stored[m] = 0
  /\ stored' = [stored EXCEPT ![m] = 1]
  /\ UNCHANGED <<confirmed, left>>

Learn(p, S) ==
  /\ p \notin left
  /\ \A i \in S : stored[<<p, i>>] = 1
  /\ confirmed' = [confirmed EXCEPT ![p] = @ \cup S]
  /\ UNCHANGED <<stored, left>>

Leave(p) ==
  /\ Cardinality(confirmed[p]) >= Required(p)
  /\ left' = left \cup {p}
  /\ UNCHANGED <<stored, confirmed>>

Next ==
  \/ \E m \in Messages : Store(m)
  \/ \E p \in Procs : Leave(p) \/ \E S \in SUBSET (0 .. Total[p] - 1) : Learn(p, S)

Spec == Init /\ [][Next]_vars
=============================================================================
