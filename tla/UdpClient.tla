------------------------------ MODULE UdpClient ------------------------------
(***************************************************************************)
(* udpclient.cpp: one process that uploads its file over UDP.              *)
(*                                                                         *)
(* A round of its loop sends every message that is not confirmed yet and   *)
(* then waits up to 100 ms for one ack datagram.  The loop ends when       *)
(* min(N, AckLen) messages are confirmed, however many the file has.       *)
(***************************************************************************)
EXTENDS UdpNet

VARIABLES
  cpc,       \* "off", "round", "wait" or "done" for each process
  confirmed  \* the array confirmed[] of each process, as a set of indices

clientVars == <<cpc, confirmed>>

ClientInit ==
  /\ cpc = [p \in Procs |-> "off"]
  /\ confirmed = [p \in Procs |-> {}]

Need(p) == IF Total[p] < AckLen THEN Total[p] ELSE AckLen

\* External: the process is started.  The operating system gives an address
\* to one running process at a time.
Launch(p) ==
  /\ cpc[p] = "off"
  /\ \A q \in Procs : AddrOf[q] = AddrOf[p] => cpc[q] \in {"off", "done"}
  /\ cpc' = [cpc EXCEPT ![p] = "round"]
  /\ UNCHANGED <<confirmed, netVars>>

\* A slip: one confirmation less is taken for enough.
FinishTooEarly(p) ==
  /\ cpc[p] = "round"
  /\ Cardinality(confirmed[p]) + 1 >= Need(p)
  /\ cpc' = [cpc EXCEPT ![p] = "done"]
  /\ UNCHANGED <<confirmed, netVars>>

Finish(p) ==
  /\ cpc[p] = "round"
  /\ Cardinality(confirmed[p]) >= Need(p)
  /\ cpc' = [cpc EXCEPT ![p] = "done"]
  /\ UNCHANGED <<confirmed, netVars>>

SendRound(p) ==
  /\ cpc[p] = "round"
  /\ Cardinality(confirmed[p]) < Need(p)
  /\ dgrams' = dgrams \cup {<<p, i>> : i \in Index(p) \ confirmed[p]}
  /\ cpc' = [cpc EXCEPT ![p] = "wait"]
  /\ UNCHANGED <<confirmed, acks>>

\* An id that is no index of this file is ignored.
ReceiveAck(p, k) ==
  /\ cpc[p] = "wait"
  /\ k \in acks
  /\ k.to = AddrOf[p]
  /\ acks' \in Consume(acks, k)
  /\ confirmed' = [confirmed EXCEPT ![p] = @ \cup (k.ids \cap Index(p))]
  /\ cpc' = [cpc EXCEPT ![p] = "round"]
  /\ UNCHANGED dgrams

Timeout(p) ==
  /\ cpc[p] = "wait"
  /\ cpc' = [cpc EXCEPT ![p] = "round"]
  /\ UNCHANGED <<confirmed, netVars>>

ClientNext(p) ==
  Launch(p) \/ Finish(p) \/ SendRound(p) \/ (\E k \in acks : ReceiveAck(p, k)) \/ Timeout(p)

ClientTypeOK ==
  /\ cpc \in [Procs -> {"off", "round", "wait", "done"}]
  /\ confirmed \in [Procs -> SUBSET Nat]
  /\ \A p \in Procs : confirmed[p] \subseteq Index(p)
=============================================================================
