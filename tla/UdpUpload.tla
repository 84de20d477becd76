------------------------------ MODULE UdpUpload ------------------------------
(***************************************************************************)
(* The upload over UDP: udpserver.cpp, several udpclient.cpp processes and *)
(* the network between them.                                               *)
(***************************************************************************)
EXTENDS UdpServer, UdpClient

CONSTANTS
  CanIdle,  \* may more than 30 s pass between two datagrams of a client?
  CanCrash  \* may the server be killed and started again?

ASSUME UdpUploadAssumption == CanIdle \in BOOLEAN /\ CanCrash \in BOOLEAN

vars == <<netVars, serverVars, clientVars>>

Init ==
  /\ dgrams = {} /\ acks = {}
  /\ ServerInit
  /\ ClientInit

Server == ServerNext /\ UNCHANGED clientVars

Client(p) == ClientNext(p) /\ UNCHANGED serverVars

Network == Lose /\ UNCHANGED <<serverVars, clientVars>>

Environment ==
  /\ \/ CanIdle /\ Tick
     \/ CanCrash /\ (Crash \/ Start)
  /\ UNCHANGED clientVars

Next == Server \/ (\E p \in Procs : Client(p)) \/ Network \/ Environment

Spec == Init /\ [][Next]_vars

\* A waiting client gets an ack that lists what it has no confirmation of, a "stop" apart.
ReceiveNews(p) ==
  \E k \in acks :
    /\ \E i \in k.ids \ confirmed[p] : <<p, i>> \notin StopMsgs
    /\ ReceiveAck(p, k)

(***************************************************************************)
(* Fairness.  The loops of the server and of a client have no blocking     *)
(* call without a timeout, so both keep going; select reports a socket     *)
(* that stays readable.  Of the network it is assumed that it loses any    *)
(* finite number of datagrams and acks, and that what keeps being in       *)
(* flight arrives: a datagram at a ready socket, one of the acks with news *)
(* at a waiting client.  Nothing is assumed of silences and restarts, nor  *)
(* of a "stop", which may never arrive, or overtake everything else: an    *)
(* upload has to end by its other messages.                                *)
(***************************************************************************)
Fairness ==
  /\ WF_vars(Server)
  /\ \A p \in Ports : SF_vars(Select /\ p \in ready' /\ UNCHANGED clientVars)
  /\ \A m \in MsgIds \ StopMsgs : SF_vars(Serve(m) /\ UNCHANGED clientVars)
  /\ \A p \in Procs :
       /\ WF_vars((Launch(p) \/ SendRound(p) \/ Finish(p) \/ Timeout(p)) /\ UNCHANGED serverVars)
       /\ SF_vars(ReceiveNews(p) /\ UNCHANGED serverVars)
  /\ <>[][~Lose]_netVars

FairSpec == Spec /\ Fairness

----------------------------------------------------------------------------
\* The variables hold values of their types; neither the table of clients nor
\* a history outgrows its array.
TypeOK == NetTypeOK /\ ServerTypeOK /\ ClientTypeOK

\* No acknowledgement without a line in msg.txt (udpserver.cpp, main: send_ack
\* follows the fprintf; udpclient.cpp, main: confirmed[id] = 1).  Whatever the
\* network loses, repeats or reorders, whatever the server forgets by overflow
\* of a history, by its cleanup or by a restart, and however old the ack is.
ConfirmedLogged ==
  \A p \in Procs : \A i \in confirmed[p] : log[<<p, i>>] > 0

\* Retransmissions and duplicated datagrams add no line to msg.txt
\* (udpserver.cpp, id_seen): no message is there twice.
LoggedOnce == \A m \in MsgIds : log[m] <= 1

\* A client that has ended had min(N, AckLen) of its messages written, whichever
\* they are (udpclient.cpp, main: the loop ends on that many confirmations).
FinishedStored ==
  \A p \in Procs :
    cpc[p] = "done" => Cardinality({i \in Index(p) : log[<<p, i>>] > 0}) >= Need(p)

\* Has p as many messages besides "stop" as it needs confirmed?
EnoughToSend(p) == Cardinality({i \in Index(p) : <<p, i>> \notin StopMsgs}) >= Need(p)

\* Every client with enough of them ends, though it needs acks that list enough different
\* ids and an ack lists the newest only (udpclient.cpp, main; udpserver.cpp, send_ack),
\* unless a "stop" ends the server first.
EveryUploadEnds == <>(spc = "off" \/ \A p \in Procs : EnoughToSend(p) => cpc[p] = "done")

\* The upload implements its abstract specification.
Abs == INSTANCE UploadLog WITH
         stored <- log, left <- {p \in Procs : cpc[p] = "done"}, Enough <- AckLen

Refines == Abs!Spec
=============================================================================
