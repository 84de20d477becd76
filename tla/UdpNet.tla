------------------------------- MODULE UdpNet -------------------------------
(***************************************************************************)
(* The messages of the upload over UDP, and the network that carries them. *)
(*                                                                         *)
(* A client process reads its file once (udpclient.cpp, load_messages) and *)
(* numbers the usable lines 0 .. N-1; a message is that process and index. *)
(* The server tells clients apart by "ip:port" only (udpserver.cpp, main), *)
(* so several processes may share one address, one after the other.        *)
(*                                                                         *)
(* The network is external.  An element of a set in flight stands for one  *)
(* or more copies of that datagram: a receive may leave it in flight (the  *)
(* network duplicated it, or the client sent it again), any element may be *)
(* lost, and elements are received in any order.                           *)
(***************************************************************************)
EXTENDS Integers, Sequences, FiniteSets, Functions

CONSTANTS
  Procs,    \* client processes
  AddrOf,   \* AddrOf[p]: the ip:port process p sends from
  PortOf,   \* PortOf[p]: the server port process p was told to send to
  Total,    \* Total[p]: N, the number of messages in the file of process p
  StopMsgs, \* the messages whose text is "stop"
  AckLen    \* 20: how many ids an ack carries, and how many a client needs

Addrs == Range(AddrOf)
Ports == Range(PortOf)

Index(p) == 0 .. Total[p] - 1

MsgIds == UNION {{p} \X Index(p) : p \in Procs}

ASSUME UdpNetAssumption ==
  /\ IsFiniteSet(Procs)
  /\ AddrOf \in [Procs -> Addrs]
  /\ PortOf \in [Procs -> Ports]
  /\ Ports \subseteq Nat
  /\ Total \in [Procs -> Nat]
  /\ StopMsgs \subseteq MsgIds
  /\ AckLen \in Nat \ {0}

VARIABLES
  dgrams, \* messages in flight to the server
  acks    \* acks in flight to an address: [to, ids]

netVars == <<dgrams, acks>>

Ack(a, S) == [to |-> a, ids |-> S]

Acks == [to : Addrs, ids : SUBSET Nat]

\* Receiving x from the set of elements in flight: other copies may remain.
Consume(S, x) == {S, S \ {x}}

LoseDatagram ==
  /\ \E m \in dgrams : dgrams' = dgrams \ {m}
  /\ UNCHANGED acks

LoseAck ==
  /\ \E k \in acks : acks' = acks \ {k}
  /\ UNCHANGED dgrams

Lose == LoseDatagram \/ LoseAck

NetTypeOK ==
  /\ dgrams \subseteq MsgIds
  /\ acks \subseteq Acks
=============================================================================
