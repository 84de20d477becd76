------------------------------- MODULE TcpNet -------------------------------
(***************************************************************************)
(* The connections of the upload over TCP.                                 *)
(*                                                                         *)
(* Every client process makes one connection, so connections are named by  *)
(* their clients.  TCP is external: it delivers what was sent, in order,   *)
(* after any delay.  A message is one item of a stream: of a message that  *)
(* is cut off, recv_full returns no more than of one that was not sent.    *)
(***************************************************************************)
EXTENDS Integers, Sequences, FiniteSets

CONSTANTS
  Clients,
  Command, \* Command[p]: "put" or "get"
  Sends,   \* Sends[p]: the texts of the usable lines of p's file, in order
  Stops,   \* the clients that are tcpclient.cpp: they end with a "stop"
  OkRoom   \* how many oks the socket buffers of a connection hold

Texts == {"text", "empty", "stop"}

ASSUME TcpNetAssumption ==
  /\ IsFiniteSet(Clients)
  /\ Command \in [Clients -> {"put", "get"}]
  /\ Sends \in [Clients -> Seq(Texts)]
  /\ Stops \subseteq {p \in Clients : Command[p] = "put"}
  /\ OkRoom \in Nat \ {0}

VARIABLES
  backlog,      \* connections made and not accepted yet, oldest first
  signalled,    \* the event of the listening socket, g_events[0]
  stream,       \* what each client has sent and the server has not read
  oks,          \* how many oks each client has yet to read
  clientClosed, \* the clients that have closed their end
  serverClosed  \* the connections the server has closed

netVars == <<backlog, signalled, stream, oks, clientClosed, serverClosed>>

Item(command, index, text) == [command |-> command, index |-> index, text |-> text]

Items == [command : {"put", "get", "message"}, index : Nat, text : Texts]

NetInit ==
  /\ backlog = <<>> /\ signalled = FALSE
  /\ stream = [p \in Clients |-> <<>>]
  /\ oks = [p \in Clients |-> 0]
  /\ clientClosed = {} /\ serverClosed = {}

\* p's item, unless the connection is closed at the other end.
Transmit(p, item) ==
  stream' = IF p \in serverClosed THEN stream ELSE [stream EXCEPT ![p] = Append(@, item)]

\* The server closes the connections S.  With unread data that is a reset,
\* which may destroy oks on their way.
ServerCloses(S) ==
  /\ serverClosed' = serverClosed \cup S
  /\ stream' = [p \in Clients |-> IF p \in S THEN <<>> ELSE stream[p]]
  /\ oks' \in {oks, [p \in Clients |-> IF p \in S /\ stream[p] # <<>> THEN 0 ELSE oks[p]]}

NetTypeOK ==
  /\ backlog \in Seq(Clients) /\ signalled \in BOOLEAN
  /\ stream \in [Clients -> Seq(Items)]
  /\ oks \in [Clients -> 0 .. OkRoom]
  /\ clientClosed \subseteq Clients /\ serverClosed \subseteq Clients
=============================================================================
