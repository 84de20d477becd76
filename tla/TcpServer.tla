------------------------------ MODULE TcpServer ------------------------------
(***************************************************************************)
(* tcpserver.cpp: the single-threaded server of the upload over TCP.       *)
(*                                                                         *)
(* A turn of its loop waits for the events of the listening socket and of  *)
(* the clients' sockets, and serves the signalled event with the lowest    *)
(* index.  The event of the listening socket has index 0 and is never      *)
(* reset, so from the first connection on every wait ends with index 0:    *)
(* the branch for the clients' events (l. 249-264) is never entered, and a *)
(* client is served when it is accepted or not at all (ClientsUnheard).    *)
(* A turn that accepts nothing changes nothing and is left out.            *)
(***************************************************************************)
EXTENDS TcpNet

CONSTANTS
  MaxSlots,      \* 63: entries of g_clients[] for clients, 1 .. 63
  FopenOutcomes, \* the results fopen("msg.txt") may have
  NoClient

ASSUME TcpServerAssumption ==
  /\ MaxSlots \in Nat \ {0}
  /\ FopenOutcomes \subseteq BOOLEAN /\ FopenOutcomes # {}
  /\ NoClient \notin Clients

VARIABLES
  spc,    \* "start", "wait", "peek", "read", "shutdown" or "off"
  slot,   \* the entry that is being served
  slots,  \* the client of each entry, the active ones
  log,    \* the indices of the messages in msg.txt, for each client in order
  missed, \* history: clients whose command was not there when they were accepted
  lost    \* history: clients an ok was lost for, by full buffers

serverVars == <<spc, slot, slots, log, missed, lost>>

Slots == 1 .. MaxSlots

ServerInit ==
  /\ spc = "start" /\ slot = 0
  /\ slots = [s \in Slots |-> NoClient]
  /\ log = [p \in Clients |-> <<>>]
  /\ missed = {} /\ lost = {}

Active == {s \in Slots : slots[s] # NoClient}

\* socket, bind, listen.
Listen ==
  /\ spc = "start" /\ spc' = "wait"
  /\ UNCHANGED <<slot, slots, log, missed, lost, netVars>>

Listening == spc \notin {"start", "off"}

\* The wait times out before the first connection.  WSA_WAIT_TIMEOUT is taken
\* for index 258: what lies behind g_clients[] is read, which changes nothing
\* (and is left out) or ends the process.
WildRead ==
  /\ spc = "wait" /\ ~signalled
  /\ spc' = "off"
  /\ UNCHANGED <<slot, slots, log, missed, lost, netVars>>

\* A slip: the search for a free entry begins at the end.
LastFree == IF Active = Slots THEN 0 ELSE CHOOSE s \in Slots \ Active : \A t \in Slots \ Active : t <= s

\* A slip: the search goes one too far.
FirstFreeBeyond ==
  IF Active = Slots THEN MaxSlots + 1 ELSE CHOOSE s \in Slots \ Active : \A t \in Slots \ Active : s <= t

\* The first entry that is not active, 0 if all are.
FirstFree == IF Active = Slots THEN 0 ELSE CHOOSE s \in Slots \ Active : \A t \in Slots \ Active : s <= t

\* The client that is served.
Served == slots[slot]

AcceptClient ==
  /\ spc = "wait" /\ signalled /\ backlog # <<>>
  /\ FirstFree # 0
  /\ backlog' = Tail(backlog)
  /\ slot' = FirstFree
  /\ slots' = [slots EXCEPT ![FirstFree] = Head(backlog)]
  /\ spc' = "peek"
  /\ UNCHANGED <<log, missed, lost, signalled, stream, oks, clientClosed, serverClosed>>

\* "Too many clients, rejecting."
Reject ==
  /\ spc = "wait" /\ signalled /\ backlog # <<>>
  /\ FirstFree = 0
  /\ backlog' = Tail(backlog)
  /\ ServerCloses({Head(backlog)})
  /\ UNCHANGED <<spc, slot, slots, log, missed, lost, signalled, clientClosed>>

\* pump_client_read: recv with MSG_PEEK finds nothing that has arrived, or
\* something else than "put".  The client stays active and is left for an
\* event that will not be served.
PeekNothing ==
  /\ spc = "peek"
  /\ missed' = missed \cup {Served}
  /\ spc' = "wait" /\ slot' = 0
  /\ UNCHANGED <<slots, log, lost, netVars>>

PeekPut ==
  /\ spc = "peek"
  /\ stream[Served] # <<>> /\ Head(stream[Served]).command = "put"
  /\ stream' = [stream EXCEPT ![Served] = Tail(@)]
  /\ spc' = "read"
  /\ UNCHANGED <<slot, slots, log, missed, lost, backlog, signalled, oks, clientClosed, serverClosed>>

\* The message at the head of the stream of the client that is served, all of
\* it arrived; recv_full waits for it as long as it takes.
Upcoming == Head(stream[Served])

Readable == spc = "read" /\ stream[Served] # <<>>

\* A message with a text is stored if the file can be opened, and ok is sent in
\* any case, unless the socket's buffers are full; "stop" ends the loop.
ReadMessage(opened) ==
  /\ Readable /\ Upcoming.text # "empty"
  /\ stream' = [stream EXCEPT ![Served] = Tail(@)]
  /\ log' = IF opened THEN [log EXCEPT ![Served] = Append(@, Upcoming.index)] ELSE log
  /\ IF oks[Served] < OkRoom
     THEN oks' = [oks EXCEPT ![Served] = @ + 1] /\ UNCHANGED lost
     ELSE lost' = lost \cup {Served} /\ UNCHANGED oks
  /\ spc' = IF Upcoming.text = "stop" THEN "shutdown" ELSE "read"
  /\ UNCHANGED <<slot, slots, missed, backlog, signalled, clientClosed, serverClosed>>

\* client_close
CloseServed ==
  /\ slots' = [slots EXCEPT ![slot] = NoClient]
  /\ ServerCloses({Served})
  /\ spc' = "wait" /\ slot' = 0
  /\ UNCHANGED <<log, missed, lost, backlog, signalled, clientClosed>>

\* A slip: an empty text is acknowledged before the connection is closed.
ReadEmptyAcked ==
  /\ Readable /\ Upcoming.text = "empty"
  /\ slots' = [slots EXCEPT ![slot] = NoClient]
  /\ serverClosed' = serverClosed \cup {Served}
  /\ stream' = [stream EXCEPT ![Served] = <<>>]
  /\ oks' = [oks EXCEPT ![Served] = IF @ < OkRoom THEN @ + 1 ELSE @]
  /\ spc' = "wait" /\ slot' = 0
  /\ UNCHANGED <<log, missed, lost, backlog, signalled, clientClosed>>

\* recv_full of no bytes returns 0, which is taken for the end of the stream:
\* a message without text ends the connection, unstored and without an ok.
ReadEmpty == Readable /\ Upcoming.text = "empty" /\ CloseServed

\* The end of the stream.
ReadEnd == spc = "read" /\ stream[Served] = <<>> /\ Served \in clientClosed /\ CloseServed

\* A slip: the connections nobody has accepted are forgotten.
ShutdownForgetful ==
  /\ spc = "shutdown"
  /\ ServerCloses({slots[s] : s \in Active})
  /\ backlog' = <<>>
  /\ slots' = [s \in Slots |-> NoClient] /\ slot' = 0
  /\ spc' = "off"
  /\ UNCHANGED <<log, missed, lost, signalled, clientClosed>>

\* clients_close_all, and the end of the process.
Shutdown ==
  /\ spc = "shutdown"
  /\ ServerCloses({slots[s] : s \in Active} \cup {backlog[k] : k \in DOMAIN backlog})
  /\ backlog' = <<>>
  /\ slots' = [s \in Slots |-> NoClient] /\ slot' = 0
  /\ spc' = "off"
  /\ UNCHANGED <<log, missed, lost, signalled, clientClosed>>

ServerStep ==
  \/ Listen \/ AcceptClient \/ Reject \/ PeekNothing \/ PeekPut
  \/ (\E opened \in FopenOutcomes : ReadMessage(opened)) \/ ReadEmpty \/ ReadEnd \/ Shutdown

ServerTypeOK ==
  /\ spc \in {"start", "wait", "peek", "read", "shutdown", "off"}
  /\ slot \in Slots \cup {0}
  /\ slots \in [Slots -> Clients \cup {NoClient}]
  /\ log \in [Clients -> Seq(Nat)]
  /\ missed \subseteq Clients /\ lost \subseteq Clients
=============================================================================
