------------------------------ MODULE TcpClient ------------------------------
(***************************************************************************)
(* tcpclient.cpp and tcpclient2.cpp: one process that uploads its file     *)
(* over TCP (and, tcpclient2 only, asks for the stored messages).          *)
(*                                                                         *)
(* All messages are sent before the first ok is read.  tcpclient.cpp then  *)
(* sends a "stop" of its own.  A send is taken to find room in the buffers *)
(* of the socket.                                                          *)
(***************************************************************************)
EXTENDS TcpNet

CONSTANT Attempts \* 10: how often connect is tried

ASSUME TcpClientAssumption == Attempts \in Nat \ {0}

VARIABLES
  cpc,   \* "connect", "command", "send", "oks", "final", "get", "done", "failed"
  tries, \* attempts to connect that failed
  sent,  \* messages sent
  got    \* oks received

clientVars == <<cpc, tries, sent, got>>

ClientInit ==
  /\ cpc = [p \in Clients |-> "connect"]
  /\ tries = [p \in Clients |-> 0]
  /\ sent = [p \in Clients |-> 0]
  /\ got = [p \in Clients |-> 0]

At(p, from, to) == cpc[p] = from /\ cpc' = [cpc EXCEPT ![p] = to]

\* Process p ends and its socket is closed.
Ends(p, from, to) == At(p, from, to) /\ clientClosed' = clientClosed \cup {p}

Connect(p) ==
  /\ At(p, "connect", "command")
  /\ backlog' = Append(backlog, p) /\ signalled' = TRUE
  /\ UNCHANGED <<tries, sent, got, stream, oks, clientClosed, serverClosed>>

\* Nobody listens: the last attempt ends the process.
ConnectFails(p) ==
  /\ cpc[p] = "connect"
  /\ tries' = [tries EXCEPT ![p] = @ + 1]
  /\ cpc' = [cpc EXCEPT ![p] = IF tries'[p] = Attempts THEN "failed" ELSE "connect"]
  /\ UNCHANGED <<sent, got, netVars>>

SendCommand(p) ==
  /\ At(p, "command", IF Command[p] = "put" THEN "send" ELSE "get")
  /\ Transmit(p, Item(Command[p], 0, "text"))
  /\ UNCHANGED <<tries, sent, got, backlog, signalled, oks, clientClosed, serverClosed>>

SendMessage(p) ==
  /\ cpc[p] = "send" /\ sent[p] < Len(Sends[p])
  /\ Transmit(p, Item("message", sent[p], Sends[p][sent[p] + 1]))
  /\ sent' = [sent EXCEPT ![p] = @ + 1]
  /\ UNCHANGED <<cpc, tries, got, backlog, signalled, oks, clientClosed, serverClosed>>

\* The connection is gone: a send fails.
SendFails(p) ==
  /\ p \in serverClosed
  /\ Ends(p, "command", "failed") \/ Ends(p, "send", "failed")
  /\ UNCHANGED <<tries, sent, got, backlog, signalled, stream, oks, serverClosed>>

EndOfFile(p) ==
  /\ sent[p] = Len(Sends[p])
  /\ At(p, "send", "oks")
  /\ UNCHANGED <<tries, sent, got, netVars>>

\* wait_n_ok
ReceiveOk(p) ==
  /\ cpc[p] = "oks" /\ got[p] < sent[p] /\ oks[p] > 0
  /\ oks' = [oks EXCEPT ![p] = @ - 1]
  /\ got' = [got EXCEPT ![p] = @ + 1]
  /\ UNCHANGED <<cpc, tries, sent, backlog, signalled, stream, clientClosed, serverClosed>>

\* The connection is closed while an ok is waited for.
NoOk(p) ==
  /\ p \in serverClosed /\ oks[p] = 0 /\ got[p] < sent[p]
  /\ Ends(p, "oks", "failed")
  /\ UNCHANGED <<tries, sent, got, backlog, signalled, stream, oks, serverClosed>>

SendStop(p) ==
  /\ p \in Stops /\ got[p] = sent[p]
  /\ At(p, "oks", "final")
  /\ Transmit(p, Item("message", sent[p], "stop"))
  /\ UNCHANGED <<tries, sent, got, backlog, signalled, oks, clientClosed, serverClosed>>

\* The final ok arrives, or does not: the exit code is 0 either way, as it is
\* when the stop cannot be sent.
Final(p) ==
  /\ oks[p] > 0 \/ p \in serverClosed
  /\ Ends(p, "final", "done")
  /\ oks' = [oks EXCEPT ![p] = IF @ > 0 THEN @ - 1 ELSE @]
  /\ UNCHANGED <<tries, sent, got, backlog, signalled, stream, serverClosed>>

\* A slip: the oks are not waited for.
LeaveEarly(p) ==
  /\ p \notin Stops
  /\ Ends(p, "oks", "done")
  /\ UNCHANGED <<tries, sent, got, backlog, signalled, stream, oks, serverClosed>>

\* tcpclient2.cpp leaves when it has all its oks.
Leave(p) ==
  /\ p \notin Stops /\ got[p] = sent[p]
  /\ Ends(p, "oks", "done")
  /\ UNCHANGED <<tries, sent, got, backlog, signalled, stream, oks, serverClosed>>

\* run_get reads until the connection is closed; tcpserver.cpp sends nothing.
GetEnds(p) ==
  /\ p \in serverClosed
  /\ Ends(p, "get", "done")
  /\ UNCHANGED <<tries, sent, got, backlog, signalled, stream, oks, serverClosed>>

\* What p does by itself, given whether somebody listens.
ClientStep(p, listening) ==
  \/ listening /\ Connect(p)
  \/ ~listening /\ ConnectFails(p)
  \/ SendCommand(p) \/ SendMessage(p) \/ SendFails(p) \/ EndOfFile(p) \/ ReceiveOk(p)
  \/ NoOk(p) \/ SendStop(p) \/ Final(p) \/ Leave(p) \/ GetEnds(p)

\* External: the process is killed; the system closes its socket.
Kill(p) ==
  /\ cpc[p] \notin {"connect", "done", "failed"}
  /\ Ends(p, cpc[p], "failed")
  /\ UNCHANGED <<tries, sent, got, backlog, signalled, stream, oks, serverClosed>>

ClientTypeOK ==
  /\ cpc \in [Clients -> {"connect", "command", "send", "oks", "final", "get", "done", "failed"}]
  /\ tries \in [Clients -> 0 .. Attempts]
  /\ sent \in [Clients -> Nat] /\ got \in [Clients -> Nat]
=============================================================================
