------------------------------ MODULE TcpUpload ------------------------------
(***************************************************************************)
(* The upload over TCP: tcpserver.cpp, several processes of tcpclient.cpp  *)
(* and tcpclient2.cpp, and the connections between them.                   *)
(***************************************************************************)
EXTENDS TcpServer, TcpClient

vars == <<netVars, serverVars, clientVars>>

Init == NetInit /\ ServerInit /\ ClientInit

Server == ServerStep /\ UNCHANGED clientVars

ServerDies == WildRead /\ UNCHANGED clientVars

Client(p) == ClientStep(p, Listening) /\ UNCHANGED serverVars

ClientDies(p) == Kill(p) /\ UNCHANGED serverVars

Next == Server \/ ServerDies \/ \E p \in Clients : Client(p) \/ ClientDies(p)

Spec == Init /\ [][Next]_vars

\* The processes keep running, and what was sent arrives.  Nothing is assumed
\* of how fast: a command need not have arrived when its client is accepted.
FairSpec == Spec /\ WF_vars(Server) /\ \A p \in Clients : WF_vars(Client(p))

----------------------------------------------------------------------------
\* The variables hold values of their types; no entry outside of g_clients[] is
\* used.
TypeOK == NetTypeOK /\ ServerTypeOK /\ ClientTypeOK

\* Every ok stands for a line in msg.txt (pump_client_read), whichever end is
\* closed or killed: a client's lines are its first messages, in order and once
\* each, and there are at least as many as it has received oks or has on the way.
OksAreStored ==
  \A p \in Clients :
    /\ \A k \in DOMAIN log[p] : log[p][k] = k - 1
    /\ got[p] + oks[p] <= Len(log[p])

\* A client that uploads and ends with exit code 0 has its whole file in msg.txt.
DoneIsStored ==
  \A p \in Clients : cpc[p] = "done" /\ Command[p] = "put" => Len(log[p]) >= Len(Sends[p])

\* The entries in use are the first ones, so the array given to the wait has no
\* closed event in it, which would end the server (server_loop, event_count and
\* g_events; client_close leaves the closed event there).  And the event of the
\* listening socket is set as long as a client is active: no client event is
\* ever the lowest.
ClientsUnheard ==
  /\ \A s \in Active : 1 .. s - 1 \subseteq Active
  /\ Active # {} => signalled

\* Every process ends, unless the server has not heard it, or has lost an ok for
\* somebody.
HeardClientsEnd ==
  \A p \in Clients : <>(cpc[p] \in {"done", "failed"} \/ p \in missed \/ lost # {})

\* Every process ends.
ClientsEnd == \A p \in Clients : <>(cpc[p] \in {"done", "failed"})
=============================================================================
