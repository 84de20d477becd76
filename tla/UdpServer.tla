------------------------------ MODULE UdpServer ------------------------------
(***************************************************************************)
(* udpserver.cpp: the single-threaded server of the upload over UDP.       *)
(*                                                                         *)
(* Each turn of its loop waits for readable sockets (Select), serves one   *)
(* datagram of each readable socket in the order of the ports (Serve),     *)
(* and drops the clients that were silent too long (Cleanup).              *)
(*                                                                         *)
(* `known', `ids' and `idle' are the table clients[]: who is in it, the    *)
(* history ids[] of each entry, and the time since last_active.  `log'     *)
(* counts the lines of msg.txt per message; the file survives the server.  *)
(***************************************************************************)
EXTENDS UdpNet

CONSTANTS
  MaxClients,    \* 256: entries of clients[]
  MaxHistory,    \* 128: ids kept per entry
  IdleLimit,     \* 30 s: silence after which an entry is dropped, in ticks
  FopenOutcomes, \* the results fopen("msg.txt") may have
  MaxCopies      \* bound: lines of msg.txt per message

ASSUME UdpServerAssumption ==
  /\ MaxClients \in Nat \ {0}
  /\ MaxHistory \in Nat \ {0}
  /\ IdleLimit \in Nat
  /\ MaxCopies \in Nat \ {0}
  /\ FopenOutcomes \subseteq BOOLEAN /\ FopenOutcomes # {}

VARIABLES
  spc,   \* where the server is: "select", "serve", "cleanup" or "off"
  running, \* the flag of the main loop
  ready, \* the sockets select reported and the loop has not reached yet
  known, ids, idle,
  log

tableVars == <<known, ids, idle>>
serverVars == <<spc, running, ready, known, ids, idle, log>>

ServerInit ==
  /\ spc = "select" /\ running = TRUE /\ ready = {}
  /\ known = {}
  /\ ids = [a \in Addrs |-> <<>>]
  /\ idle = [a \in Addrs |-> 0]
  /\ log = [m \in MsgIds |-> 0]

----------------------------------------------------------------------------
\* Slips of Remember the properties must tell from it: the array overrun by
\* one, and one entry of it never used.
RememberOverrun(s, i) ==
  IF Len(s) <= MaxHistory THEN Append(s, i) ELSE Append(Tail(s), i)

RememberTooFew(s, i) ==
  IF Len(s) < MaxHistory - 1 THEN Append(s, i) ELSE Append(Tail(s), i)

\* add_id: a full history forgets its oldest id.
Remember(s, i) ==
  IF Len(s) < MaxHistory THEN Append(s, i) ELSE Append(Tail(s), i)

\* A slip: the ack lists one id less than the client needs.
NewestTooFew(s) == {s[i] : i \in {j \in DOMAIN s : j > Len(s) - AckLen + 1}}

\* send_ack: the newest AckLen ids of a history.
Newest(s) == {s[i] : i \in {j \in DOMAIN s : j > Len(s) - AckLen}}

\* find_or_add_client: does the sender have, or can it get, an entry?
HasEntry(a) == a \in known \/ Cardinality(known) < MaxClients

\* Only the entries of S stay; what is not in the table has no history, so
\* that a later entry of the same client starts from nothing (memset).
Keep(S) ==
  /\ known' = S
  /\ ids' = [a \in Addrs |-> IF a \in S THEN ids[a] ELSE <<>>]
  /\ idle' = [a \in Addrs |-> IF a \in S THEN idle[a] ELSE 0]

Select ==
  /\ spc = "select"
  /\ \E R \in SUBSET {PortOf[m[1]] : m \in dgrams} :
       /\ ready' = R
       /\ spc' = IF R = {} THEN "cleanup" ELSE "serve"
  /\ UNCHANGED <<running, tableVars, log, netVars>>

\* Leaving the socket p: on to the next ready one, or to the cleanup.
Advance(p) ==
  /\ ready' = ready \ {p}
  /\ spc' = IF ready = {p} THEN "cleanup" ELSE "serve"

NextSocket(p) == p \in ready /\ \A q \in ready : p <= q

\* recvfrom failed or the datagram is too short: the loop continues.
ServeNothing ==
  /\ spc = "serve"
  /\ \E p \in ready : NextSocket(p) /\ Advance(p)
  /\ UNCHANGED <<running, tableVars, log, netVars>>

\* A slip: a client without an entry is acknowledged all the same.
ServeNoEntryAcked(m) ==
  /\ spc = "serve"
  /\ m \in dgrams
  /\ NextSocket(PortOf[m[1]])
  /\ ~HasEntry(AddrOf[m[1]])
  /\ dgrams' \in Consume(dgrams, m)
  /\ Advance(PortOf[m[1]])
  /\ acks' = acks \cup {Ack(AddrOf[m[1]], {m[2]})}
  /\ UNCHANGED <<running, tableVars, log>>

\* The table is full: the datagram is dropped without an ack.
ServeNoEntry(m) ==
  /\ spc = "serve"
  /\ m \in dgrams
  /\ NextSocket(PortOf[m[1]])
  /\ ~HasEntry(AddrOf[m[1]])
  /\ dgrams' \in Consume(dgrams, m)
  /\ Advance(PortOf[m[1]])
  /\ UNCHANGED <<running, tableVars, log, acks>>

\* The id is recorded before the file is opened: when that fails, the message
\* is acknowledged like any other but never written.
ServeEntry(m, opened) ==
  LET a == AddrOf[m[1]]
      p == PortOf[m[1]]
      new == m[2] \notin Range(ids[a])
      hist == IF new THEN Remember(ids[a], m[2]) ELSE ids[a]
  IN  /\ spc = "serve"
      /\ m \in dgrams
      /\ NextSocket(p)
      /\ HasEntry(a)
      /\ new /\ opened => log[m] < MaxCopies
      /\ dgrams' \in Consume(dgrams, m)
      /\ known' = known \cup {a}
      /\ ids' = [ids EXCEPT ![a] = hist]
      /\ idle' = [idle EXCEPT ![a] = 0]
      /\ log' = [log EXCEPT ![m] = IF new /\ opened THEN @ + 1 ELSE @]
      /\ acks' = acks \cup {Ack(a, Newest(hist))}
      /\ IF m \in StopMsgs
         THEN running' = FALSE /\ ready' = {} /\ spc' = "cleanup"
         ELSE UNCHANGED running /\ Advance(p)

Serve(m) == ServeNoEntry(m) \/ \E opened \in FopenOutcomes : ServeEntry(m, opened)

\* A slip: an entry is dropped one tick too early.
CleanupTooEarly ==
  /\ spc = "cleanup"
  /\ Keep({a \in known : idle[a] < IdleLimit})
  /\ spc' = IF running THEN "select" ELSE "off"
  /\ UNCHANGED <<running, ready, log, netVars>>

\* cleanup_clients, then the test of the main loop.
Cleanup ==
  /\ spc = "cleanup"
  /\ Keep({a \in known : idle[a] <= IdleLimit})
  /\ spc' = IF running THEN "select" ELSE "off"
  /\ UNCHANGED <<running, ready, log, netVars>>

ServerNext == Select \/ ServeNothing \/ (\E m \in dgrams : Serve(m)) \/ Cleanup

----------------------------------------------------------------------------
\* External: time passes, the process is killed, and it is started again with
\* an empty table.
Tick ==
  /\ \E a \in known : idle[a] <= IdleLimit
  /\ idle' = [a \in Addrs |->
                IF a \in known /\ idle[a] <= IdleLimit THEN idle[a] + 1 ELSE idle[a]]
  /\ UNCHANGED <<spc, running, ready, known, ids, log, netVars>>

Crash ==
  /\ spc # "off"
  /\ spc' = "off" /\ running' = FALSE /\ ready' = {} /\ Keep({})
  /\ UNCHANGED <<log, netVars>>

Start ==
  /\ spc = "off"
  /\ spc' = "select" /\ running' = TRUE /\ ready' = {} /\ Keep({})
  /\ UNCHANGED <<log, netVars>>

\* The table stays inside the arrays clients[] and ids[].
ServerTypeOK ==
  /\ spc \in {"select", "serve", "cleanup", "off"}
  /\ running \in BOOLEAN
  /\ ready \subseteq Ports
  /\ known \subseteq Addrs
  /\ Cardinality(known) <= MaxClients
  /\ ids \in [Addrs -> Seq(Nat)]
  /\ \A a \in Addrs : Len(ids[a]) <= MaxHistory
  /\ idle \in [Addrs -> Nat]
  /\ log \in [MsgIds -> Nat]
=============================================================================
