--------------------------- MODULE TcpUploadProofs ---------------------------
(***************************************************************************)
(* Proofs about TcpUpload, for any number of clients, any files, any       *)
(* number of entries and any buffers.                                      *)
(***************************************************************************)
EXTENDS TcpUpload, WellFoundedInduction, TLAPS

USE TcpNetAssumption, TcpServerAssumption, TcpClientAssumption
    DEF TcpNetAssumption, TcpServerAssumption, TcpClientAssumption

\* msg.txt can be opened.
FileOpens == FopenOutcomes = {TRUE}

----------------------------------------------------------------------------
(* The inductive invariant. *)

\* The entries in use are 1 .. k, the one that is served is the last of them,
\* and nobody is accepted before the event of the listening socket is set.
Entries ==
  /\ ClientsUnheard
  /\ backlog # <<>> => signalled
  /\ spc \in {"peek", "read"} => slot \in Active /\ \A s \in Active : s <= slot

\* A connection the server has not closed is in one place.
InPlace ==
  /\ \A p \in Clients : cpc[p] = "connect" => p \notin serverClosed
  /\ \A k \in DOMAIN backlog :
       /\ backlog[k] \notin serverClosed /\ cpc[backlog[k]] # "connect"
       /\ \A s \in Active : slots[s] # backlog[k]
  /\ \A j, k \in DOMAIN backlog : backlog[j] = backlog[k] => j = k
  /\ \A s \in Active : slots[s] \notin serverClosed /\ cpc[slots[s]] # "connect"
  /\ \A s, t \in Active : slots[s] = slots[t] => s = t

\* 1 if the command of p is still in the stream, 0 if not.
Cmd(p) == IF stream[p] # <<>> /\ stream[p][1].command # "message" THEN 1 ELSE 0

\* While p's connection is open, its stream holds its command, if nobody has
\* read it, and the messages that follow those in msg.txt.
InStep(p) ==
  p \notin serverClosed =>
    /\ cpc[p] \in {"connect", "command"} => stream[p] = <<>> /\ log[p] = <<>> /\ sent[p] = 0
    /\ \A k \in DOMAIN stream[p] :
         /\ k > Cmd(p) => stream[p][k].command = "message"
         /\ stream[p][k].command = "message" => stream[p][k].index = Len(log[p]) + k - 1 - Cmd(p)
    /\ cpc[p] \in {"send", "oks"} => sent[p] = Len(log[p]) + Len(stream[p]) - Cmd(p)

Streams == \A p \in Clients : InStep(p)

\* The one that is served has had its command read.
Reading ==
  spc = "read" => Cmd(slots[slot]) = 0 /\ cpc[slots[slot]] \notin {"connect", "command"}

\* What a client has sent when it comes to the oks, and what it has received
\* when it goes on; the attempts it has left.
Progress(p) ==
  /\ cpc[p] = "connect" => tries[p] < Attempts
  /\ cpc[p] = "oks" => sent[p] = Len(Sends[p])
  /\ cpc[p] = "get" => Command[p] = "get"
  /\ cpc[p] \in {"final", "done"} /\ Command[p] = "put" => got[p] = Len(Sends[p])

Advances == \A p \in Clients : Progress(p)

IInv ==
  TypeOK /\ Entries /\ InPlace /\ Streams /\ Reading /\ Advances /\ OksAreStored

LEMMA InitIInv == Init => IInv
<1> SUFFICES ASSUME Init PROVE IInv
  OBVIOUS
<1> USE DEF Init, NetInit, ServerInit, ClientInit
<1>1. TypeOK
  <2>1. NetTypeOK
    <3>1. stream \in [Clients -> Seq(Items)] /\ oks \in [Clients -> 0 .. OkRoom]
      OBVIOUS
    <3>2. backlog \in Seq(Clients) /\ clientClosed \subseteq Clients /\ serverClosed \subseteq Clients
      OBVIOUS
    <3>3. signalled \in BOOLEAN
      OBVIOUS
    <3>4. QED
      BY <3>1, <3>2, <3>3, Zenon DEF NetTypeOK
  <2>2. ServerTypeOK
    BY DEF ServerTypeOK
  <2>3. ClientTypeOK
    BY DEF ClientTypeOK
  <2>4. QED
    BY <2>1, <2>2, <2>3 DEF TypeOK
<1>2. Active = {}
  BY DEF Active
<1>3. Entries /\ InPlace
  BY <1>2 DEF Entries, ClientsUnheard, InPlace
<1>4. Streams
  BY DEF Streams, InStep, Cmd
<1>5. Reading /\ Advances /\ OksAreStored
  BY DEF Reading, Advances, Progress, OksAreStored
<1>6. QED
  BY <1>1, <1>3, <1>4, <1>5 DEF IInv

----------------------------------------------------------------------------
(* The steps of the clients. *)

\* A step of p that touches neither its stream nor its counts.
LEMMA ClientMoves ==
  ASSUME IInv, NEW p \in Clients, NEW c,
         cpc' = [cpc EXCEPT ![p] = c],
         c \in {"connect", "oks", "done", "failed"},
         c = "connect" => cpc[p] = "connect",
         c = "oks" => cpc[p] = "send" /\ sent[p] = Len(Sends[p]),
         c = "done" /\ Command[p] = "put" => got[p] = Len(Sends[p]),
         tries' \in [Clients -> 0 .. Attempts], clientClosed' \subseteq Clients,
         \A q \in Clients : cpc'[q] = "connect" => tries'[q] < Attempts,
         UNCHANGED <<serverVars, backlog, signalled, stream, oks, serverClosed, sent, got>>
  PROVE  IInv'
<1> USE DEF serverVars
<1>1. TypeOK'
  BY DEF IInv, TypeOK, NetTypeOK, ServerTypeOK, ClientTypeOK
<1>2. cpc \in [Clients -> {"connect", "command", "send", "oks", "final", "get", "done", "failed"}]
      /\ slots \in [Slots -> Clients \cup {NoClient}] /\ backlog \in Seq(Clients)
  BY DEF IInv, TypeOK, ClientTypeOK, ServerTypeOK, NetTypeOK
<1>3. Active' = Active
  BY DEF Active
<1>4. Entries'
  BY <1>3 DEF IInv, Entries, ClientsUnheard
<1>5. InPlace'
  <2>1. \A q \in Clients : cpc'[q] = "connect" => cpc[q] = "connect"
    BY <1>2
  <2>2. \A k \in DOMAIN backlog : backlog[k] \in Clients
    BY <1>2
  <2>3. \A s \in Active : slots[s] \in Clients
    BY <1>2 DEF Active
  <2>4. QED
    BY <1>3, <2>1, <2>2, <2>3 DEF IInv, InPlace
<1>6. Streams'
  <2> SUFFICES ASSUME NEW q \in Clients PROVE InStep(q)'
    BY DEF Streams
  <2>1. InStep(q) /\ Cmd(q)' = Cmd(q)
    BY DEF IInv, Streams, Cmd
  <2>2. \/ cpc'[q] = cpc[q]
        \/ cpc'[q] \in {"done", "failed"}
        \/ cpc'[q] = "oks" /\ cpc[q] = "send"
    BY <1>2
  <2>3. QED
    BY <2>1, <2>2 DEF InStep
<1>7. Reading'
  <2> SUFFICES ASSUME spc = "read" PROVE Reading'
    BY DEF Reading
  <2>1. slots[slot] \in Clients
    BY <1>2 DEF IInv, Entries, Active
  <2>2. Cmd(slots[slot])' = Cmd(slots[slot])
    BY DEF Cmd
  <2>3. QED
    BY <1>2, <2>1, <2>2 DEF IInv, Reading
<1>8. Advances'
  BY <1>2 DEF IInv, Advances, Progress
<1>9. OksAreStored'
  BY DEF IInv, OksAreStored
<1>10. QED
  BY <1>1, <1>4, <1>5, <1>6, <1>7, <1>8, <1>9 DEF IInv

\* The parts of the invariant by themselves.
LEMMA Parts ==
  IInv => /\ cpc \in [Clients -> {"connect", "command", "send", "oks", "final", "get", "done", "failed"}]
          /\ tries \in [Clients -> 0 .. Attempts]
          /\ sent \in [Clients -> Nat] /\ got \in [Clients -> Nat]
          /\ backlog \in Seq(Clients) /\ stream \in [Clients -> Seq(Items)]
          /\ oks \in [Clients -> 0 .. OkRoom] /\ log \in [Clients -> Seq(Nat)]
          /\ slots \in [Slots -> Clients \cup {NoClient}]
          /\ clientClosed \subseteq Clients /\ serverClosed \subseteq Clients
          /\ (\A s \in Active : slots[s] \in Clients) /\ (\A k \in DOMAIN backlog : backlog[k] \in Clients)
          /\ (spc = "read" => slots[slot] \in Clients)
          /\ Streams /\ Advances /\ OksAreStored
<1> SUFFICES ASSUME IInv
             PROVE  /\ cpc \in [Clients -> {"connect", "command", "send", "oks", "final", "get", "done", "failed"}]
                    /\ tries \in [Clients -> 0 .. Attempts]
                    /\ sent \in [Clients -> Nat] /\ got \in [Clients -> Nat]
                    /\ backlog \in Seq(Clients) /\ stream \in [Clients -> Seq(Items)]
                    /\ oks \in [Clients -> 0 .. OkRoom] /\ log \in [Clients -> Seq(Nat)]
                    /\ slots \in [Slots -> Clients \cup {NoClient}]
                    /\ clientClosed \subseteq Clients /\ serverClosed \subseteq Clients
                    /\ (\A s \in Active : slots[s] \in Clients) /\ (\A k \in DOMAIN backlog : backlog[k] \in Clients)
                    /\ (spc = "read" => slots[slot] \in Clients)
                    /\ Streams /\ Advances /\ OksAreStored
  OBVIOUS
<1>1. /\ slots \in [Slots -> Clients \cup {NoClient}] /\ backlog \in Seq(Clients)
  BY DEF IInv, TypeOK, ServerTypeOK, NetTypeOK
<1>2. \A s \in Active : slots[s] \in Clients
  BY <1>1 DEF Active
<1>3. \A k \in DOMAIN backlog : backlog[k] \in Clients
  BY <1>1
<1>4. spc = "read" => slots[slot] \in Clients
  BY <1>2 DEF IInv, Entries
<1>5. QED
  BY <1>1, <1>2, <1>3, <1>4 DEF IInv, TypeOK, ServerTypeOK, NetTypeOK, ClientTypeOK

\* A step that changes nothing of InStep but for p.
LEMMA StreamsOfOne ==
  ASSUME Streams, NEW p \in Clients, InStep(p)',
         \A q \in Clients \ {p} :
           /\ cpc'[q] = cpc[q] /\ stream'[q] = stream[q] /\ log'[q] = log[q] /\ sent'[q] = sent[q]
           /\ q \in serverClosed' <=> q \in serverClosed
  PROVE  Streams'
<1> SUFFICES ASSUME NEW q \in Clients \ {p} PROVE InStep(q)'
  BY DEF Streams
<1>1. InStep(q)
  BY DEF Streams
<1>2. Cmd(q)' = Cmd(q)
  BY DEF Cmd
<1>3. QED
  BY <1>1, <1>2 DEF InStep

\* A step of a connected p.
LEMMA ClientStays ==
  ASSUME IInv, NEW p \in Clients, NEW c, cpc' = [cpc EXCEPT ![p] = c],
         cpc[p] # "connect", c \notin {"connect", "command"},
         UNCHANGED <<serverVars, backlog, signalled, serverClosed>>,
         spc = "read" /\ slots[slot] = p => Cmd(p)' = 0,
         \A q \in Clients \ {p} : stream'[q] = stream[q]
  PROVE  Entries' /\ InPlace' /\ Reading'
<1> USE DEF serverVars
<1>1. Active' = Active
  BY DEF Active
<1>2. Entries'
  BY <1>1 DEF IInv, Entries, ClientsUnheard
<1>3. InPlace'
  BY <1>1, Parts DEF IInv, InPlace
<1>4. Reading'
  <2> SUFFICES ASSUME spc = "read" PROVE Reading'
    BY DEF Reading
  <2>1. slots[slot] \in Clients
    BY Parts
  <2>2. Cmd(slots[slot]) = 0 /\ cpc[slots[slot]] \notin {"connect", "command"}
    BY DEF IInv, Reading
  <2>3. slots[slot] # p => Cmd(slots[slot])' = Cmd(slots[slot])
    BY <2>1 DEF Cmd
  <2>4. Cmd(slots[slot])' = 0
    BY <2>2, <2>3 DEF Cmd
  <2>5. cpc'[slots[slot]] \notin {"connect", "command"}
    BY <2>1, <2>2, Parts
  <2>6. (cpc[slots[slot]])' \notin {"connect", "command"}
    BY <2>5
  <2>7. QED
    BY <2>4, <2>6 DEF Reading
<1>5. QED
  BY <1>2, <1>3, <1>4

LEMMA ConnectIInv == ASSUME IInv, NEW p \in Clients, Connect(p), UNCHANGED serverVars PROVE IInv'
<1> USE DEF Connect, At, serverVars
<1>1. cpc[p] = "connect" /\ cpc' = [cpc EXCEPT ![p] = "command"] /\ backlog' = Append(backlog, p)
  OBVIOUS
<1>2. Active' = Active
  BY DEF Active
<1>3. TypeOK'
  BY SMTT(30) DEF IInv, TypeOK, NetTypeOK, ServerTypeOK, ClientTypeOK
<1>4. Entries'
  BY <1>2 DEF IInv, Entries, ClientsUnheard
<1>5. InPlace'
  <2>1. p \notin serverClosed /\ \A s \in Active : slots[s] # p
    BY <1>1 DEF IInv, InPlace
  <2>2. \A k \in DOMAIN backlog : backlog[k] # p
    BY <1>1 DEF IInv, InPlace
  <2>3. \A k \in DOMAIN backlog' :
          \/ backlog'[k] = p /\ k = Len(backlog) + 1
          \/ k \in DOMAIN backlog /\ backlog'[k] = backlog[k]
    BY <1>1, Parts
  <2>4. \A q \in Clients : cpc'[q] = "connect" => cpc[q] = "connect"
    BY <1>1, Parts
  <2>5. \A q \in Clients : cpc[q] # "connect" \/ q = p => cpc'[q] # "connect"
    BY <1>1, Parts
  <2>6. \A k \in DOMAIN backlog' :
          /\ backlog'[k] \notin serverClosed /\ cpc'[backlog'[k]] # "connect"
          /\ \A s \in Active : slots[s] # backlog'[k]
    <3> SUFFICES ASSUME NEW k \in DOMAIN backlog'
                 PROVE  /\ backlog'[k] \notin serverClosed /\ cpc'[backlog'[k]] # "connect"
                        /\ \A s \in Active : slots[s] # backlog'[k]
      OBVIOUS
    <3>1. CASE backlog'[k] = p
      BY <2>1, <2>5, <3>1
    <3>2. CASE k \in DOMAIN backlog /\ backlog'[k] = backlog[k]
      <4>1. backlog[k] \in Clients
        BY <3>2, Parts
      <4>2. /\ backlog[k] \notin serverClosed /\ cpc[backlog[k]] # "connect"
            /\ \A s \in Active : slots[s] # backlog[k]
        BY <3>2 DEF IInv, InPlace
      <4>3. QED
        BY <2>5, <3>2, <4>1, <4>2
    <3>3. QED
      BY <2>3, <3>1, <3>2
  <2>7. \A j, k \in DOMAIN backlog' : backlog'[j] = backlog'[k] => j = k
    BY <2>2, <2>3 DEF IInv, InPlace
  <2>8. \A s \in Active : slots[s] \notin serverClosed /\ cpc'[slots[s]] # "connect"
    BY <2>5, Parts DEF IInv, InPlace
  <2>9. QED
    BY <1>2, <2>4, <2>6, <2>7, <2>8 DEF IInv, InPlace
<1>6. Streams'
  <2>1. InStep(p)'
    BY <1>1, Parts DEF Streams, InStep, Cmd
  <2>2. QED
    BY <2>1, StreamsOfOne, Parts
<1>7. Reading'
  <2> SUFFICES ASSUME spc = "read" PROVE Reading'
    BY DEF Reading
  <2>1. slots[slot] \in Clients /\ slots[slot] # p
    BY <1>1, Parts DEF IInv, Reading
  <2>2. Cmd(slots[slot])' = Cmd(slots[slot])
    BY DEF Cmd
  <2>3. QED
    BY <1>1, <2>1, <2>2, Parts DEF IInv, Reading
<1>8. Advances'
  BY <1>1, Parts DEF Advances, Progress
<1>9. OksAreStored'
  BY <1>1, Parts DEF OksAreStored
<1>10. QED
  BY <1>3, <1>4, <1>5, <1>6, <1>7, <1>8, <1>9 DEF IInv

LEMMA SendCommandIInv == ASSUME IInv, NEW p \in Clients, SendCommand(p), UNCHANGED serverVars PROVE IInv'
<1> DEFINE c == IF Command[p] = "put" THEN "send" ELSE "get"
           item == Item(Command[p], 0, "text")
<1>1. /\ cpc[p] = "command" /\ cpc' = [cpc EXCEPT ![p] = c]
      /\ stream' = IF p \in serverClosed THEN stream ELSE [stream EXCEPT ![p] = Append(@, item)]
      /\ UNCHANGED <<tries, sent, got, backlog, signalled, oks, clientClosed, serverClosed>>
      /\ UNCHANGED <<spc, slot, slots, log, missed, lost>>
  BY DEF SendCommand, At, Transmit, serverVars
<1>2. item \in Items /\ item.command # "message" /\ c \in {"send", "get"}
  BY DEF Item, Items, Texts
<1> HIDE DEF item, c
<1>3. TypeOK'
  <2>1. stream' \in [Clients -> Seq(Items)]
    BY <1>1, <1>2, Parts
  <2>2. cpc' \in [Clients -> {"connect", "command", "send", "oks", "final", "get", "done", "failed"}]
    BY <1>1, <1>2, Parts
  <2>3. QED
    BY <1>1, <2>1, <2>2 DEF IInv, TypeOK, NetTypeOK, ServerTypeOK, ClientTypeOK
<1>4. \A q \in Clients \ {p} : stream'[q] = stream[q] /\ cpc'[q] = cpc[q]
  BY <1>1, Parts
<1>5. Entries' /\ InPlace' /\ Reading'
  <2>1. ~(spc = "read" /\ slots[slot] = p)
    BY <1>1 DEF IInv, Reading
  <2>2. QED
    BY <1>1, <1>2, <1>4, <2>1, ClientStays DEF serverVars
<1>6. Streams'
  <2>1. CASE p \in serverClosed
    <3>1. InStep(p)'
      BY <1>1, <2>1 DEF InStep
    <3>2. QED
      BY <1>1, <1>4, <3>1, StreamsOfOne, Parts
  <2>2. CASE p \notin serverClosed
    <3>1. stream[p] = <<>> /\ log[p] = <<>> /\ sent[p] = 0
      BY <1>1, <2>2, Parts DEF Streams, InStep
    <3>2. stream'[p] = <<item>>
      BY <1>1, <2>2, <3>1, Parts
    <3>3. Cmd(p)' = 1
      BY <1>2, <3>2 DEF Cmd
    <3>4. InStep(p)'
      BY <1>1, <1>2, <3>1, <3>2, <3>3, Parts DEF InStep
    <3>5. QED
      BY <1>1, <1>4, <3>4, StreamsOfOne, Parts
  <2>3. QED
    BY <2>1, <2>2
<1>7. Advances'
  BY <1>1, <1>2, Parts DEF Advances, Progress, c
<1>8. OksAreStored'
  BY <1>1, <1>2, Parts DEF OksAreStored
<1>9. QED
  BY <1>3, <1>5, <1>6, <1>7, <1>8 DEF IInv

\* p's stream after p has sent a message with the next index.
LEMMA MessageSent ==
  ASSUME IInv, NEW p \in Clients, NEW text \in Texts, cpc[p] \in {"send", "oks"},
         Transmit(p, Item("message", sent[p], text)),
         UNCHANGED <<log, serverClosed>>
  PROVE  /\ stream' \in [Clients -> Seq(Items)]
         /\ \A q \in Clients \ {p} : stream'[q] = stream[q]
         /\ Cmd(p)' = Cmd(p)
         /\ p \notin serverClosed =>
              /\ Len(stream'[p]) = Len(stream[p]) + 1
              /\ \A k \in DOMAIN stream'[p] :
                   /\ k > Cmd(p) => stream'[p][k].command = "message"
                   /\ stream'[p][k].command = "message" =>
                        stream'[p][k].index = Len(log[p]) + k - 1 - Cmd(p)
<1> DEFINE item == Item("message", sent[p], text)
<1>1. item \in Items /\ item.command = "message" /\ item.index = sent[p]
  BY Parts DEF Item, Items
<1>2. stream' = IF p \in serverClosed THEN stream ELSE [stream EXCEPT ![p] = Append(@, item)]
  BY DEF Transmit
<1> HIDE DEF item
<1>3. stream' \in [Clients -> Seq(Items)] /\ \A q \in Clients \ {p} : stream'[q] = stream[q]
  BY <1>1, <1>2, Parts
<1>4. CASE p \in serverClosed
  BY <1>2, <1>3, <1>4 DEF Cmd
<1>5. CASE p \notin serverClosed
  <2>1. stream'[p] = Append(stream[p], item) /\ stream[p] \in Seq(Items)
    BY <1>2, <1>5, Parts
  <2>2. /\ Len(stream'[p]) = Len(stream[p]) + 1 /\ stream'[p] # <<>>
        /\ stream'[p][Len(stream[p]) + 1] = item
        /\ \A k \in DOMAIN stream[p] : stream'[p][k] = stream[p][k]
    BY <1>1, <2>1
  <2>3. Cmd(p)' = Cmd(p)
    <3>1. CASE stream[p] = <<>>
      BY <1>1, <2>2, <3>1 DEF Cmd
    <3>2. CASE stream[p] # <<>>
      <4>1. 1 \in DOMAIN stream[p]
        BY <2>1, <3>2
      <4>2. QED
        BY <2>2, <3>2, <4>1 DEF Cmd
    <3>3. QED
      BY <3>1, <3>2
  <2>4. InStep(p) /\ Len(log[p]) \in Nat /\ Cmd(p) \in {0, 1}
    BY Parts DEF Streams, Cmd
  <2>5. sent[p] = Len(log[p]) + Len(stream[p]) - Cmd(p)
    BY <1>5, <2>4 DEF InStep
  <2>6. ASSUME NEW k \in DOMAIN stream'[p]
        PROVE  /\ k > Cmd(p) => stream'[p][k].command = "message"
               /\ stream'[p][k].command = "message" =>
                    stream'[p][k].index = Len(log[p]) + k - 1 - Cmd(p)
    <3>1. k = Len(stream[p]) + 1 \/ k \in DOMAIN stream[p]
      BY <1>1, <2>1
    <3>2. CASE k = Len(stream[p]) + 1
      <4>1. stream'[p][k] = item
        BY <2>2, <3>2
      <4>2. sent[p] = Len(log[p]) + k - 1 - Cmd(p)
        BY <2>1, <2>4, <2>5, <3>2
      <4>3. QED
        BY <1>1, <4>1, <4>2
    <3>3. CASE k \in DOMAIN stream[p]
      BY <1>5, <2>2, <2>4, <3>3, SMTT(30) DEF InStep
    <3>4. QED
      BY <3>1, <3>2, <3>3
  <2>7. QED
    BY <1>3, <2>2, <2>3, <2>6
<1>6. QED
  BY <1>4, <1>5

\* When p has sent a message, whether one of the file or its stop.
LEMMA SentIInv ==
  ASSUME IInv, NEW p \in Clients, NEW text \in Texts, NEW c,
         cpc' = [cpc EXCEPT ![p] = c], sent' \in [Clients -> Nat],
         \A q \in Clients \ {p} : sent'[q] = sent[q],
         \/ cpc[p] = "send" /\ c = "send" /\ sent'[p] = sent[p] + 1
         \/ cpc[p] = "oks" /\ c = "final" /\ got[p] = Len(Sends[p]),
         Transmit(p, Item("message", sent[p], text)),
         UNCHANGED <<serverVars, tries, got, backlog, signalled, oks, clientClosed, serverClosed>>
  PROVE  IInv'
<1> USE DEF serverVars
<1>1. /\ stream' \in [Clients -> Seq(Items)]
      /\ \A q \in Clients \ {p} : stream'[q] = stream[q]
      /\ Cmd(p)' = Cmd(p)
      /\ p \notin serverClosed =>
           /\ Len(stream'[p]) = Len(stream[p]) + 1
           /\ \A k \in DOMAIN stream'[p] :
                /\ k > Cmd(p) => stream'[p][k].command = "message"
                /\ stream'[p][k].command = "message" =>
                     stream'[p][k].index = Len(log[p]) + k - 1 - Cmd(p)
  BY MessageSent
<1>2. TypeOK'
  <2>1. cpc' \in [Clients -> {"connect", "command", "send", "oks", "final", "get", "done", "failed"}]
    BY Parts
  <2>2. QED
    BY <1>1, <2>1 DEF IInv, TypeOK, NetTypeOK, ServerTypeOK, ClientTypeOK
<1>3. Entries' /\ InPlace' /\ Reading'
  <2>1. spc = "read" /\ slots[slot] = p => Cmd(p)' = 0
    BY <1>1 DEF IInv, Reading
  <2>2. QED
    BY <1>1, <2>1, ClientStays
<1>4. Streams'
  <2>1. InStep(p)'
    <3>1. InStep(p) /\ stream[p] \in Seq(Items) /\ Len(log[p]) \in Nat /\ Cmd(p) \in {0, 1}
      BY Parts DEF Streams, Cmd
    <3>2. cpc'[p] = c
      BY Parts
    <3>3. p \notin serverClosed /\ c = "send" => sent'[p] = Len(log[p]) + Len(stream'[p]) - Cmd(p)
      <4> SUFFICES ASSUME p \notin serverClosed, c = "send"
                   PROVE  sent'[p] = Len(log[p]) + Len(stream'[p]) - Cmd(p)
        OBVIOUS
      <4>1. cpc[p] = "send" /\ sent'[p] = sent[p] + 1
        OBVIOUS
      <4>2. sent[p] = Len(log[p]) + Len(stream[p]) - Cmd(p)
        BY <3>1, <4>1 DEF InStep
      <4>3. Len(stream'[p]) = Len(stream[p]) + 1 /\ Len(stream[p]) \in Nat
        BY <1>1, <3>1
      <4>4. QED
        BY ONLY <3>1, <4>1, <4>2, <4>3, SMTT(30)
    <3>4. QED
      BY <1>1, <3>2, <3>3 DEF InStep
  <2>2. \A q \in Clients \ {p} : cpc'[q] = cpc[q]
    BY Parts
  <2>3. QED
    BY <1>1, <2>1, <2>2, StreamsOfOne, Parts
<1>5. Advances'
  BY Parts DEF Advances, Progress
<1>6. OksAreStored'
  BY Parts DEF OksAreStored
<1>7. QED
  BY <1>2, <1>3, <1>4, <1>5, <1>6 DEF IInv

\* A step of p that reads an ok: of those it waits for, or the final one.
LEMMA OkReadIInv ==
  ASSUME IInv, NEW p \in Clients, NEW c \in {"oks", "done"},
         cpc' = [cpc EXCEPT ![p] = c], cpc[p] \in {"oks", "final"},
         c = "oks" => cpc[p] = "oks",
         c = "done" => cpc[p] = "final" /\ got' = got,
         oks' \in [Clients -> 0 .. OkRoom], got' \in [Clients -> Nat],
         \A q \in Clients \ {p} : got'[q] = got[q],
         \A q \in Clients : got'[q] + oks'[q] <= got[q] + oks[q],
         clientClosed' \subseteq Clients,
         UNCHANGED <<serverVars, tries, sent, backlog, signalled, stream, serverClosed>>
  PROVE  IInv'
<1> USE DEF serverVars
<1>1. TypeOK'
  <2>1. cpc' \in [Clients -> {"connect", "command", "send", "oks", "final", "get", "done", "failed"}]
    BY Parts
  <2>2. QED
    BY <2>1 DEF IInv, TypeOK, NetTypeOK, ServerTypeOK, ClientTypeOK
<1>2. Cmd(p)' = Cmd(p)
  BY DEF Cmd
<1>3. Entries' /\ InPlace' /\ Reading'
  <2>1. spc = "read" /\ slots[slot] = p => Cmd(p)' = 0
    BY <1>2 DEF IInv, Reading
  <2>2. QED
    BY <2>1, ClientStays
<1>4. Streams'
  <2>1. InStep(p) /\ cpc'[p] = c
    BY Parts DEF Streams
  <2>2. InStep(p)'
    BY <1>2, <2>1 DEF InStep
  <2>3. \A q \in Clients \ {p} : cpc'[q] = cpc[q]
    BY Parts
  <2>4. QED
    BY <2>2, <2>3, StreamsOfOne, Parts
<1>5. Advances'
  <2> SUFFICES ASSUME NEW q \in Clients PROVE Progress(q)'
    BY DEF Advances
  <2>1. Progress(q) /\ Progress(p)
    BY Parts DEF Advances
  <2>2. CASE q = p
    <3>1. cpc'[q] = c /\ (c = "done" => cpc[q] = "final" /\ got' = got)
      BY <2>2, Parts
    <3>2. CASE c = "done"
      BY <2>1, <2>2, <3>1, <3>2 DEF Progress
    <3>3. CASE c = "oks"
      <4>1. cpc[q] = "oks"
        BY <2>2, <3>3
      <4>2. QED
        BY <2>1, <2>2, <3>1, <3>3, <4>1 DEF Progress
    <3>4. QED
      BY <3>2, <3>3
  <2>3. CASE q # p
    <3>1. cpc'[q] = cpc[q] /\ got'[q] = got[q]
      BY <2>3, Parts
    <3>2. QED
      BY <2>1, <3>1 DEF Progress
  <2>4. QED
    BY <2>2, <2>3
<1>6. OksAreStored'
  <2>1. ASSUME NEW q \in Clients PROVE got'[q] + oks'[q] <= Len(log[q])
    <3>1. got[q] + oks[q] <= Len(log[q])
      BY Parts DEF OksAreStored
    <3>2. /\ got[q] \in Nat /\ got'[q] \in Nat
          /\ oks[q] \in 0 .. OkRoom /\ oks'[q] \in 0 .. OkRoom /\ Len(log[q]) \in Nat
      BY Parts
    <3>3. QED
      BY <3>1, <3>2
  <2>2. \A q \in Clients : \A k \in DOMAIN log[q] : log[q][k] = k - 1
    BY Parts DEF OksAreStored
  <2>3. QED
    BY <2>1, <2>2 DEF OksAreStored
<1>7. QED
  BY <1>1, <1>3, <1>4, <1>5, <1>6 DEF IInv

\* The end of the process p.
LEMMA ProcessEnds ==
  ASSUME IInv, NEW p \in Clients, NEW from, NEW to \in {"done", "failed"}, Ends(p, from, to),
         to = "done" /\ Command[p] = "put" => got[p] = Len(Sends[p]),
         UNCHANGED serverVars,
         UNCHANGED <<tries, sent, got, backlog, signalled, stream, oks, serverClosed>>
  PROVE  IInv'
<1>1. cpc' = [cpc EXCEPT ![p] = to] /\ clientClosed' = clientClosed \cup {p}
  BY DEF Ends, At
<1>2. tries' \in [Clients -> 0 .. Attempts] /\ clientClosed' \subseteq Clients
  BY <1>1, Parts
<1>3. UNCHANGED <<serverVars, backlog, signalled, stream, oks, serverClosed, sent, got>>
  OBVIOUS
<1>4. \A q \in Clients : cpc'[q] = "connect" => tries'[q] < Attempts
  BY <1>1, Parts DEF Advances, Progress
<1>5. QED
  BY <1>1, <1>2, <1>3, <1>4, ClientMoves

LEMMA ClientIInv == ASSUME IInv, NEW p \in Clients, Client(p) PROVE IInv'
<1>1. UNCHANGED serverVars
  BY DEF Client
<1>2. CASE Connect(p)
  BY <1>1, <1>2, ConnectIInv
<1>3. CASE ConnectFails(p)
  <2> DEFINE c == IF tries'[p] = Attempts THEN "failed" ELSE "connect"
  <2>1. /\ cpc[p] = "connect" /\ tries[p] < Attempts
        /\ tries' = [tries EXCEPT ![p] = @ + 1] /\ cpc' = [cpc EXCEPT ![p] = c]
    BY <1>3, Parts DEF ConnectFails, Advances, Progress
  <2>2. tries'[p] = tries[p] + 1 /\ tries[p] + 1 \in 0 .. Attempts
    BY <2>1, Parts
  <2>3. tries' \in [Clients -> 0 .. Attempts]
    BY <2>1, <2>2, Parts
  <2>4. ASSUME NEW q \in Clients, cpc'[q] = "connect" PROVE tries'[q] < Attempts
    <3>1. CASE q = p
      BY <2>1, <2>2, <2>4, <3>1, Parts, TcpClientAssumption
    <3>2. CASE q # p
      <4>1. cpc'[q] = cpc[q] /\ tries'[q] = tries[q]
        BY <2>1, <3>2, Parts
      <4>2. QED
        BY <2>4, <4>1, Parts DEF Advances, Progress
    <3>3. QED
      BY <3>1, <3>2
  <2>5. UNCHANGED <<serverVars, backlog, signalled, stream, oks, serverClosed, sent, got>>
    BY <1>1, <1>3 DEF ConnectFails, netVars
  <2>6. clientClosed' \subseteq Clients
    BY <1>3, Parts DEF ConnectFails, netVars
  <2>7. c \in {"failed", "connect"}
    OBVIOUS
  <2> HIDE DEF c
  <2>8. QED
    BY <2>1, <2>3, <2>4, <2>5, <2>6, <2>7, ClientMoves
<1>4. CASE SendCommand(p)
  BY <1>1, <1>4, SendCommandIInv
<1>5. CASE SendMessage(p)
  <2>1. Sends[p][sent[p] + 1] \in Texts
    BY <1>5, Parts DEF SendMessage
  <2>2. cpc' = [cpc EXCEPT ![p] = "send"]
    BY <1>5, Parts DEF SendMessage
  <2>3. sent' \in [Clients -> Nat] /\ sent'[p] = sent[p] + 1 /\ \A q \in Clients \ {p} : sent'[q] = sent[q]
    BY <1>5, Parts DEF SendMessage
  <2>4. QED
    BY <1>1, <1>5, <2>1, <2>2, <2>3, SentIInv DEF SendMessage
<1>6. CASE SendFails(p)
  <2>1. UNCHANGED <<tries, sent, got, backlog, signalled, stream, oks, serverClosed>>
    BY <1>6 DEF SendFails
  <2>2. Ends(p, "command", "failed") \/ Ends(p, "send", "failed")
    BY <1>6 DEF SendFails
  <2>3. QED
    BY <1>1, <2>1, <2>2, ProcessEnds
<1>7. CASE EndOfFile(p)
  <2>1. cpc[p] = "send" /\ cpc' = [cpc EXCEPT ![p] = "oks"] /\ sent[p] = Len(Sends[p])
    BY <1>7 DEF EndOfFile, At
  <2>2. UNCHANGED <<serverVars, backlog, signalled, stream, oks, serverClosed, sent, got>>
    BY <1>1, <1>7 DEF EndOfFile, netVars
  <2>3. tries' \in [Clients -> 0 .. Attempts] /\ clientClosed' \subseteq Clients
    BY <1>7, Parts DEF EndOfFile, netVars
  <2>4. \A q \in Clients : cpc'[q] = "connect" => tries'[q] < Attempts
    BY <1>7, <2>1, Parts DEF EndOfFile, Advances, Progress
  <2>5. QED
    BY <2>1, <2>2, <2>3, <2>4, ClientMoves
<1>8. CASE ReceiveOk(p)
  <2>1. cpc' = [cpc EXCEPT ![p] = "oks"] /\ cpc[p] = "oks"
    BY <1>8, Parts DEF ReceiveOk
  <2>2. /\ oks' \in [Clients -> 0 .. OkRoom] /\ got' \in [Clients -> Nat]
        /\ \A q \in Clients : got'[q] + oks'[q] <= got[q] + oks[q]
    <3>1. oks' = [oks EXCEPT ![p] = @ - 1] /\ got' = [got EXCEPT ![p] = @ + 1] /\ oks[p] > 0
      BY <1>8 DEF ReceiveOk
    <3>2. oks[p] - 1 \in 0 .. OkRoom /\ got[p] + 1 \in Nat
      BY <3>1, Parts
    <3>3. oks' \in [Clients -> 0 .. OkRoom] /\ got' \in [Clients -> Nat]
      BY <3>1, <3>2, Parts
    <3>4. ASSUME NEW q \in Clients PROVE got'[q] + oks'[q] <= got[q] + oks[q]
      <4>1. CASE q = p
        BY <3>1, <4>1, Parts
      <4>2. CASE q # p
        <5>1. got'[q] = got[q] /\ oks'[q] = oks[q]
          BY <3>1, <4>2, Parts
        <5>2. got[q] \in Nat /\ oks[q] \in Nat
          BY Parts
        <5>3. QED
          BY <5>1, <5>2
      <4>3. QED
        BY <4>1, <4>2
    <3>5. QED
      BY <3>3, <3>4
  <2>3. UNCHANGED <<serverVars, tries, sent, backlog, signalled, stream, serverClosed>>
        /\ \A q \in Clients \ {p} : got'[q] = got[q]
    BY <1>1, <1>8, Parts DEF ReceiveOk
  <2>4. clientClosed' \subseteq Clients
    BY <1>8, Parts DEF ReceiveOk
  <2>5. QED
    BY <2>1, <2>2, <2>3, <2>4, OkReadIInv
<1>9. CASE NoOk(p)
  <2>1. UNCHANGED <<tries, sent, got, backlog, signalled, stream, oks, serverClosed>>
    BY <1>9 DEF NoOk
  <2>2. Ends(p, "oks", "failed")
    BY <1>9 DEF NoOk
  <2>3. QED
    BY <1>1, <2>1, <2>2, ProcessEnds
<1>10. CASE SendStop(p)
  <2>1. cpc[p] = "oks" /\ cpc' = [cpc EXCEPT ![p] = "final"] /\ got[p] = sent[p]
    BY <1>10 DEF SendStop, At
  <2>2. got[p] = Len(Sends[p])
    BY <2>1, Parts DEF Advances, Progress
  <2>3. "stop" \in Texts
    BY DEF Texts
  <2>4. /\ UNCHANGED <<serverVars, tries, got, backlog, signalled, oks, clientClosed, serverClosed>>
        /\ sent' \in [Clients -> Nat] /\ \A q \in Clients \ {p} : sent'[q] = sent[q]
    BY <1>1, <1>10, Parts DEF SendStop
  <2>5. Transmit(p, Item("message", sent[p], "stop"))
    BY <1>10 DEF SendStop
  <2>6. QED
    BY <2>1, <2>2, <2>3, <2>4, <2>5, SentIInv
<1>11. CASE Final(p)
  <2>1. cpc[p] = "final" /\ cpc' = [cpc EXCEPT ![p] = "done"] /\ clientClosed' \subseteq Clients
    BY <1>11, Parts DEF Final, Ends, At
  <2>2. /\ oks' \in [Clients -> 0 .. OkRoom] /\ got' = got /\ got' \in [Clients -> Nat]
        /\ \A q \in Clients : got'[q] + oks'[q] <= got[q] + oks[q]
    <3>1. oks' = [oks EXCEPT ![p] = IF @ > 0 THEN @ - 1 ELSE @] /\ got' = got
      BY <1>11 DEF Final
    <3>2. (IF oks[p] > 0 THEN oks[p] - 1 ELSE oks[p]) \in 0 .. OkRoom
      BY Parts
    <3>3. oks' \in [Clients -> 0 .. OkRoom]
      BY <3>1, <3>2, Parts
    <3>4. ASSUME NEW q \in Clients PROVE oks'[q] <= oks[q]
      <4>1. oks[q] \in Nat
        BY Parts
      <4>2. oks'[q] = oks[q] \/ oks'[q] = oks[q] - 1
        BY <3>1, Parts
      <4>3. QED
        BY <4>1, <4>2
    <3>5. ASSUME NEW q \in Clients PROVE got'[q] + oks'[q] <= got[q] + oks[q]
      <4>1. oks[q] \in Nat /\ oks'[q] \in Nat /\ got[q] \in Nat /\ got'[q] = got[q]
        BY <3>1, <3>3, Parts
      <4>2. QED
        BY <3>4, <4>1
    <3>6. QED
      BY <3>1, <3>3, <3>5, Parts
  <2>3. UNCHANGED <<serverVars, tries, sent, backlog, signalled, stream, serverClosed>>
    BY <1>1, <1>11 DEF Final
  <2>4. QED
    BY <2>1, <2>2, <2>3, OkReadIInv
<1>12. CASE Leave(p)
  <2>1. UNCHANGED <<tries, sent, got, backlog, signalled, stream, oks, serverClosed>>
    BY <1>12 DEF Leave
  <2>2. Ends(p, "oks", "done") /\ got[p] = sent[p]
    BY <1>12 DEF Leave
  <2>3. got[p] = Len(Sends[p])
    BY <2>2, Parts DEF Ends, At, Advances, Progress
  <2>4. QED
    BY <1>1, <2>1, <2>2, <2>3, ProcessEnds
<1>13. CASE GetEnds(p)
  <2>1. UNCHANGED <<tries, sent, got, backlog, signalled, stream, oks, serverClosed>>
    BY <1>13 DEF GetEnds
  <2>2. Ends(p, "get", "done")
    BY <1>13 DEF GetEnds
  <2>3. Command[p] # "put"
    BY <2>2, Parts DEF Ends, At, Advances, Progress
  <2>4. QED
    BY <1>1, <2>1, <2>2, <2>3, ProcessEnds
<1>14. QED
  BY <1>2, <1>3, <1>4, <1>5, <1>6, <1>7, <1>8, <1>9, <1>10, <1>11, <1>12, <1>13
     DEF Client, ClientStep

LEMMA ClientDiesIInv == ASSUME IInv, NEW p \in Clients, ClientDies(p) PROVE IInv'
<1>1. UNCHANGED serverVars
  BY DEF ClientDies
<1>2. UNCHANGED <<tries, sent, got, backlog, signalled, stream, oks, serverClosed>>
  BY DEF ClientDies, Kill
<1>3. Ends(p, cpc[p], "failed")
  BY DEF ClientDies, Kill
<1>4. QED
  BY <1>1, <1>2, <1>3, ProcessEnds

----------------------------------------------------------------------------
(* The steps of the server. *)

\* The tail of a sequence.
LEMMA TailFacts ==
  ASSUME NEW T, NEW q \in Seq(T), q # <<>>
  PROVE  /\ Head(q) \in T /\ Head(q) = q[1] /\ 1 \in DOMAIN q
         /\ Tail(q) \in Seq(T) /\ Len(Tail(q)) = Len(q) - 1
         /\ \A k \in DOMAIN Tail(q) : k \in Nat \ {0} /\ k + 1 \in DOMAIN q /\ Tail(q)[k] = q[k + 1]
<1>1. Head(q) \in T /\ Head(q) = q[1] /\ 1 \in DOMAIN q
  OBVIOUS
<1>2. Tail(q) \in Seq(T) /\ Len(Tail(q)) = Len(q) - 1
  OBVIOUS
<1>3. ASSUME NEW k \in DOMAIN Tail(q) PROVE k \in Nat \ {0} /\ k + 1 \in DOMAIN q /\ Tail(q)[k] = q[k + 1]
  BY <1>2
<1>4. QED
  BY <1>1, <1>2, <1>3

\* The search for a free entry finds the lowest.
LEMMA FirstFreeIsLowest ==
  ASSUME Active # Slots
  PROVE  FirstFree \in Slots \ Active /\ \A t \in Slots \ Active : FirstFree <= t
<1>1. Slots \ Active # {} /\ Slots \ Active \in SUBSET Nat
  BY DEF Active, Slots
<1>2. \E s \in Slots \ Active : \A t \in Slots \ Active : s <= t
  <2>1. \E s \in Slots \ Active : \A t \in Slots \ Active : ~(<<t, s>> \in OpToRel(<, Nat))
    BY <1>1, WFMin, NatLessThanWellFounded
  <2>2. ASSUME NEW x \in Nat, NEW y \in Nat, x < y PROVE <<x, y>> \in OpToRel(<, Nat)
    BY <2>2 DEF OpToRel
  <2> HIDE DEF OpToRel
  <2>3. \A s, t \in Slots \ Active : s <= t \/ t < s
    BY <1>1
  <2>4. QED
    BY <1>1, <2>1, <2>2, <2>3, Zenon
<1>3. QED
  BY <1>2 DEF FirstFree

\* The client of the entry that is served, while it is served.
LEMMA ServedIsOpen ==
  ASSUME IInv, spc \in {"peek", "read"}
  PROVE  /\ Served \in Clients /\ Served \notin serverClosed /\ cpc[Served] # "connect"
         /\ slot \in Active /\ \A s \in Active : s <= slot
BY Parts DEF IInv, Entries, InPlace, Served

\* A step of the server after which the streams, the stored messages and the
\* oks are as they were.
LEMMA QuietStep ==
  ASSUME IInv, TypeOK', Entries', InPlace', Reading',
         UNCHANGED <<clientVars, stream, log, oks, serverClosed>>
  PROVE  IInv'
<1> USE DEF clientVars
<1>1. Streams'
  <2> SUFFICES ASSUME NEW q \in Clients PROVE InStep(q)'
    BY DEF Streams
  <2>1. InStep(q) /\ Cmd(q)' = Cmd(q)
    BY Parts DEF Streams, Cmd
  <2>2. QED
    BY <2>1 DEF InStep
<1>2. Advances' /\ OksAreStored'
  BY Parts DEF Advances, Progress, OksAreStored
<1>3. QED
  BY <1>1, <1>2 DEF IInv

\* A step of the server that closes the connections S, none of them one that it
\* goes on with.
LEMMA ClosingStep ==
  ASSUME IInv, NEW S \in SUBSET Clients, ServerCloses(S), UNCHANGED <<clientVars, log, missed, lost, signalled, clientClosed>>,
         spc' \in {"wait", "off"},
         slot' \in Slots \cup {0}, slots' \in [Slots -> Clients \cup {NoClient}], backlog' \in Seq(Clients),
         Entries',
         \A p \in S : cpc[p] # "connect",
         \A k \in DOMAIN backlog' : backlog'[k] \notin S,
         \A s \in Active' : slots'[s] \notin S,
         \A j, k \in DOMAIN backlog' : backlog'[j] = backlog'[k] => j = k,
         \A s, t \in Active' : slots'[s] = slots'[t] => s = t,
         \A k \in DOMAIN backlog' : \A s \in Active' : slots'[s] # backlog'[k],
         \A k \in DOMAIN backlog' : \E j \in DOMAIN backlog : backlog'[k] = backlog[j],
         \A s \in Active' : s \in Active /\ slots'[s] = slots[s]
  PROVE  IInv'
<1> USE DEF clientVars
<1>1. /\ serverClosed' = serverClosed \cup S
      /\ stream' = [p \in Clients |-> IF p \in S THEN <<>> ELSE stream[p]]
      /\ oks' \in {oks, [p \in Clients |-> IF p \in S /\ stream[p] # <<>> THEN 0 ELSE oks[p]]}
  BY DEF ServerCloses
<1>2. oks' \in [Clients -> 0 .. OkRoom] /\ \A p \in Clients : oks'[p] <= oks[p]
  <2>1. \A p \in Clients : oks[p] \in 0 .. OkRoom
    BY Parts
  <2>2. CASE oks' = oks
    BY <2>1, <2>2, Parts
  <2>3. CASE oks' = [p \in Clients |-> IF p \in S /\ stream[p] # <<>> THEN 0 ELSE oks[p]]
    BY <2>1, <2>3
  <2>4. QED
    BY <1>1, <2>2, <2>3
<1>3. TypeOK'
  <2>1. stream' \in [Clients -> Seq(Items)]
    BY <1>1, Parts
  <2>2. QED
    BY <1>1, <1>2, <2>1 DEF IInv, TypeOK, NetTypeOK, ServerTypeOK, ClientTypeOK
<1>4. InPlace'
  <2>1. \A p \in Clients : cpc[p] = "connect" => p \notin serverClosed'
    BY <1>1 DEF IInv, InPlace
  <2>2. \A k \in DOMAIN backlog' : backlog'[k] \notin serverClosed' /\ cpc[backlog'[k]] # "connect"
    BY <1>1 DEF IInv, InPlace
  <2>3. \A s \in Active' : slots'[s] \notin serverClosed' /\ cpc[slots'[s]] # "connect"
    BY <1>1 DEF IInv, InPlace
  <2>4. QED
    BY <2>1, <2>2, <2>3 DEF InPlace
<1>5. Streams'
  <2> SUFFICES ASSUME NEW q \in Clients, q \notin serverClosed' PROVE InStep(q)'
    BY DEF Streams, InStep
  <2>1. InStep(q) /\ stream'[q] = stream[q] /\ q \notin serverClosed
    BY <1>1, Parts DEF Streams
  <2>2. Cmd(q)' = Cmd(q)
    BY <2>1 DEF Cmd
  <2>3. QED
    BY <2>1, <2>2 DEF InStep
<1>6. Reading' /\ Advances'
  BY Parts DEF Reading, Advances, Progress
<1>7. OksAreStored'
  <2>1. ASSUME NEW q \in Clients PROVE got[q] + oks'[q] <= Len(log[q])
    <3>1. got[q] + oks[q] <= Len(log[q])
      BY Parts DEF OksAreStored
    <3>2. got[q] \in Nat /\ oks[q] \in 0 .. OkRoom /\ oks'[q] \in 0 .. OkRoom /\ Len(log[q]) \in Nat
      BY <1>2, Parts
    <3>3. QED
      BY <1>2, <3>1, <3>2
  <2>2. \A q \in Clients : \A k \in DOMAIN log[q] : log[q][k] = k - 1
    BY Parts DEF OksAreStored
  <2>3. QED
    BY <2>1, <2>2 DEF OksAreStored
<1>8. QED
  BY <1>3, <1>4, <1>5, <1>6, <1>7 DEF IInv

LEMMA ListenIInv == ASSUME IInv, Listen, UNCHANGED clientVars PROVE IInv'
<1> USE DEF Listen, netVars, clientVars
<1>1. Active' = Active
  BY DEF Active
<1>2. TypeOK'
  BY DEF IInv, TypeOK, NetTypeOK, ServerTypeOK, ClientTypeOK
<1>3. Entries' /\ InPlace' /\ Reading'
  BY <1>1 DEF IInv, Entries, ClientsUnheard, InPlace, Reading
<1>4. QED
  BY <1>2, <1>3, QuietStep

LEMMA ServerDiesIInv == ASSUME IInv, ServerDies PROVE IInv'
<1> USE DEF ServerDies, WildRead, netVars, clientVars
<1>1. Active' = Active
  BY DEF Active
<1>2. TypeOK'
  BY DEF IInv, TypeOK, NetTypeOK, ServerTypeOK, ClientTypeOK
<1>3. Entries' /\ InPlace' /\ Reading'
  BY <1>1 DEF IInv, Entries, ClientsUnheard, InPlace, Reading
<1>4. QED
  BY <1>2, <1>3, QuietStep

LEMMA PeekNothingIInv == ASSUME IInv, PeekNothing, UNCHANGED clientVars PROVE IInv'
<1> USE DEF PeekNothing, netVars, clientVars
<1>1. Active' = Active
  BY DEF Active
<1>2. TypeOK'
  <2>1. missed' \subseteq Clients
    BY ServedIsOpen DEF IInv, TypeOK, ServerTypeOK
  <2>2. QED
    BY <2>1 DEF IInv, TypeOK, NetTypeOK, ServerTypeOK, ClientTypeOK
<1>3. Entries' /\ InPlace' /\ Reading'
  BY <1>1 DEF IInv, Entries, ClientsUnheard, InPlace, Reading
<1>4. QED
  BY <1>2, <1>3, QuietStep

LEMMA AcceptClientIInv == ASSUME IInv, AcceptClient, UNCHANGED clientVars PROVE IInv'
<1> DEFINE free == FirstFree
           new == Head(backlog)
<1>1. /\ signalled /\ backlog # <<>> /\ backlog' = Tail(backlog)
      /\ slot' = free /\ slots' = [slots EXCEPT ![free] = new] /\ spc' = "peek"
      /\ UNCHANGED <<log, missed, lost, signalled, stream, oks, clientClosed, serverClosed>>
      /\ UNCHANGED <<cpc, tries, sent, got>>
  BY DEF AcceptClient, clientVars
<1>2. free \in Slots \ Active /\ \A t \in Slots \ Active : free <= t
  <2>1. Active # Slots
    BY DEF AcceptClient, FirstFree
  <2>2. QED
    BY <2>1, FirstFreeIsLowest
<1>3. /\ new \in Clients /\ new = backlog[1] /\ 1 \in DOMAIN backlog
      /\ \A k \in DOMAIN backlog' : k + 1 \in DOMAIN backlog /\ backlog'[k] = backlog[k + 1] /\ k \in Nat \ {0}
  BY <1>1, Parts, TailFacts
<1> HIDE DEF free, new
<1>4. /\ Active' = Active \cup {free} /\ slots'[free] = new
      /\ \A s \in Active : slots'[s] = slots[s]
  <2>1. free \in Slots /\ new # NoClient /\ slots \in [Slots -> Clients \cup {NoClient}]
    BY <1>2, <1>3, Parts
  <2>2. \A s \in Slots : slots'[s] = IF s = free THEN new ELSE slots[s]
    BY <1>1, <2>1
  <2>3. QED
    BY <1>2, <2>1, <2>2 DEF Active
<1>5. TypeOK'
  <2>1. slots' \in [Slots -> Clients \cup {NoClient}] /\ backlog' \in Seq(Clients)
    BY <1>1, <1>2, <1>3, Parts, TailFacts
  <2>2. QED
    BY <1>1, <1>2, <2>1 DEF IInv, TypeOK, NetTypeOK, ServerTypeOK, ClientTypeOK
<1>6. Entries'
  <2>1. \A s \in Active' : 1 .. s - 1 \subseteq Active'
    <3>1. \A s \in Active : 1 .. s - 1 \subseteq Active
      BY DEF IInv, Entries, ClientsUnheard
    <3>2. 1 .. free - 1 \subseteq Active
      BY <1>2 DEF Slots
    <3>3. QED
      BY <1>4, <3>1, <3>2
  <2>2. \A s \in Active : s <= free
    <3>1. \A s \in Active : free \notin 1 .. s - 1
      BY <1>2 DEF IInv, Entries, ClientsUnheard
    <3>2. QED
      BY <1>2, <3>1 DEF Active, Slots
  <2>3. free <= free
    BY <1>2 DEF Slots
  <2>4. QED
    BY <1>1, <1>4, <2>1, <2>2, <2>3 DEF Entries, ClientsUnheard
<1>7. InPlace'
  <2>1. /\ new \notin serverClosed /\ cpc[new] # "connect"
        /\ \A s \in Active : slots[s] # new
    BY <1>3 DEF IInv, InPlace
  <2>2. \A k \in DOMAIN backlog' :
          /\ backlog'[k] \notin serverClosed /\ cpc[backlog'[k]] # "connect"
          /\ \A s \in Active : slots[s] # backlog'[k]
    BY <1>3 DEF IInv, InPlace
  <2>3. \A j, k \in DOMAIN backlog' : backlog'[j] = backlog'[k] => j = k
    BY <1>3 DEF IInv, InPlace
  <2>4. \A k \in DOMAIN backlog' : backlog'[k] # new
    <3> SUFFICES ASSUME NEW k \in DOMAIN backlog', backlog'[k] = new PROVE FALSE
      OBVIOUS
    <3>1. k + 1 = 1
      BY <1>3 DEF IInv, InPlace
    <3>2. QED
      BY <1>3, <3>1
  <2>5. \A s \in Active' : slots'[s] \notin serverClosed /\ cpc[slots'[s]] # "connect"
    BY <1>4, <2>1 DEF IInv, InPlace
  <2>6. \A s, t \in Active' : slots'[s] = slots'[t] => s = t
    BY <1>4, <2>1 DEF IInv, InPlace
  <2>7. \A k \in DOMAIN backlog' : \A s \in Active' : slots'[s] # backlog'[k]
    BY <1>4, <2>2, <2>4
  <2>8. \A p \in Clients : cpc[p] = "connect" => p \notin serverClosed
    BY DEF IInv, InPlace
  <2>9. QED
    BY <1>1, <2>2, <2>3, <2>5, <2>6, <2>7, <2>8 DEF InPlace
<1>8. Reading'
  BY <1>1 DEF Reading
<1>9. QED
  BY <1>1, <1>5, <1>6, <1>7, <1>8, QuietStep DEF clientVars

LEMMA RejectIInv == ASSUME IInv, Reject, UNCHANGED clientVars PROVE IInv'
<1>1. /\ signalled /\ spc = "wait" /\ backlog # <<>> /\ backlog' = Tail(backlog)
      /\ ServerCloses({Head(backlog)})
      /\ UNCHANGED <<spc, slot, slots, log, missed, lost, signalled, clientClosed>>
  BY DEF Reject
<1>2. /\ Head(backlog) \in Clients /\ Head(backlog) = backlog[1] /\ 1 \in DOMAIN backlog
      /\ \A k \in DOMAIN backlog' : k + 1 \in DOMAIN backlog /\ backlog'[k] = backlog[k + 1] /\ k \in Nat \ {0}
  BY <1>1, Parts, TailFacts
<1>3. Active' = Active
  BY <1>1 DEF Active
<1>4. Entries'
  BY <1>1, <1>3 DEF IInv, Entries, ClientsUnheard
<1>5. /\ slot' \in Slots \cup {0} /\ slots' \in [Slots -> Clients \cup {NoClient}]
      /\ backlog' \in Seq(Clients) /\ spc' \in {"wait", "off"}
  BY <1>1, Parts DEF IInv, TypeOK, ServerTypeOK
<1>6. \A k \in DOMAIN backlog' : backlog'[k] # Head(backlog)
  <2> SUFFICES ASSUME NEW k \in DOMAIN backlog', backlog'[k] = Head(backlog) PROVE FALSE
    OBVIOUS
  <2>1. k + 1 = 1
    BY <1>2 DEF IInv, InPlace
  <2>2. QED
    BY <1>2, <2>1
<1>7. cpc[Head(backlog)] # "connect" /\ \A s \in Active : slots[s] # Head(backlog)
  BY <1>2 DEF IInv, InPlace
<1>8. /\ \A j, k \in DOMAIN backlog' : backlog'[j] = backlog'[k] => j = k
      /\ \A s, t \in Active : slots[s] = slots[t] => s = t
      /\ \A k \in DOMAIN backlog' : \A s \in Active : slots[s] # backlog'[k]
  BY <1>2 DEF IInv, InPlace
<1>9. \A k \in DOMAIN backlog' : \E j \in DOMAIN backlog : backlog'[k] = backlog[j]
  BY <1>2
<1> DEFINE S == {Head(backlog)}
<1>10. /\ S \in SUBSET Clients /\ ServerCloses(S)
       /\ \A p \in S : cpc[p] # "connect"
       /\ \A k \in DOMAIN backlog' : backlog'[k] \notin S
       /\ \A s \in Active' : slots'[s] \notin S
  BY <1>1, <1>2, <1>3, <1>6, <1>7
<1> HIDE DEF S
<1>11. /\ \A s, t \in Active' : slots'[s] = slots'[t] => s = t
       /\ \A k \in DOMAIN backlog' : \A s \in Active' : slots'[s] # backlog'[k]
       /\ \A s \in Active' : s \in Active /\ slots'[s] = slots[s]
  BY <1>1, <1>3, <1>8
<1>12. UNCHANGED <<clientVars, log, missed, lost, signalled, clientClosed>>
  BY <1>1
<1>13. QED
  BY <1>4, <1>5, <1>8, <1>9, <1>10, <1>11, <1>12, ClosingStep

LEMMA CloseServedIInv ==
  ASSUME IInv, spc = "read", CloseServed, UNCHANGED clientVars PROVE IInv'
<1>1. /\ slots' = [slots EXCEPT ![slot] = NoClient] /\ ServerCloses({Served})
      /\ spc' = "wait" /\ slot' = 0
      /\ UNCHANGED <<log, missed, lost, backlog, signalled, clientClosed>>
  BY DEF CloseServed
<1>2. /\ Served \in Clients /\ cpc[Served] # "connect"
      /\ slot \in Active /\ \A s \in Active : s <= slot
  BY ServedIsOpen
<1>3. /\ slots' \in [Slots -> Clients \cup {NoClient}] /\ Active' = Active \ {slot}
      /\ \A s \in Active' : s \in Active /\ slots'[s] = slots[s]
  BY <1>1, <1>2, Parts DEF Active
<1>4. Entries'
  <2>1. \A s \in Active' : 1 .. s - 1 \subseteq Active'
    <3>1. \A s \in Active' : 1 .. s - 1 \subseteq Active /\ s \in Nat /\ s <= slot /\ slot \in Nat
      BY <1>2, <1>3 DEF IInv, Entries, ClientsUnheard, Active, Slots
    <3>2. \A s \in Active' : slot \notin 1 .. s - 1
      BY <3>1
    <3>3. QED
      BY <1>3, <3>1, <3>2
  <2>2. QED
    BY <1>1, <1>3, <2>1 DEF IInv, Entries, ClientsUnheard
<1>5. /\ \A k \in DOMAIN backlog' : backlog'[k] # Served
      /\ \A s \in Active' : slots'[s] # Served
  BY <1>1, <1>2, <1>3 DEF IInv, InPlace, Served
<1>6. /\ \A j, k \in DOMAIN backlog' : backlog'[j] = backlog'[k] => j = k
      /\ \A s, t \in Active' : slots'[s] = slots'[t] => s = t
      /\ \A k \in DOMAIN backlog' : \A s \in Active' : slots'[s] # backlog'[k]
      /\ \A k \in DOMAIN backlog' : \E j \in DOMAIN backlog : backlog'[k] = backlog[j]
  BY <1>1, <1>3 DEF IInv, InPlace
<1> DEFINE S == {Served}
<1>7. /\ S \in SUBSET Clients /\ ServerCloses(S)
      /\ \A p \in S : cpc[p] # "connect"
      /\ \A k \in DOMAIN backlog' : backlog'[k] \notin S
      /\ \A s \in Active' : slots'[s] \notin S
  BY <1>1, <1>2, <1>5
<1> HIDE DEF S
<1>8. /\ UNCHANGED <<clientVars, log, missed, lost, signalled, clientClosed>>
      /\ slot' \in Slots \cup {0} /\ backlog' \in Seq(Clients) /\ spc' \in {"wait", "off"}
  BY <1>1, Parts
<1>9. QED
  BY <1>3, <1>4, <1>6, <1>7, <1>8, ClosingStep

LEMMA ShutdownIInv == ASSUME IInv, Shutdown, UNCHANGED clientVars PROVE IInv'
<1> DEFINE S == {slots[s] : s \in Active} \cup {backlog[k] : k \in DOMAIN backlog}
<1>1. /\ ServerCloses(S) /\ backlog' = <<>> /\ spc' = "off" /\ slot' = 0
      /\ slots' = [s \in Slots |-> NoClient]
      /\ UNCHANGED <<log, missed, lost, signalled, clientClosed>>
  BY DEF Shutdown
<1>2. S \in SUBSET Clients /\ \A p \in S : cpc[p] # "connect"
  BY Parts DEF IInv, InPlace
<1> HIDE DEF S
<1>3. Active' = {} /\ DOMAIN backlog' = {}
  BY <1>1 DEF Active
<1>4. Entries'
  BY <1>1, <1>3 DEF Entries, ClientsUnheard
<1>5. /\ UNCHANGED <<clientVars, log, missed, lost, signalled, clientClosed>>
      /\ slot' \in Slots \cup {0} /\ spc' \in {"wait", "off"}
      /\ slots' \in [Slots -> Clients \cup {NoClient}] /\ backlog' \in Seq(Clients)
  BY <1>1
<1>6. QED
  BY <1>1, <1>2, <1>3, <1>4, <1>5, ClosingStep

\* A step of the server that reads the item at the head of the stream of the
\* client that is served: after it, only messages are left of that stream.
LEMMA ItemRead ==
  ASSUME IInv, spc \in {"peek", "read"}, stream[Served] # <<>>,
         spc = "peek" => Head(stream[Served]).command = "put",
         stream' = [stream EXCEPT ![Served] = Tail(@)]
  PROVE  /\ stream' \in [Clients -> Seq(Items)]
         /\ \A q \in Clients \ {Served} : stream'[q] = stream[q]
         /\ Len(stream'[Served]) = Len(stream[Served]) - 1
         /\ cpc[Served] \notin {"connect", "command"}
         /\ Cmd(Served) = (IF spc = "peek" THEN 1 ELSE 0)
         /\ \A k \in DOMAIN stream'[Served] :
              /\ stream'[Served][k].command = "message"
              /\ stream'[Served][k].index = Len(log[Served]) + k - Cmd(Served)
         /\ spc = "read" => stream[Served][1].command = "message" /\ stream[Served][1].index = Len(log[Served])
<1> DEFINE p == Served
<1>1. p \in Clients /\ p \notin serverClosed
  BY ServedIsOpen
<1>2. /\ stream[p] \in Seq(Items) /\ stream \in [Clients -> Seq(Items)] /\ Len(log[p]) \in Nat
      /\ InStep(p)
  BY <1>1, Parts DEF Streams
<1>3. /\ Head(stream[p]) = stream[p][1] /\ 1 \in DOMAIN stream[p]
      /\ Tail(stream[p]) \in Seq(Items) /\ Len(Tail(stream[p])) = Len(stream[p]) - 1
      /\ \A k \in DOMAIN Tail(stream[p]) :
           k \in Nat \ {0} /\ k + 1 \in DOMAIN stream[p] /\ Tail(stream[p])[k] = stream[p][k + 1]
  BY <1>2, TailFacts
<1>4. Cmd(p) = IF spc = "peek" THEN 1 ELSE 0
  <2>1. CASE spc = "peek"
    BY <1>3, <2>1 DEF Cmd
  <2>2. CASE spc = "read"
    BY <2>2 DEF IInv, Reading, Served
  <2>3. QED
    BY <2>1, <2>2
<1> HIDE DEF p
<1>5. /\ stream' \in [Clients -> Seq(Items)] /\ stream'[p] = Tail(stream[p])
      /\ \A q \in Clients \ {p} : stream'[q] = stream[q]
  BY <1>1, <1>2, <1>3 DEF p
<1>6. cpc[p] \notin {"connect", "command"}
  BY <1>1, <1>2, <1>3 DEF InStep, p
<1>7. \A k \in DOMAIN stream[p] :
         /\ k > Cmd(p) => stream[p][k].command = "message"
         /\ stream[p][k].command = "message" => stream[p][k].index = Len(log[p]) + k - 1 - Cmd(p)
  BY <1>1, <1>2 DEF InStep
<1>8. ASSUME NEW k \in DOMAIN stream'[p]
      PROVE  /\ stream'[p][k].command = "message"
             /\ stream'[p][k].index = Len(log[p]) + k - Cmd(p)
  <2>1. k \in Nat \ {0} /\ k + 1 \in DOMAIN stream[p] /\ stream'[p][k] = stream[p][k + 1]
    BY <1>3, <1>5
  <2>2. k + 1 > Cmd(p)
    BY <1>4, <2>1
  <2>3. stream[p][k + 1].command = "message" /\ stream[p][k + 1].index = Len(log[p]) + (k + 1) - 1 - Cmd(p)
    BY <1>7, <2>1, <2>2
  <2>4. Cmd(p) \in Nat /\ Len(log[p]) \in Nat
    BY <1>2, <1>4
  <2>5. QED
    BY ONLY <2>1, <2>3, <2>4, SMTT(30)
<1>9. spc = "read" => stream[p][1].command = "message" /\ stream[p][1].index = Len(log[p])
  <2> SUFFICES ASSUME spc = "read" PROVE stream[p][1].command = "message" /\ stream[p][1].index = Len(log[p])
    OBVIOUS
  <2>1. Cmd(p) = 0
    BY <1>4
  <2>2. stream[p][1].command = "message"
    BY <1>3, <1>7, <2>1
  <2>3. stream[p][1].index = Len(log[p]) + 1 - 1 - Cmd(p)
    BY <1>3, <1>7, <2>2
  <2>4. QED
    BY <1>2, <2>1, <2>2, <2>3
<1>10. QED
  BY <1>3, <1>4, <1>5, <1>6, <1>8, <1>9 DEF p

LEMMA PeekPutIInv == ASSUME IInv, PeekPut, UNCHANGED clientVars PROVE IInv'
<1> DEFINE p == Served
<1>1. /\ spc = "peek" /\ spc' = "read" /\ stream[p] # <<>> /\ Head(stream[p]).command = "put"
      /\ stream' = [stream EXCEPT ![p] = Tail(@)]
      /\ UNCHANGED <<slot, slots, log, missed, lost, backlog, signalled, oks, clientClosed, serverClosed>>
      /\ UNCHANGED <<cpc, tries, sent, got>>
  BY DEF PeekPut, clientVars
<1>2. /\ stream' \in [Clients -> Seq(Items)]
      /\ \A q \in Clients \ {p} : stream'[q] = stream[q]
      /\ Len(stream'[p]) = Len(stream[p]) - 1
      /\ cpc[p] \notin {"connect", "command"}
      /\ Cmd(p) = 1
      /\ \A k \in DOMAIN stream'[p] :
           /\ stream'[p][k].command = "message"
           /\ stream'[p][k].index = Len(log[p]) + k - Cmd(p)
  BY <1>1, ItemRead
<1>3. p \in Clients /\ p \notin serverClosed /\ p' = p
  BY <1>1, ServedIsOpen DEF Served
<1>4. /\ stream'[p] \in Seq(Items) /\ stream[p] \in Seq(Items) /\ Len(log[p]) \in Nat
      /\ InStep(p) /\ p = slots[slot]
  BY <1>2, <1>3, Parts DEF Streams, Served
<1> HIDE DEF p
<1>5. Active' = Active
  BY <1>1 DEF Active
<1>6. TypeOK'
  BY <1>1, <1>2 DEF IInv, TypeOK, NetTypeOK, ServerTypeOK, ClientTypeOK
<1>7. Entries' /\ InPlace'
  BY <1>1, <1>5 DEF IInv, Entries, ClientsUnheard, InPlace
<1>8. Cmd(p)' = 0
  <2>1. stream'[p] # <<>> => 1 \in DOMAIN stream'[p]
    BY <1>4
  <2>2. QED
    BY <1>2, <1>3, <2>1 DEF Cmd
<1>9. Streams'
  <2>1. InStep(p)'
    <3>1. cpc[p] \in {"send", "oks"} => sent[p] = Len(log[p]) + Len(stream[p]) - Cmd(p)
      BY <1>3, <1>4 DEF InStep
    <3>2. Len(stream[p]) \in Nat /\ Len(stream'[p]) \in Nat
      BY <1>4
    <3>3. cpc[p] \in {"send", "oks"} => sent[p] = Len(log[p]) + Len(stream'[p]) - 0
      <4> SUFFICES ASSUME cpc[p] \in {"send", "oks"} PROVE sent[p] = Len(log[p]) + Len(stream'[p]) - 0
        OBVIOUS
      <4>1. sent[p] = Len(log[p]) + Len(stream[p]) - 1 /\ Len(stream'[p]) = Len(stream[p]) - 1
        BY <1>2, <3>1
      <4>2. QED
        BY ONLY <1>4, <3>2, <4>1
    <3>4. ASSUME NEW k \in DOMAIN stream'[p] PROVE stream'[p][k].index = Len(log[p]) + k - 1 - 0
      <4>1. k \in Nat /\ stream'[p][k].index = Len(log[p]) + k - Cmd(p)
        BY <1>2, <1>4
      <4>2. QED
        BY ONLY <1>2, <1>4, <4>1
    <3>5. QED
      BY <1>1, <1>2, <1>3, <1>8, <3>3, <3>4 DEF InStep
  <2>2. QED
    BY <1>1, <1>2, <1>3, <2>1, StreamsOfOne, Parts
<1>10. Reading'
  BY <1>1, <1>2, <1>3, <1>4, <1>8 DEF Reading
<1>11. Advances' /\ OksAreStored'
  BY <1>1, Parts DEF Advances, Progress, OksAreStored
<1>12. QED
  BY <1>6, <1>7, <1>9, <1>10, <1>11 DEF IInv

LEMMA ReadMessageIInv == ASSUME IInv, ReadMessage(TRUE), UNCHANGED clientVars PROVE IInv'
<1> DEFINE p == Served
<1>1. /\ spc = "read" /\ spc' \in {"read", "shutdown"} /\ stream[p] # <<>>
      /\ stream' = [stream EXCEPT ![p] = Tail(@)]
      /\ log' = [log EXCEPT ![p] = Append(@, Head(stream[p]).index)]
      /\ UNCHANGED <<slot, slots, missed, backlog, signalled, clientClosed, serverClosed>>
      /\ UNCHANGED <<cpc, tries, sent, got>>
  BY DEF ReadMessage, Readable, Upcoming, clientVars
<1>2. /\ stream' \in [Clients -> Seq(Items)]
      /\ \A q \in Clients \ {p} : stream'[q] = stream[q]
      /\ Len(stream'[p]) = Len(stream[p]) - 1
      /\ cpc[p] \notin {"connect", "command"}
      /\ Cmd(p) = 0
      /\ \A k \in DOMAIN stream'[p] :
           /\ stream'[p][k].command = "message"
           /\ stream'[p][k].index = Len(log[p]) + k - Cmd(p)
      /\ stream[p][1].index = Len(log[p])
  BY <1>1, ItemRead
<1>3. p \in Clients /\ p \notin serverClosed /\ p' = p
  BY <1>1, ServedIsOpen DEF Served
<1>4. /\ stream'[p] \in Seq(Items) /\ stream[p] \in Seq(Items) /\ Len(log[p]) \in Nat
      /\ InStep(p) /\ p = slots[slot] /\ log[p] \in Seq(Nat)
  BY <1>2, <1>3, Parts DEF Streams, Served
<1>5. \/ oks' = [oks EXCEPT ![p] = @ + 1] /\ oks[p] < OkRoom /\ UNCHANGED lost
      \/ lost' = lost \cup {p} /\ UNCHANGED oks
  BY DEF ReadMessage
<1> HIDE DEF p
<1>6. /\ log'[p] = Append(log[p], Len(log[p])) /\ log' \in [Clients -> Seq(Nat)]
      /\ \A q \in Clients \ {p} : log'[q] = log[q]
  <2>1. Head(stream[p]).index = Len(log[p])
    BY <1>1, <1>2, <1>4
  <2>2. Append(log[p], Len(log[p])) \in Seq(Nat)
    BY <1>4
  <2>3. QED
    BY <1>1, <1>3, <2>1, <2>2, Parts
<1>7. /\ Len(log'[p]) = Len(log[p]) + 1
      /\ \A k \in DOMAIN log'[p] :
           \/ k = Len(log[p]) + 1 /\ log'[p][k] = Len(log[p])
           \/ k \in DOMAIN log[p] /\ log'[p][k] = log[p][k]
  <2>1. log'[p] = Append(log[p], Len(log[p])) /\ log[p] \in Seq(Nat) /\ Len(log[p]) \in Nat
    BY <1>4, <1>6
  <2>2. QED
    BY ONLY <2>1
<1>8. /\ oks' \in [Clients -> 0 .. OkRoom] /\ lost' \subseteq Clients
      /\ oks'[p] <= oks[p] + 1 /\ \A q \in Clients \ {p} : oks'[q] = oks[q]
  <2>1. oks \in [Clients -> 0 .. OkRoom] /\ oks[p] \in 0 .. OkRoom /\ lost \subseteq Clients
    BY <1>3, Parts DEF IInv, TypeOK, ServerTypeOK
  <2>2. CASE oks' = [oks EXCEPT ![p] = @ + 1] /\ oks[p] < OkRoom /\ UNCHANGED lost
    <3>1. oks[p] + 1 \in 0 .. OkRoom
      BY <2>1, <2>2
    <3>2. QED
      BY <1>3, <2>1, <2>2, <3>1
  <2>3. CASE lost' = lost \cup {p} /\ UNCHANGED oks
    BY <1>3, <2>1, <2>3
  <2>4. QED
    BY <1>5, <2>2, <2>3
<1>9. Active' = Active
  BY <1>1 DEF Active
<1>10. TypeOK'
  BY <1>1, <1>2, <1>6, <1>8 DEF IInv, TypeOK, NetTypeOK, ServerTypeOK, ClientTypeOK
<1>11. Entries' /\ InPlace'
  BY <1>1, <1>9 DEF IInv, Entries, ClientsUnheard, InPlace
<1>12. Cmd(p)' = 0
  <2>1. stream'[p] # <<>> => 1 \in DOMAIN stream'[p]
    BY <1>4
  <2>2. QED
    BY <1>2, <1>3, <2>1 DEF Cmd
<1>13. Streams'
  <2>1. InStep(p)'
    <3>1. cpc[p] \in {"send", "oks"} => sent[p] = Len(log[p]) + Len(stream[p]) - Cmd(p)
      BY <1>3, <1>4 DEF InStep
    <3>2. Len(stream[p]) \in Nat /\ Len(stream'[p]) \in Nat
      BY <1>4
    <3>3. cpc[p] \in {"send", "oks"} => sent[p] = Len(log'[p]) + Len(stream'[p]) - 0
      <4> SUFFICES ASSUME cpc[p] \in {"send", "oks"} PROVE sent[p] = Len(log'[p]) + Len(stream'[p]) - 0
        OBVIOUS
      <4>1. /\ sent[p] = Len(log[p]) + Len(stream[p]) - 0 /\ Len(stream'[p]) = Len(stream[p]) - 1
            /\ Len(log'[p]) = Len(log[p]) + 1
        BY <1>2, <1>7, <3>1
      <4>2. Len(log[p]) \in Nat /\ Len(log'[p]) \in Nat /\ Len(stream[p]) \in Nat /\ Len(stream'[p]) \in Nat
        BY <1>4, <1>7, <3>2
      <4>3. Len(log[p]) + Len(stream[p]) - 0 = (Len(log[p]) + 1) + (Len(stream[p]) - 1) - 0
        <5>1. \A a, b \in Nat : a + b - 0 = (a + 1) + (b - 1) - 0
          OBVIOUS
        <5>2. QED
          BY <4>2, <5>1, Zenon
      <4>4. QED
        BY ONLY <4>1, <4>3, Zenon
    <3>4. ASSUME NEW k \in DOMAIN stream'[p] PROVE stream'[p][k].index = Len(log'[p]) + k - 1 - 0
      <4>1. k \in Nat /\ stream'[p][k].index = Len(log[p]) + k - Cmd(p)
        BY <1>2, <1>4
      <4>2. Len(log'[p]) = Len(log[p]) + 1 /\ Len(log[p]) \in Nat /\ Cmd(p) = 0
        BY <1>2, <1>4, <1>7
      <4>3. QED
        BY ONLY <4>1, <4>2
    <3>5. QED
      BY <1>1, <1>2, <1>3, <1>12, <3>3, <3>4 DEF InStep
  <2>2. QED
    BY <1>1, <1>2, <1>3, <1>6, <2>1, StreamsOfOne, Parts
<1>14. Reading'
  BY <1>1, <1>2, <1>3, <1>4, <1>12 DEF Reading
<1>15. Advances'
  BY <1>1, Parts DEF Advances, Progress
<1>16. OksAreStored'
  <2>1. ASSUME NEW q \in Clients
        PROVE  /\ \A k \in DOMAIN log'[q] : log'[q][k] = k - 1
               /\ got[q] + oks'[q] <= Len(log'[q])
    <3>1. /\ \A k \in DOMAIN log[q] : log[q][k] = k - 1
          /\ got[q] + oks[q] <= Len(log[q])
      BY Parts DEF OksAreStored
    <3>2. CASE q # p
      BY <1>6, <1>8, <3>1, <3>2
    <3>3. CASE q = p
      <4>1. got[p] \in Nat /\ oks[p] \in Nat /\ oks'[p] \in Nat
        BY <1>3, <1>8, Parts
      <4>2. got[q] + oks'[q] <= Len(log'[q])
        BY <1>4, <1>7, <1>8, <3>1, <3>3, <4>1
      <4>3. \A k \in DOMAIN log[p] : log[p][k] = k - 1
        BY <3>1, <3>3
      <4>4. \A k \in DOMAIN log'[p] : log'[p][k] = k - 1
        BY ONLY <1>4, <1>7, <4>3
      <4>5. QED
        BY <3>3, <4>2, <4>4
    <3>4. QED
      BY <3>2, <3>3
  <2>2. QED
    BY <1>1, <2>1 DEF OksAreStored
<1>17. QED
  BY <1>10, <1>11, <1>13, <1>14, <1>15, <1>16 DEF IInv

----------------------------------------------------------------------------
(* The theorems. *)

LEMMA NextIInv == ASSUME FileOpens, IInv, [Next]_vars PROVE IInv'
<1>1. CASE Server
  <2>1. UNCHANGED clientVars
    BY <1>1 DEF Server
  <2>2. CASE Listen
    BY <2>1, <2>2, ListenIInv
  <2>3. CASE AcceptClient
    BY <2>1, <2>3, AcceptClientIInv
  <2>4. CASE Reject
    BY <2>1, <2>4, RejectIInv
  <2>5. CASE PeekNothing
    BY <2>1, <2>5, PeekNothingIInv
  <2>6. CASE PeekPut
    BY <2>1, <2>6, PeekPutIInv
  <2>7. CASE \E opened \in FopenOutcomes : ReadMessage(opened)
    BY <2>1, <2>7, ReadMessageIInv DEF FileOpens
  <2>8. CASE ReadEmpty
    BY <2>1, <2>8, CloseServedIInv DEF ReadEmpty, Readable
  <2>9. CASE ReadEnd
    BY <2>1, <2>9, CloseServedIInv DEF ReadEnd
  <2>10. CASE Shutdown
    BY <2>1, <2>10, ShutdownIInv
  <2>11. QED
    BY <1>1, <2>2, <2>3, <2>4, <2>5, <2>6, <2>7, <2>8, <2>9, <2>10 DEF Server, ServerStep
<1>2. CASE ServerDies
  BY <1>2, ServerDiesIInv
<1>3. CASE \E p \in Clients : Client(p)
  BY <1>3, ClientIInv
<1>4. CASE \E p \in Clients : ClientDies(p)
  BY <1>4, ClientDiesIInv
<1>5. CASE UNCHANGED vars
  <2> USE <1>5 DEF vars, netVars, serverVars, clientVars
  <2>1. Active' = Active
    BY DEF Active
  <2>2. TypeOK'
    BY DEF IInv, TypeOK, NetTypeOK, ServerTypeOK, ClientTypeOK
  <2>3. Entries' /\ InPlace'
    BY <2>1 DEF IInv, Entries, ClientsUnheard, InPlace
  <2>4. Reading'
    BY DEF IInv, Reading, Cmd
  <2>5. QED
    BY <2>2, <2>3, <2>4, QuietStep
<1>6. QED
  BY <1>1, <1>2, <1>3, <1>4, <1>5 DEF Next

\* The inductive invariant holds of every behaviour, as long as the server can
\* open its file for every message (tcpserver.cpp, pump_client_read and
\* append_record_to_msg_file).
THEOREM AlwaysIInv == ASSUME FileOpens PROVE Spec => []IInv
<1>1. IInv /\ [Next]_vars => IInv'
  BY NextIInv
<1>2. QED
  BY <1>1, InitIInv, PTL DEF Spec

\* Every variable keeps its type: in particular no entry outside of g_clients[]
\* is served, and a socket's buffers hold no more oks than they have room for.
THEOREM TypeCorrect == ASSUME FileOpens PROVE Spec => []TypeOK
<1>1. IInv => TypeOK
  BY DEF IInv
<1>2. QED
  BY <1>1, AlwaysIInv, PTL

\* Whatever happens to the clients and to the server, a client has no more oks,
\* received or on their way, than msg.txt has lines of it, and these are its
\* first messages in order, once each (pump_client_read, wait_n_ok).
THEOREM AcksAreStored == ASSUME FileOpens PROVE Spec => []OksAreStored
<1>1. IInv => OksAreStored
  BY DEF IInv
<1>2. QED
  BY <1>1, AlwaysIInv, PTL

\* A client that uploads its file and ends with exit code 0 has all of it in
\* msg.txt (send_file, wait_n_ok and main of both clients).
THEOREM FilesAreStored == ASSUME FileOpens PROVE Spec => []DoneIsStored
<1>1. IInv => DoneIsStored
  <2> SUFFICES ASSUME IInv, NEW p \in Clients, cpc[p] = "done", Command[p] = "put"
               PROVE  Len(log[p]) >= Len(Sends[p])
    BY DEF DoneIsStored
  <2>1. got[p] = Len(Sends[p])
    BY Parts DEF Advances, Progress
  <2>2. got[p] + oks[p] <= Len(log[p]) /\ oks[p] \in 0 .. OkRoom /\ got[p] \in Nat /\ Len(log[p]) \in Nat
    BY Parts DEF OksAreStored
  <2>3. QED
    BY <2>1, <2>2
<1>2. QED
  BY <1>1, AlwaysIInv, PTL

\* The entries in use are the first ones, and the event of the listening socket
\* is set while a client is active: the server's wait is given no closed event,
\* and never ends with the event of a client (server_loop).
THEOREM WaitIsSound == ASSUME FileOpens PROVE Spec => []ClientsUnheard
<1>1. IInv => ClientsUnheard
  BY DEF IInv, Entries
<1>2. QED
  BY <1>1, AlwaysIInv, PTL
=============================================================================
