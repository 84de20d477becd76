--------------------------- MODULE UdpUploadProofs ---------------------------
(***************************************************************************)
(* Proofs about UdpUpload, for any number of clients, messages, table      *)
(* entries and ids in a history or an ack.                                 *)
(***************************************************************************)
EXTENDS UdpUpload, FiniteSetTheorems, TLAPS

\* Every running process has an address of its own.
OwnAddress == \A p, q \in Procs : AddrOf[p] = AddrOf[q] => p = q

\* msg.txt can always be opened.
FileOpens == FopenOutcomes = {TRUE}

USE UdpNetAssumption, UdpServerAssumption

\* A message is a client and an index into its file.
LEMMA MsgIdShape ==
  ASSUME NEW m \in MsgIds
  PROVE  /\ m[1] \in Procs /\ m[2] \in Index(m[1]) /\ m[2] \in Nat
         /\ m = <<m[1], m[2]>>
         /\ AddrOf[m[1]] \in Addrs /\ PortOf[m[1]] \in Ports
BY DEF MsgIds, Index

LEMMA MsgIdOf ==
  ASSUME NEW p \in Procs, NEW i \in Index(p)
  PROVE  <<p, i>> \in MsgIds
BY DEF MsgIds

LEMMA AddrsFinite == IsFiniteSet(Addrs)
<1>1. AddrOf \in Surjection(Procs, Addrs)
  BY DEF Surjection, Addrs, Range
<1>2. QED
  BY <1>1, FS_Surjection

\* A full history stays full, a shorter one grows by one id.
LEMMA RememberType ==
  ASSUME NEW s \in Seq(Nat), Len(s) <= MaxHistory, NEW i \in Nat
  PROVE  /\ Remember(s, i) \in Seq(Nat)
         /\ Len(Remember(s, i)) <= MaxHistory
         /\ Range(Remember(s, i)) \subseteq Range(s) \cup {i}
<1>1. CASE Len(s) < MaxHistory
  BY <1>1 DEF Remember, Range
<1>2. CASE ~(Len(s) < MaxHistory)
  <2>1. s # <<>>
    BY <1>2
  <2>2. /\ Tail(s) \in Seq(Nat)
        /\ Len(Tail(s)) = Len(s) - 1
        /\ \A j \in 1 .. Len(s) - 1 : Tail(s)[j] = s[j + 1]
    BY <2>1
  <2>3. Range(Tail(s)) \subseteq Range(s)
    BY <2>2 DEF Range
  <2>4. Range(Append(Tail(s), i)) \subseteq Range(Tail(s)) \cup {i}
    BY <2>2 DEF Range
  <2>5. QED
    BY <1>2, <2>2, <2>3, <2>4 DEF Remember
<1>3. QED
  BY <1>1, <1>2

LEMMA NewestType ==
  ASSUME NEW s \in Seq(Nat)
  PROVE  Newest(s) \subseteq Range(s) /\ Newest(s) \subseteq Nat
BY DEF Newest, Range

----------------------------------------------------------------------------
\* Type correctness.

LEMMA KeepType ==
  ASSUME ServerTypeOK, NEW S, S \subseteq known, Keep(S)
  PROVE  /\ known' \subseteq Addrs
         /\ Cardinality(known') <= MaxClients
         /\ ids' \in [Addrs -> Seq(Nat)]
         /\ \A a \in Addrs : Len(ids'[a]) <= MaxHistory
         /\ idle' \in [Addrs -> Nat]
<1>1. /\ IsFiniteSet(known)
      /\ Cardinality(S) <= Cardinality(known)
      /\ Cardinality(S) \in Nat /\ Cardinality(known) \in Nat
  BY AddrsFinite, FS_Subset, FS_CardinalityType DEF ServerTypeOK
<1>2. QED
  BY <1>1 DEF ServerTypeOK, Keep

LEMMA ServeEntryType ==
  ASSUME TypeOK, NEW m \in MsgIds, NEW opened \in BOOLEAN, ServeEntry(m, opened),
         UNCHANGED clientVars
  PROVE  TypeOK'
<1> DEFINE a == AddrOf[m[1]]
           p == PortOf[m[1]]
           new == m[2] \notin Range(ids[a])
           hist == IF new THEN Remember(ids[a], m[2]) ELSE ids[a]
<1>1. a \in Addrs /\ p \in Ports /\ m[2] \in Nat
  BY MsgIdShape
<1>2. hist \in Seq(Nat) /\ Len(hist) <= MaxHistory
  BY <1>1, RememberType DEF TypeOK, ServerTypeOK
<1>3. Newest(hist) \in SUBSET Nat
  BY <1>2, NewestType
<1> HIDE DEF hist
<1>4. /\ known' = known \cup {a}
      /\ ids' = [ids EXCEPT ![a] = hist]
      /\ idle' = [idle EXCEPT ![a] = 0]
      /\ acks' = acks \cup {Ack(a, Newest(hist))}
  BY DEF ServeEntry, hist
<1>5. Cardinality(known \cup {a}) <= MaxClients
  <2>1. IsFiniteSet(known) /\ Cardinality(known) \in Nat
    BY AddrsFinite, FS_Subset, FS_CardinalityType DEF TypeOK, ServerTypeOK
  <2>2. CASE a \in known
    <3>1. known \cup {a} = known
      BY <2>2
    <3>2. QED
      BY <3>1 DEF TypeOK, ServerTypeOK
  <2>3. CASE a \notin known
    <3>1. Cardinality(known \cup {a}) = Cardinality(known) + 1
      BY <2>1, <2>3, FS_AddElement
    <3>2. Cardinality(known) < MaxClients
      BY <2>3 DEF ServeEntry, HasEntry
    <3>3. QED
      BY <2>1, <3>1, <3>2
  <2>4. QED
    BY <2>2, <2>3
<1>6. NetTypeOK'
  BY <1>1, <1>3, <1>4 DEF TypeOK, NetTypeOK, ServeEntry, Consume, Acks, Ack
<1>7. ServerTypeOK'
  <2>1. log' \in [MsgIds -> Nat]
    BY DEF TypeOK, ServerTypeOK, ServeEntry
  <2>2. spc' \in {"serve", "cleanup"} /\ running' \in BOOLEAN /\ ready' \subseteq Ports
    BY DEF TypeOK, ServerTypeOK, ServeEntry, Advance
  <2>3. /\ ids' \in [Addrs -> Seq(Nat)]
        /\ \A b \in Addrs : Len(ids'[b]) <= MaxHistory
    BY <1>1, <1>2, <1>4 DEF TypeOK, ServerTypeOK
  <2>4. known' \subseteq Addrs /\ Cardinality(known') <= MaxClients
    BY <1>1, <1>4, <1>5 DEF TypeOK, ServerTypeOK
  <2>5. idle' \in [Addrs -> Nat]
    BY <1>4 DEF TypeOK, ServerTypeOK
  <2>6. QED
    BY <2>1, <2>2, <2>3, <2>4, <2>5 DEF ServerTypeOK
<1>8. ClientTypeOK'
  BY DEF TypeOK, ClientTypeOK, clientVars
<1>9. QED
  BY <1>6, <1>7, <1>8 DEF TypeOK

LEMMA TypeInit == Init => TypeOK
<1> SUFFICES ASSUME Init PROVE TypeOK
  OBVIOUS
<1>1. Cardinality(known) <= MaxClients
  BY FS_EmptySet DEF Init, ServerInit
<1>2. ServerTypeOK
  BY <1>1 DEF Init, ServerInit, ServerTypeOK
<1>3. NetTypeOK /\ ClientTypeOK
  BY DEF Init, ClientInit, NetTypeOK, ClientTypeOK
<1>4. QED
  BY <1>2, <1>3 DEF TypeOK

LEMMA TypeStep == TypeOK /\ [Next]_vars => TypeOK'
<1> SUFFICES ASSUME TypeOK, [Next]_vars PROVE TypeOK'
  OBVIOUS
<1> USE DEF TypeOK
<1>1. CASE Select /\ UNCHANGED clientVars
  <2>1. ready' \subseteq Ports /\ spc' \in {"serve", "cleanup"}
    BY <1>1, MsgIdShape DEF Select, NetTypeOK
  <2>2. QED
    BY <1>1, <2>1 DEF Select, NetTypeOK, ServerTypeOK, ClientTypeOK, netVars, tableVars, clientVars
<1>2. CASE ServeNothing /\ UNCHANGED clientVars
  BY <1>2 DEF ServeNothing, Advance, NetTypeOK, ServerTypeOK, ClientTypeOK, netVars, tableVars, clientVars
<1>3. ASSUME NEW m \in dgrams, Serve(m), UNCHANGED clientVars
      PROVE  TypeOK'
  <2>1. m \in MsgIds
    BY <1>3 DEF NetTypeOK
  <2>2. CASE ServeNoEntry(m)
    BY <1>3, <2>2 DEF ServeNoEntry, Advance, Consume, NetTypeOK, ServerTypeOK, ClientTypeOK, tableVars, clientVars
  <2>3. ASSUME NEW opened \in FopenOutcomes, ServeEntry(m, opened)
        PROVE  TypeOK'
    BY <1>3, <2>1, <2>3, ServeEntryType
  <2>4. QED
    BY <1>3, <2>2, <2>3 DEF Serve
<1>4. CASE Cleanup /\ UNCHANGED clientVars
  <2>1. {b \in known : idle[b] <= IdleLimit} \subseteq known
    OBVIOUS
  <2>2. QED
    BY <1>4, <2>1, KeepType DEF Cleanup, NetTypeOK, ServerTypeOK, ClientTypeOK, netVars, clientVars
<1>5. ASSUME NEW p \in Procs, Client(p)
      PROVE  TypeOK'
  <2>1. NetTypeOK'
    BY <1>5, MsgIdOf DEF Client, ClientNext, Launch, Finish, SendRound, ReceiveAck, Timeout,
                         Consume, NetTypeOK, netVars
  <2>2. ServerTypeOK'
    BY <1>5 DEF Client, ServerTypeOK, serverVars
  <2>3. ClientTypeOK'
    BY <1>5 DEF Client, ClientNext, Launch, Finish, SendRound, ReceiveAck, Timeout, ClientTypeOK, Index
  <2>4. QED
    BY <2>1, <2>2, <2>3
<1>6. CASE Network
  BY <1>6 DEF Network, Lose, LoseDatagram, LoseAck, NetTypeOK, ServerTypeOK, ClientTypeOK,
              serverVars, clientVars
<1>7. CASE Tick /\ UNCHANGED clientVars
  BY <1>7 DEF Tick, NetTypeOK, ServerTypeOK, ClientTypeOK, netVars, clientVars
<1>8. CASE (Crash \/ Start) /\ UNCHANGED clientVars
  <2>1. {} \subseteq known
    OBVIOUS
  <2>2. Keep({})
    BY <1>8 DEF Crash, Start
  <2>3. QED
    BY <1>8, <2>1, <2>2, KeepType
       DEF Crash, Start, NetTypeOK, ServerTypeOK, ClientTypeOK, netVars, clientVars
<1>9. CASE UNCHANGED vars
  BY <1>9 DEF vars, NetTypeOK, ServerTypeOK, ClientTypeOK, netVars, serverVars, clientVars
<1>10. QED
  BY <1>1, <1>2, <1>3, <1>4, <1>5, <1>6, <1>7, <1>8, <1>9
     DEF Next, Server, ServerNext, Environment

\* The variables keep their types and the table stays inside its arrays.
THEOREM TypeCorrect == Spec => []TypeOK
<1>1. QED
  BY TypeInit, TypeStep, PTL DEF Spec

----------------------------------------------------------------------------
(***************************************************************************)
(* No acknowledgement without a line in msg.txt.  ConfirmedLogged is not   *)
(* inductive: the ids of a client travel from the history of its address   *)
(* through the acks in flight into confirmed[].  So all three only hold    *)
(* ids whose message is in msg.txt, and msg.txt never loses a line.        *)
(***************************************************************************)
IdsLogged ==
  \A p \in Procs : \A i \in Range(ids[AddrOf[p]]) \cap Index(p) : log[<<p, i>>] > 0

AcksLogged ==
  \A k \in acks : \A p \in Procs :
    k.to = AddrOf[p] => \A i \in k.ids \cap Index(p) : log[<<p, i>>] > 0

LogInv == TypeOK /\ IdsLogged /\ AcksLogged /\ ConfirmedLogged

\* msg.txt is opened to append: the count of a line never goes down.
LEMMA LogGrows ==
  ASSUME TypeOK, [Next]_vars, NEW m \in MsgIds
  PROVE  log'[m] >= log[m] /\ log[m] \in Nat /\ log'[m] \in Nat
<1>1. log \in [MsgIds -> Nat]
  BY DEF TypeOK, ServerTypeOK
<1>2. CASE log' = log
  BY <1>1, <1>2
<1>3. ASSUME NEW n \in MsgIds, NEW b \in BOOLEAN,
             log' = [log EXCEPT ![n] = IF b THEN @ + 1 ELSE @]
      PROVE  log'[m] >= log[m] /\ log'[m] \in Nat
  BY <1>1, <1>3
<1>4. ASSUME NEW n \in dgrams, NEW opened \in FopenOutcomes, ServeEntry(n, opened)
      PROVE  log'[m] >= log[m] /\ log'[m] \in Nat
  <2>1. n \in MsgIds
    BY DEF TypeOK, NetTypeOK
  <2>2. log' = [log EXCEPT ![n] = IF n[2] \notin Range(ids[AddrOf[n[1]]]) /\ opened
                                   THEN @ + 1 ELSE @]
    BY <1>4 DEF ServeEntry
  <2>3. (n[2] \notin Range(ids[AddrOf[n[1]]]) /\ opened) \in BOOLEAN
    OBVIOUS
  <2>4. QED
    BY <1>3, <2>1, <2>2, <2>3
<1>5. log' = log \/ \E n \in dgrams : \E opened \in FopenOutcomes : ServeEntry(n, opened)
  BY DEF Next, vars, Server, ServerNext, Serve, Select, ServeNothing, ServeNoEntry, Cleanup,
         Client, Network, Environment, Tick, Crash, Start, serverVars
<1>6. QED
  BY <1>1, <1>2, <1>4, <1>5

LEMMA LogInvInit == Init => LogInv
<1> SUFFICES ASSUME Init PROVE LogInv
  OBVIOUS
<1>1. TypeOK
  BY TypeInit
<1>2. IdsLogged
  <2>1. \A a \in Addrs : Range(ids[a]) = {}
    BY DEF Init, ServerInit, Range
  <2>2. QED
    BY <2>1 DEF IdsLogged
<1>3. AcksLogged /\ ConfirmedLogged
  BY DEF Init, ClientInit, AcksLogged, ConfirmedLogged
<1>4. QED
  BY <1>1, <1>2, <1>3 DEF LogInv

\* The step that matters: the server records an id, writes the line and acks.
LEMMA ServeEntryLogged ==
  ASSUME OwnAddress, FileOpens, LogInv, [Next]_vars, TypeOK',
         NEW m \in MsgIds, NEW opened \in FopenOutcomes, ServeEntry(m, opened)
  PROVE  IdsLogged' /\ AcksLogged'
<1> DEFINE a == AddrOf[m[1]]
           new == m[2] \notin Range(ids[a])
           hist == IF new THEN Remember(ids[a], m[2]) ELSE ids[a]
<1>1. a \in Addrs /\ m[1] \in Procs /\ m[2] \in Nat /\ m[2] \in Index(m[1]) /\ m = <<m[1], m[2]>>
  BY MsgIdShape
<1>2. ids[a] \in Seq(Nat) /\ Len(ids[a]) <= MaxHistory /\ ids \in [Addrs -> Seq(Nat)]
  BY <1>1 DEF LogInv, TypeOK, ServerTypeOK
<1>3. /\ Range(hist) \subseteq Range(ids[a]) \cup {m[2]}
      /\ new => log'[m] > 0
      /\ hist \in Seq(Nat)
  <2>1. CASE new
    <3>1. opened = TRUE
      BY DEF FileOpens
    <3>2. log' = [log EXCEPT ![m] = @ + 1]
      BY <2>1, <3>1 DEF ServeEntry
    <3>3. log \in [MsgIds -> Nat]
      BY DEF LogInv, TypeOK, ServerTypeOK
    <3>4. log'[m] > 0
      BY <3>2, <3>3
    <3>5. hist = Remember(ids[a], m[2])
      BY <2>1
    <3>6. hist \in Seq(Nat) /\ Range(hist) \subseteq Range(ids[a]) \cup {m[2]}
      BY <1>1, <1>2, <3>5, RememberType
    <3>7. QED
      BY <3>4, <3>6
  <2>2. CASE ~new
    BY <1>2, <2>2
  <2>3. QED
    BY <2>1, <2>2
<1>4. ASSUME NEW p \in Procs, AddrOf[p] = a, NEW i \in Range(hist) \cap Index(p)
      PROVE  log'[<<p, i>>] > 0
  <2>1. p = m[1] /\ <<p, i>> \in MsgIds
    BY <1>1, <1>4, MsgIdOf DEF OwnAddress
  <2>2. CASE i \in Range(ids[a])
    <3>1. log[<<p, i>>] > 0
      BY <1>4, <2>2 DEF LogInv, IdsLogged
    <3>2. QED
      BY <2>1, <3>1, LogGrows DEF LogInv
  <2>3. CASE i \notin Range(ids[a])
    <3>1. i = m[2]
      BY <1>3, <2>3
    <3>2. <<p, i>> = m /\ new
      BY <1>1, <2>1, <2>3, <3>1
    <3>3. QED
      BY <1>3, <3>2
  <2>4. QED
    BY <2>2, <2>3
<1>5. /\ Newest(hist) \subseteq Range(hist)
      /\ ids' = [ids EXCEPT ![a] = hist]
      /\ acks' = acks \cup {Ack(a, Newest(hist))}
  BY <1>3, NewestType DEF ServeEntry
<1> HIDE DEF hist, new
<1>6. IdsLogged'
  <2> SUFFICES ASSUME NEW p \in Procs, NEW i \in Range(ids'[AddrOf[p]]) \cap Index(p)
               PROVE  log'[<<p, i>>] > 0
    BY DEF IdsLogged
  <2>1. CASE AddrOf[p] = a
    BY <1>1, <1>2, <1>4, <1>5, <2>1
  <2>2. CASE AddrOf[p] # a
    <3>1. ids'[AddrOf[p]] = ids[AddrOf[p]]
      BY <1>2, <1>5, <2>2
    <3>2. log[<<p, i>>] > 0
      BY <3>1 DEF LogInv, IdsLogged
    <3>3. QED
      BY <3>2, MsgIdOf, LogGrows DEF LogInv
  <2>3. QED
    BY <2>1, <2>2
<1>7. AcksLogged'
  <2> SUFFICES ASSUME NEW k \in acks', NEW p \in Procs, k.to = AddrOf[p],
                      NEW i \in k.ids \cap Index(p)
               PROVE  log'[<<p, i>>] > 0
    BY DEF AcksLogged
  <2>1. CASE k \in acks
    <3>1. log[<<p, i>>] > 0
      BY <2>1 DEF LogInv, AcksLogged
    <3>2. QED
      BY <3>1, MsgIdOf, LogGrows DEF LogInv
  <2>2. CASE k = Ack(a, Newest(hist))
    BY <1>4, <1>5, <2>2 DEF Ack
  <2>3. QED
    BY <1>5, <2>1, <2>2
<1>8. QED
  BY <1>6, <1>7

LEMMA LogInvStep ==
  ASSUME OwnAddress, FileOpens, LogInv, [Next]_vars
  PROVE  LogInv'
<1>1. TypeOK /\ TypeOK'
  BY TypeStep DEF LogInv
<1>2. /\ \A p \in Procs : \A i \in Index(p) : log[<<p, i>>] > 0 => log'[<<p, i>>] > 0
  BY <1>1, MsgIdOf, LogGrows
<1>3. CASE \E m \in dgrams : \E opened \in FopenOutcomes :
             ServeEntry(m, opened) /\ UNCHANGED clientVars
  <2>1. IdsLogged' /\ AcksLogged'
    BY <1>1, <1>3, ServeEntryLogged DEF TypeOK, NetTypeOK
  <2>2. ConfirmedLogged'
    BY <1>1, <1>2, <1>3 DEF LogInv, ConfirmedLogged, clientVars, TypeOK, ClientTypeOK
  <2>3. QED
    BY <1>1, <2>1, <2>2 DEF LogInv
<1>4. CASE /\ \A p \in Procs : Range(ids'[AddrOf[p]]) \subseteq Range(ids[AddrOf[p]])
           /\ acks' \subseteq acks
           /\ confirmed' = confirmed
  BY <1>1, <1>2, <1>4 DEF LogInv, IdsLogged, AcksLogged, ConfirmedLogged, TypeOK, ClientTypeOK
<1>5. ASSUME NEW p \in Procs, NEW k \in acks, ReceiveAck(p, k), UNCHANGED serverVars
      PROVE  LogInv'
  <2>1. acks' \subseteq acks /\ ids' = ids
    BY <1>5 DEF ReceiveAck, Consume, serverVars
  <2>2. ConfirmedLogged'
    <3> SUFFICES ASSUME NEW q \in Procs, NEW i \in confirmed'[q]
                 PROVE  log'[<<q, i>>] > 0
      BY DEF ConfirmedLogged
    <3>1. i \in Index(q)
      BY <1>1 DEF TypeOK, ClientTypeOK
    <3>2. i \in confirmed[q] \/ (q = p /\ i \in k.ids /\ k.to = AddrOf[p])
      BY <1>1, <1>5 DEF ReceiveAck, TypeOK, ClientTypeOK
    <3>3. log[<<q, i>>] > 0
      BY <3>1, <3>2 DEF LogInv, ConfirmedLogged, AcksLogged
    <3>4. QED
      BY <1>2, <3>1, <3>3
  <2>3. QED
    BY <1>1, <1>2, <2>1, <2>2 DEF LogInv, IdsLogged, AcksLogged
<1>6. ASSUME NEW S, Keep(S)
      PROVE  \A p \in Procs : Range(ids'[AddrOf[p]]) \subseteq Range(ids[AddrOf[p]])
  <2> SUFFICES ASSUME NEW p \in Procs
               PROVE  Range(ids'[AddrOf[p]]) \subseteq Range(ids[AddrOf[p]])
    OBVIOUS
  <2>1. AddrOf[p] \in Addrs
    OBVIOUS
  <2>2. ids'[AddrOf[p]] = ids[AddrOf[p]] \/ ids'[AddrOf[p]] = <<>>
    BY <1>6, <2>1 DEF Keep
  <2>3. Range(<<>>) = {}
    BY DEF Range
  <2>4. QED
    BY <2>2, <2>3
<1>7. CASE Cleanup /\ UNCHANGED clientVars
  BY <1>4, <1>6, <1>7 DEF Cleanup, clientVars, netVars
<1>8. CASE (Crash \/ Start) /\ UNCHANGED clientVars
  BY <1>4, <1>6, <1>8 DEF Crash, Start, clientVars, netVars
<1>9. ASSUME NEW p \in Procs, Client(p) PROVE LogInv'
  BY <1>4, <1>5, <1>9
     DEF Client, ClientNext, Launch, Finish, SendRound, Timeout, serverVars, netVars
<1>10. CASE Network
  BY <1>4, <1>10 DEF Network, Lose, LoseDatagram, LoseAck, serverVars, clientVars
<1>11. CASE (Tick \/ Select \/ ServeNothing) /\ UNCHANGED clientVars
  BY <1>4, <1>11 DEF Tick, Select, ServeNothing, tableVars, netVars, clientVars
<1>12. ASSUME NEW m \in dgrams, ServeNoEntry(m), UNCHANGED clientVars PROVE LogInv'
  BY <1>4, <1>12 DEF ServeNoEntry, tableVars, clientVars
<1>13. CASE UNCHANGED vars
  BY <1>4, <1>13 DEF vars, netVars, serverVars, clientVars
<1>14. QED
  BY <1>3, <1>7, <1>8, <1>9, <1>10, <1>11, <1>12, <1>13
     DEF Next, Server, ServerNext, Serve, Environment

\* Whatever is lost, repeated, reordered, forgotten or restarted, a client never
\* holds a message for accepted that has no line in msg.txt.
THEOREM AckedIsLogged ==
  ASSUME OwnAddress, FileOpens
  PROVE  Spec => []ConfirmedLogged
<1>1. Init => LogInv
  BY LogInvInit
<1>2. LogInv /\ [Next]_vars => LogInv'
  BY LogInvStep
<1>3. LogInv => ConfirmedLogged
  BY DEF LogInv
<1>4. QED
  BY <1>1, <1>2, <1>3, PTL DEF Spec

----------------------------------------------------------------------------
(***************************************************************************)
(* What a client leaves behind.  When its loop ends it has enough          *)
(* confirmations, and afterwards it receives none and loses none.          *)
(***************************************************************************)
DoneConfirmed ==
  \A p \in Procs : cpc[p] = "done" => Cardinality(confirmed[p]) >= Need(p)

LEMMA DoneConfirmedStep ==
  ASSUME TypeOK, DoneConfirmed, [Next]_vars
  PROVE  DoneConfirmed'
<1>1. CASE UNCHANGED clientVars
  BY <1>1 DEF DoneConfirmed, clientVars, Need
<1>2. ASSUME NEW p \in Procs, ClientNext(p)
      PROVE  DoneConfirmed'
  <2> SUFFICES ASSUME NEW q \in Procs, cpc'[q] = "done"
               PROVE  Cardinality(confirmed'[q]) >= Need(q)
    BY DEF DoneConfirmed, Need
  <2>1. cpc \in [Procs -> {"off", "round", "wait", "done"}] /\ confirmed \in [Procs -> SUBSET Nat]
    BY DEF TypeOK, ClientTypeOK
  <2>2. CASE Finish(p)
    BY <2>1, <2>2 DEF Finish, DoneConfirmed
  <2>3. CASE Launch(p) \/ SendRound(p) \/ Timeout(p)
    BY <2>1, <2>3 DEF Launch, SendRound, Timeout, DoneConfirmed
  <2>4. ASSUME NEW k \in acks, ReceiveAck(p, k)
        PROVE  Cardinality(confirmed'[q]) >= Need(q)
    <3>1. q # p /\ cpc[q] = "done" /\ confirmed'[q] = confirmed[q]
      BY <2>1, <2>4 DEF ReceiveAck
    <3>. QED
      BY <3>1 DEF DoneConfirmed
  <2>. QED
    BY <1>2, <2>2, <2>3, <2>4 DEF ClientNext
<1>. QED
  BY <1>1, <1>2 DEF Next, Server, Client, Network, Environment, vars

\* A client that has ended had min(N, AckLen) of its messages written, whichever they
\* are (udpclient.cpp, main, ends on AckLen = 20 confirmations), whatever the network,
\* the cleanup and restarts of the server do.  Of a longer file the other messages
\* may be missing.
THEOREM EndedIsStored ==
  ASSUME OwnAddress, FileOpens
  PROVE  Spec => []FinishedStored
<1>1. Init => DoneConfirmed
  BY DEF Init, ClientInit, DoneConfirmed
<1>2. LogInv /\ DoneConfirmed => FinishedStored
  <2> SUFFICES ASSUME LogInv, DoneConfirmed, NEW p \in Procs, cpc[p] = "done"
               PROVE  Cardinality({i \in Index(p) : log[<<p, i>>] > 0}) >= Need(p)
    BY DEF FinishedStored
  <2>1. confirmed[p] \subseteq {i \in Index(p) : log[<<p, i>>] > 0}
    BY DEF LogInv, TypeOK, ClientTypeOK, ConfirmedLogged
  <2>2. IsFiniteSet(Index(p))
    BY FS_Interval DEF Index
  <2>3. IsFiniteSet({i \in Index(p) : log[<<p, i>>] > 0})
    BY <2>2, FS_Subset
  <2>4. /\ Cardinality(confirmed[p]) <= Cardinality({i \in Index(p) : log[<<p, i>>] > 0})
        /\ IsFiniteSet(confirmed[p])
    BY <2>1, <2>3, FS_Subset
  <2>5. /\ Cardinality(confirmed[p]) \in Nat
        /\ Cardinality({i \in Index(p) : log[<<p, i>>] > 0}) \in Nat
    BY <2>3, <2>4, FS_CardinalityType
  <2>6. Need(p) \in Nat /\ Cardinality(confirmed[p]) >= Need(p)
    BY DEF DoneConfirmed, Need
  <2>. QED
    BY <2>4, <2>5, <2>6
<1>3. LogInv /\ DoneConfirmed /\ [Next]_vars => LogInv' /\ DoneConfirmed'
  BY LogInvStep, DoneConfirmedStep DEF LogInv
<1>4. QED
  BY <1>1, <1>2, <1>3, LogInvInit, PTL DEF Spec

----------------------------------------------------------------------------
(***************************************************************************)
(* No line twice.  This needs a server that is never silent-timed out or   *)
(* restarted, and histories as long as the files: then no id that was      *)
(* logged is ever forgotten.  A history has no id twice and only indices   *)
(* of its client, so it is full only when all of them are in it.           *)
(***************************************************************************)
Undisturbed == ~CanIdle /\ ~CanCrash

HistoriesSuffice == \A p \in Procs : Total[p] <= MaxHistory

NoRepeats(s) == \A i, j \in 1 .. Len(s) : s[i] = s[j] => i = j

TableInv ==
  /\ \A a \in Addrs : idle[a] = 0
  /\ \A a \in Addrs : a \notin known => ids[a] = <<>>
  /\ \A a \in Addrs : NoRepeats(ids[a])
  /\ \A p \in Procs : Range(ids[AddrOf[p]]) \subseteq Index(p)

LoggedRemembered ==
  \A p \in Procs : \A i \in Index(p) : log[<<p, i>>] > 0 => i \in Range(ids[AddrOf[p]])

OnceInv == TypeOK /\ TableInv /\ LoggedRemembered /\ LoggedOnce

\* Distinct ids out of 0 .. n-1, one of which is missing, are less than n.
LEMMA Pigeonhole ==
  ASSUME NEW n \in Nat, NEW s \in Seq(Nat), NoRepeats(s),
         NEW x \in 0 .. n - 1, x \notin Range(s), Range(s) \subseteq 0 .. n - 1
  PROVE  Len(s) < n
<1>1. s \in Bijection(1 .. Len(s), Range(s))
  <2>1. DOMAIN s = 1 .. Len(s) /\ s \in [1 .. Len(s) -> Range(s)]
    BY DEF Range
  <2>2. IsInjective(s)
    BY <2>1 DEF IsInjective, NoRepeats
  <2>3. \A t \in Range(s) : \E i \in 1 .. Len(s) : s[i] = t
    BY <2>1 DEF Range
  <2>4. QED
    BY <2>1, <2>2, <2>3 DEF Bijection, Injection, Surjection
<1>2. Cardinality(Range(s)) = Len(s)
  BY <1>1, FS_CountingElements DEF ExistsBijection
<1>3. IsFiniteSet(0 .. n - 1) /\ Cardinality(0 .. n - 1) = n
  BY FS_Interval
<1>4. IsFiniteSet(Range(s))
  BY <1>3, FS_Subset
<1>5. Cardinality(Range(s) \cup {x}) = Len(s) + 1
  BY <1>2, <1>4, FS_AddElement
<1>6. Cardinality(Range(s) \cup {x}) <= n
  BY <1>3, FS_Subset
<1>7. QED
  BY <1>5, <1>6

LEMMA AppendNew ==
  ASSUME NEW s \in Seq(Nat), NoRepeats(s), NEW x \in Nat, x \notin Range(s)
  PROVE  /\ NoRepeats(Append(s, x))
         /\ Range(Append(s, x)) = Range(s) \cup {x}
<1>1. /\ Len(Append(s, x)) = Len(s) + 1
      /\ \A i \in 1 .. Len(s) : Append(s, x)[i] = s[i]
      /\ Append(s, x)[Len(s) + 1] = x
      /\ DOMAIN s = 1 .. Len(s) /\ DOMAIN Append(s, x) = 1 .. Len(s) + 1
  OBVIOUS
<1>2. \A i \in 1 .. Len(s) : s[i] # x
  BY <1>1 DEF Range
<1>3. NoRepeats(Append(s, x))
  BY <1>1, <1>2 DEF NoRepeats
<1>4. Range(Append(s, x)) = Range(s) \cup {x}
  <2>1. \A y \in Range(s) : y \in Range(Append(s, x))
    BY <1>1 DEF Range
  <2>2. x \in Range(Append(s, x))
    BY <1>1 DEF Range
  <2>3. \A y \in Range(Append(s, x)) : y \in Range(s) \cup {x}
    BY <1>1 DEF Range
  <2>4. QED
    BY <2>1, <2>2, <2>3
<1>5. QED
  BY <1>3, <1>4

LEMMA OnceInvInit == Init => OnceInv
<1> SUFFICES ASSUME Init PROVE OnceInv
  OBVIOUS
<1>1. \A a \in Addrs : ids[a] = <<>> /\ Range(ids[a]) = {} /\ NoRepeats(ids[a])
  BY DEF Init, ServerInit, Range, NoRepeats
<1>2. TableInv
  BY <1>1 DEF TableInv, Init, ServerInit
<1>3. LoggedRemembered /\ LoggedOnce
  BY MsgIdOf DEF LoggedRemembered, LoggedOnce, Init, ServerInit
<1>4. QED
  BY <1>2, <1>3, TypeInit DEF OnceInv

\* A new id is appended and its line counted; for an id of the history neither
\* changes.
LEMMA ServeEntryOnce ==
  ASSUME OwnAddress, HistoriesSuffice, OnceInv, TypeOK',
         NEW m \in MsgIds, NEW opened \in BOOLEAN, ServeEntry(m, opened)
  PROVE  TableInv' /\ LoggedRemembered' /\ LoggedOnce'
<1> DEFINE a == AddrOf[m[1]]
           new == m[2] \notin Range(ids[a])
           hist == IF new THEN Append(ids[a], m[2]) ELSE ids[a]
<1>1. /\ a \in Addrs /\ m[1] \in Procs /\ m[2] \in Nat /\ m[2] \in Index(m[1])
      /\ m = <<m[1], m[2]>> /\ m[2] \in 0 .. Total[m[1]] - 1 /\ Total[m[1]] \in Nat
  BY MsgIdShape DEF Index
<1>2. /\ ids \in [Addrs -> Seq(Nat)] /\ ids[a] \in Seq(Nat) /\ log \in [MsgIds -> Nat]
      /\ idle \in [Addrs -> Nat]
      /\ NoRepeats(ids[a]) /\ Range(ids[a]) \subseteq 0 .. Total[m[1]] - 1
  BY <1>1 DEF OnceInv, TypeOK, ServerTypeOK, TableInv, Index
<1>3. ids' = [ids EXCEPT ![a] = hist]
  <2>1. CASE new
    <3>1. Len(ids[a]) < Total[m[1]]
      BY <1>1, <1>2, <2>1, Pigeonhole
    <3>2. Remember(ids[a], m[2]) = Append(ids[a], m[2])
      BY <1>1, <1>2, <3>1 DEF HistoriesSuffice, Remember
    <3>3. QED
      BY <2>1, <3>2 DEF ServeEntry
  <2>2. CASE ~new
    BY <2>2 DEF ServeEntry
  <2>3. QED
    BY <2>1, <2>2
<1>4. NoRepeats(hist) /\ Range(hist) = Range(ids[a]) \cup {m[2]}
  <2>1. CASE new
    BY <1>1, <1>2, <2>1, AppendNew
  <2>2. CASE ~new
    BY <1>2, <2>2
  <2>3. QED
    BY <2>1, <2>2
<1>5. /\ known' = known \cup {a}
      /\ idle' = [idle EXCEPT ![a] = 0]
      /\ log' = [log EXCEPT ![m] = IF new /\ opened THEN @ + 1 ELSE @]
  BY DEF ServeEntry
<1> HIDE DEF hist
<1>6. ids'[a] = hist /\ \A b \in Addrs \ {a} : ids'[b] = ids[b]
  BY <1>1, <1>2, <1>3
<1>7. TableInv'
  <2>1. \A b \in Addrs : idle'[b] = 0
    BY <1>1, <1>2, <1>5 DEF OnceInv, TableInv
  <2>2. \A b \in Addrs : b \notin known' => ids'[b] = <<>>
    BY <1>5, <1>6 DEF OnceInv, TableInv
  <2>3. \A b \in Addrs : NoRepeats(ids'[b])
    BY <1>4, <1>6 DEF OnceInv, TableInv
  <2>4. ASSUME NEW p \in Procs
        PROVE  Range(ids'[AddrOf[p]]) \subseteq Index(p)
    <3>1. CASE AddrOf[p] = a
      <4>1. p = m[1]
        BY <1>1, <3>1 DEF OwnAddress
      <4>2. QED
        BY <1>1, <1>4, <1>6, <4>1 DEF OnceInv, TableInv
    <3>2. CASE AddrOf[p] # a
      BY <1>6, <3>2 DEF OnceInv, TableInv
    <3>3. QED
      BY <3>1, <3>2
  <2>5. QED
    BY <2>1, <2>2, <2>3, <2>4 DEF TableInv
<1>8. LoggedOnce'
  <2> SUFFICES ASSUME NEW n \in MsgIds PROVE log'[n] <= 1
    BY DEF LoggedOnce
  <2>1. log[n] <= 1 /\ log[n] \in Nat
    BY <1>2 DEF OnceInv, LoggedOnce
  <2>2. CASE n = m /\ new
    <3>1. log[m] = 0
      <4>1. ~(log[<<m[1], m[2]>>] > 0)
        BY <1>1, <2>2 DEF OnceInv, LoggedRemembered
      <4>2. log[<<m[1], m[2]>>] = log[m]
        BY <1>1
      <4>3. QED
        BY <1>2, <4>1, <4>2
    <3>2. QED
      BY <1>2, <1>5, <2>2, <3>1
  <2>3. CASE ~(n = m /\ new)
    BY <1>2, <1>5, <2>1, <2>3
  <2>4. QED
    BY <2>2, <2>3
<1>9. LoggedRemembered'
  <2> SUFFICES ASSUME NEW p \in Procs, NEW i \in Index(p), log'[<<p, i>>] > 0
               PROVE  i \in Range(ids'[AddrOf[p]])
    BY DEF LoggedRemembered
  <2>1. <<p, i>> \in MsgIds
    BY MsgIdOf
  <2>2. CASE <<p, i>> = m
    BY <1>1, <1>4, <1>6, <2>2
  <2>3. CASE <<p, i>> # m
    <3>1. log[<<p, i>>] > 0
      BY <1>2, <1>5, <2>1, <2>3
    <3>2. i \in Range(ids[AddrOf[p]])
      BY <3>1 DEF OnceInv, LoggedRemembered
    <3>3. QED
      BY <1>4, <1>6, <3>2
  <2>4. QED
    BY <2>2, <2>3
<1>10. QED
  BY <1>7, <1>8, <1>9

LEMMA OnceInvStep ==
  ASSUME OwnAddress, Undisturbed, HistoriesSuffice, OnceInv, [Next]_vars
  PROVE  OnceInv'
<1>1. TypeOK /\ TypeOK'
  BY TypeStep DEF OnceInv
<1>2. CASE UNCHANGED <<known, ids, idle, log>>
  BY <1>1, <1>2 DEF OnceInv, TableInv, LoggedRemembered, LoggedOnce
<1>3. CASE Cleanup
  <2>1. {a \in known : idle[a] <= IdleLimit} = known
    BY <1>1 DEF OnceInv, TableInv, TypeOK, ServerTypeOK
  <2>2. known' = known /\ ids' = ids /\ idle' = idle /\ log' = log
    BY <1>1, <1>3, <2>1 DEF Cleanup, Keep, OnceInv, TableInv, TypeOK, ServerTypeOK
  <2>3. QED
    BY <1>2, <2>2
<1>4. ASSUME NEW m \in dgrams, NEW opened \in FopenOutcomes, ServeEntry(m, opened)
      PROVE  OnceInv'
  BY <1>1, <1>4, ServeEntryOnce DEF OnceInv, TypeOK, NetTypeOK
<1>5. CASE Server
  BY <1>2, <1>3, <1>4, <1>5
     DEF Server, ServerNext, Select, ServeNothing, Serve, ServeNoEntry, tableVars
<1>6. CASE (\E p \in Procs : Client(p)) \/ Network \/ UNCHANGED vars
  BY <1>2, <1>6 DEF Client, Network, vars, serverVars
<1>7. CASE Environment
  BY <1>7 DEF Environment, Undisturbed
<1>8. QED
  BY <1>5, <1>6, <1>7 DEF Next

\* Neither retransmission nor duplication in the network adds a line to msg.txt,
\* as long as the server keeps running, no client falls silent for 30 s and no
\* file is longer than a history.
THEOREM NoDuplicates ==
  ASSUME OwnAddress, Undisturbed, HistoriesSuffice
  PROVE  Spec => []LoggedOnce
<1>1. Init => OnceInv
  BY OnceInvInit
<1>2. OnceInv /\ [Next]_vars => OnceInv'
  BY OnceInvStep
<1>3. OnceInv => LoggedOnce
  BY DEF OnceInv
<1>4. QED
  BY <1>1, <1>2, <1>3, PTL DEF Spec

----------------------------------------------------------------------------
(***************************************************************************)
(* The refinement.  Each step of the program is a step of UploadLog or     *)
(* leaves its variables alone: writing a line is Store, receiving an ack   *)
(* is Learn, the end of a client's loop is Leave.                          *)
(***************************************************************************)
UploadInv == LogInv /\ OnceInv

Left == {p \in Procs : cpc[p] = "done"}

absVars == <<log, confirmed, Left>>

\* The line of a new id is stored for the first time.
LEMMA ServeEntryRefines ==
  ASSUME UploadInv, NEW m \in MsgIds, NEW opened \in BOOLEAN, ServeEntry(m, opened),
         UNCHANGED clientVars
  PROVE  Abs!Next \/ UNCHANGED absVars
<1>1. m[1] \in Procs /\ m[2] \in Index(m[1]) /\ m = <<m[1], m[2]>> /\ log \in [MsgIds -> Nat]
  BY MsgIdShape DEF UploadInv, LogInv, TypeOK, ServerTypeOK
<1>2. Left' = Left /\ confirmed' = confirmed
  BY DEF Left, clientVars
<1>3. CASE m[2] \notin Range(ids[AddrOf[m[1]]]) /\ opened
  <2>1. log[m] = 0
    <3>1. ~(log[<<m[1], m[2]>>] > 0)
      BY <1>1, <1>3 DEF UploadInv, OnceInv, LoggedRemembered
    <3>2. log[<<m[1], m[2]>>] = log[m]
      BY <1>1
    <3>3. QED
      BY <1>1, <3>1, <3>2
  <2>2. log' = [log EXCEPT ![m] = 1]
    BY <1>1, <1>3, <2>1 DEF ServeEntry
  <2>3. Abs!Store(m)
    BY <1>2, <2>1, <2>2 DEF Abs!Store, Left
  <2>4. m \in Abs!Messages
    BY DEF Abs!Messages, MsgIds, Index
  <2>5. QED
    BY <2>3, <2>4 DEF Abs!Next
<1>4. CASE ~(m[2] \notin Range(ids[AddrOf[m[1]]]) /\ opened)
  <2>1. log' = log
    BY <1>1, <1>4 DEF ServeEntry
  <2>2. QED
    BY <1>2, <2>1 DEF absVars
<1>5. QED
  BY <1>3, <1>4

LEMMA ReceiveAckRefines ==
  ASSUME UploadInv, NEW p \in Procs, NEW k \in acks, ReceiveAck(p, k), UNCHANGED serverVars
  PROVE  Abs!Next
<1> DEFINE S == k.ids \cap Index(p)
<1>1. cpc[p] = "wait" /\ p \notin Left /\ Left' = Left
  BY DEF ReceiveAck, Left, UploadInv, LogInv, TypeOK, ClientTypeOK
<1>2. ASSUME NEW i \in S PROVE log[<<p, i>>] = 1
  <2>1. log[<<p, i>>] > 0
    BY DEF UploadInv, LogInv, AcksLogged, ReceiveAck
  <2>2. <<p, i>> \in MsgIds
    BY MsgIdOf
  <2>3. log[<<p, i>>] <= 1 /\ log[<<p, i>>] \in Nat
    BY <2>2 DEF UploadInv, OnceInv, LoggedOnce, TypeOK, ServerTypeOK
  <2>4. QED
    BY <2>1, <2>3
<1>3. confirmed' = [confirmed EXCEPT ![p] = @ \cup S] /\ log' = log
  BY DEF ReceiveAck, serverVars
<1>4. Abs!Learn(p, S)
  BY <1>1, <1>2, <1>3 DEF Abs!Learn, Left
<1>5. S \in SUBSET (0 .. Total[p] - 1)
  BY DEF Index
<1>6. QED
  BY <1>4, <1>5 DEF Abs!Next

LEMMA FinishRefines ==
  ASSUME UploadInv, NEW p \in Procs, Finish(p), UNCHANGED serverVars
  PROVE  Abs!Next
<1>1. Left' = Left \cup {p}
  BY DEF Finish, Left, UploadInv, LogInv, TypeOK, ClientTypeOK
<1>2. Need(p) = Abs!Required(p)
  BY DEF Need, Abs!Required
<1>3. Abs!Leave(p)
  <2>1. Cardinality(confirmed[p]) >= Abs!Required(p) /\ log' = log /\ confirmed' = confirmed
    BY <1>2 DEF Finish, serverVars
  <2>2. Cardinality(confirmed[p]) = Abs!Cardinality(confirmed[p])
    BY DEF Cardinality, Abs!Cardinality, IsFiniteSet, Abs!IsFiniteSet
  <2>3. QED
    BY <1>1, <2>1, <2>2 DEF Abs!Leave, Left
<1>4. QED
  BY <1>3 DEF Abs!Next

LEMMA RefinesInit == Init => Abs!Init
<1> SUFFICES ASSUME Init PROVE Abs!Init
  OBVIOUS
<1>1. MsgIds = Abs!Messages
  BY DEF MsgIds, Abs!Messages, Index
<1>2. Left = {}
  BY DEF Init, ClientInit, Left
<1>3. QED
  BY <1>1, <1>2 DEF Init, ServerInit, ClientInit, Abs!Init, Left

LEMMA RefinesStep ==
  ASSUME UploadInv, [Next]_vars
  PROVE  [Abs!Next]_absVars
<1>1. CASE log' = log /\ confirmed' = confirmed /\ Left' = Left
  BY <1>1 DEF absVars
<1>2. CASE Server
  <2>1. ASSUME NEW m \in dgrams, NEW opened \in FopenOutcomes, ServeEntry(m, opened)
        PROVE  [Abs!Next]_absVars
    BY <1>2, <2>1, ServeEntryRefines
       DEF Server, UploadInv, LogInv, TypeOK, NetTypeOK
  <2>2. CASE \A m \in dgrams : \A opened \in FopenOutcomes : ~ServeEntry(m, opened)
    BY <1>1, <1>2, <2>2
       DEF Server, ServerNext, Select, ServeNothing, Serve, ServeNoEntry, Cleanup, Left, clientVars
  <2>3. QED
    BY <2>1, <2>2
<1>3. ASSUME NEW p \in Procs, Client(p)
      PROVE  [Abs!Next]_absVars
  <2>1. CASE \E k \in acks : ReceiveAck(p, k)
    BY <1>3, <2>1, ReceiveAckRefines DEF Client
  <2>2. CASE Finish(p)
    BY <1>3, <2>2, FinishRefines DEF Client
  <2>3. CASE Launch(p) \/ SendRound(p) \/ Timeout(p)
    <3>1. Left' = Left
      BY <2>3 DEF Launch, SendRound, Timeout, Left, UploadInv, LogInv, TypeOK, ClientTypeOK
    <3>2. QED
      BY <1>1, <1>3, <2>3, <3>1 DEF Client, Launch, SendRound, Timeout, serverVars
  <2>4. QED
    BY <1>3, <2>1, <2>2, <2>3 DEF Client, ClientNext
<1>4. CASE Network \/ Environment \/ UNCHANGED vars
  BY <1>1, <1>4
     DEF Network, Environment, Tick, Crash, Start, Left, vars, serverVars, clientVars
<1>5. QED
  BY <1>2, <1>3, <1>4 DEF Next

\* The programs, the table, the histories, the acks and the lossy network
\* together implement UploadLog.
THEOREM UploadImplementsLog ==
  ASSUME OwnAddress, FileOpens, Undisturbed, HistoriesSuffice
  PROVE  Spec => Refines
<1>1. Init => UploadInv
  BY LogInvInit, OnceInvInit DEF UploadInv
<1>2. UploadInv /\ [Next]_vars => UploadInv'
  BY LogInvStep, OnceInvStep DEF UploadInv
<1>3. UploadInv /\ [Next]_vars => [Abs!Next]_(Abs!vars)
  BY RefinesStep DEF absVars, Abs!vars, Left
<1>4. Init => Abs!Init
  BY RefinesInit
<1>5. QED
  BY <1>1, <1>2, <1>3, <1>4, PTL DEF Spec, Refines, Abs!Spec
=============================================================================
