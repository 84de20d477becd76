\* Two clients of one port: one of three messages, more than an ack lists, the last of
\* them a "stop", and one of one message.  The server runs without a pause, a history has
\* room for all ids but that of the "stop", the network is fair-lossy.
SPECIFICATION FairSpec
CONSTANTS
  c1 = c1  c2 = c2  addr1 = addr1  addr2 = addr2
  Procs <- TwoProcs
  AddrOf <- TwoAddrs
  PortOf <- OnePort
  Total <- ThreeThenOne
  StopMsgs <- OwnStop
  AckLen = 2
  MaxClients = 2
  MaxHistory = 2
  IdleLimit = 0
  FopenOutcomes = {TRUE}
  MaxCopies = 2
  CanIdle = FALSE
  CanCrash = FALSE
INVARIANTS LoggedOnce
PROPERTIES Refines EveryUploadEnds
CHECK_DEADLOCK FALSE
