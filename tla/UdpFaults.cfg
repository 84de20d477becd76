\* Two clients, a table with room for one of them, a history shorter than the
\* first client's file, silences, restarts of the server.
SPECIFICATION Spec
CONSTANTS
  c1 = c1  c2 = c2  addr1 = addr1  addr2 = addr2
  Procs <- TwoProcs
  AddrOf <- TwoAddrs
  PortOf <- TwoPorts
  Total <- TwoThenOne
  StopMsgs <- LastStops
  AckLen = 1
  MaxClients = 1
  MaxHistory = 1
  IdleLimit = 0
  FopenOutcomes = {TRUE}
  MaxCopies = 2
  CanIdle = TRUE
  CanCrash = TRUE
INVARIANTS TypeOK ConfirmedLogged FinishedStored
CHECK_DEADLOCK FALSE
