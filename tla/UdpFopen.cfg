\* The file cannot be opened for a moment.
SPECIFICATION Spec
CONSTANTS
  c1 = c1  c2 = c2  addr1 = addr1  addr2 = addr2
  Procs <- OneProc
  AddrOf <- OneAddr
  PortOf <- OnlyPort
  Total <- Two
  StopMsgs <- NoStop
  AckLen = 2
  MaxClients = 1
  MaxHistory = 2
  IdleLimit = 0
  FopenOutcomes = {TRUE, FALSE}
  MaxCopies = 2
  CanIdle = FALSE
  CanCrash = FALSE
INVARIANTS ConfirmedLogged
