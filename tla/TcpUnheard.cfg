\* One client, whose command arrives after the server has accepted it.
SPECIFICATION FairSpec
CONSTANTS
  c1 = c1  c2 = c2  c3 = c3  NoClient = NoClient
  Clients <- One
  Command <- Put
  Sends <- OneMessage
  Stops <- NoneStops
  OkRoom = 2
  Attempts = 1
  MaxSlots = 2
  FopenOutcomes = {TRUE}
PROPERTIES ClientsEnd
CHECK_DEADLOCK FALSE
