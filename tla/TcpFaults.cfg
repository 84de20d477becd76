\* Three clients, room for two, one of them silent for ever; kills.
SPECIFICATION FairSpec
CONSTANTS
  c1 = c1  c2 = c2  c3 = c3  NoClient = NoClient
  Clients <- Three
  Command <- PutPutGet
  Sends <- ThreeFiles
  Stops <- FirstStops
  OkRoom = 1
  Attempts = 1
  MaxSlots = 2
  FopenOutcomes = {TRUE}
INVARIANTS TypeOK OksAreStored DoneIsStored ClientsUnheard
PROPERTIES HeardClientsEnd
CHECK_DEADLOCK FALSE
