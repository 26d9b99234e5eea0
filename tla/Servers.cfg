SPECIFICATION FairSpec
CONSTANTS
  NPeers = 3
  NFd = 2
  NSlots = 2
  NWs = 1
  NTelnet = 1
  MaxSend = 3
  Other = Other
  NULL = NULL
CHECK_DEADLOCK FALSE
INVARIANTS TypeOK SlotsKept OneUser
PROPERTIES Accepted
