SPECIFICATION Spec
CONSTANTS
  NPeers = 3
  NFd = 3
  NSlots = 2
  NWs = 1
  NTelnet = 1
  MaxSend = 2
  Other = Other
  NULL = NULL
CHECK_DEADLOCK FALSE
INVARIANT NoOrphan
