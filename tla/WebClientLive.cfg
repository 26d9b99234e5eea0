SPECIFICATION FairSpec
CONSTANTS
  User = {u1}
  Command = {"stop", "wake", "wifi lost"}
  Chunked = {TRUE}
  MaxError = 2
CHECK_DEADLOCK FALSE
PROPERTY StopEndsSession
