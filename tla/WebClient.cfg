SPECIFICATION Spec
CONSTANTS
  User = {u1}
  Command = {"station", "instant"}
  Chunked = {TRUE}
  MaxError = 2
CHECK_DEADLOCK FALSE
INVARIANTS TypeOK PlayingTells
PROPERTY NoStaleStop
