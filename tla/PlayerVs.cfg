CONSTANTS
  Decoder = {d1, d2}
  Stopper = {user}
  Kind = {"vs"}
  Len = 3
  Trigger = 2
  Threshold = 1
  Chunk = {2}
CHECK_DEADLOCK FALSE
SPECIFICATION FairSpec
INVARIANTS SingleReader
PROPERTY StopWhileIdle
