CONSTANTS
  Decoder = {d1}
  Stopper = {user}
  Kind = {"vs"}
  Len = 3
  Trigger = 2
  Threshold = 1
  Chunk = {2}
CHECK_DEADLOCK FALSE
SPECIFICATION FairSpec
PROPERTY DrainEnds
