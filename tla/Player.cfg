CONSTANTS
  Decoder = {d1, d2}
  Stopper = {user}
  Kind = {"mp3"}
  Len = 3
  Trigger = 2
  Threshold = 1
  Chunk = {2}
CHECK_DEADLOCK FALSE
SPECIFICATION Spec
INVARIANTS TypeOK SingleReader
PROPERTY CleanupSparesSuccessor
SYMMETRY Slots
