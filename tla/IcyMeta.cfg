SPECIFICATION Spec
CONSTANTS
  MetaInt = {0, 1, 2, 3}
  MetaLen = {0, 1, 2, 5}
  MaxPacket = 9
  Bound = 6
CONSTRAINT Bounded
INVARIANTS TypeOK InStep RightBytes
