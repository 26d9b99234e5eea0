SPECIFICATION FairSpec
CONSTANTS
  Node = {n1, n2}
  NULL = NULL
  ButtonOrder <- MCButtonOrder
  HoldTime = 0
  MaxNow = 2
INVARIANTS TypeOK ListsSound PoolConserved CheckedHeadStillThere
PROPERTIES HeldEventStable ImplementsPool QueueDrains
