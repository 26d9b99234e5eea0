SPECIFICATION Spec
CONSTANTS
  HttpCalls = {"web", "volume"}
  OtherCalls = {"stop", "webstation_stop"}
  MaxCalls = 3
  Overlap = 2
  Meeting = {"web", "volume", "stop", "webstation_stop"}
CHECK_DEADLOCK FALSE
INVARIANT ChipEnabled
