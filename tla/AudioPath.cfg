SPECIFICATION Spec
CONSTANTS
  HttpCalls = {"web", "fm", "volume", "pause"}
  OtherCalls = {"webstation_stop", "stop", "source", "power"}
  MaxCalls = 3
  Overlap = 2
  Meeting = {"web", "volume", "webstation_stop", "source"}
CHECK_DEADLOCK FALSE
INVARIANTS TypeOK SoloCallWorks SoloTalkIsHeard
PROPERTY ImplementsRadio
