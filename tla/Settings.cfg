SPECIFICATION FairSpec
CONSTANTS
  Task = {web, uart}
  Op = {"theme", "wifi", "connect", "station", "move", "clear", "erase", "volume"}
  NStations = 3
  PerSector = 2
  MaxChange = 2
  MaxCrash = 1
  Ones = Ones
  Zeros = Zeros
  Mix = Mix
  NULL = NULL
CHECK_DEADLOCK FALSE
INVARIANTS TypeOK IdleMeansSaved StationsKept
PROPERTIES BackupSparesStations RequestsEnd VolumeStored
