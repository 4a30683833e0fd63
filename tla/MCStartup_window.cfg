SPECIFICATION FairSpec
CONSTANTS
  Words <- MCWords
  Digits = {"2nd"}
  Wildcard = Wildcard
  NoEntry = NoEntry
  Denied = Denied
  Schemas <- MCSchemas
  Configs <- MCConfigs
  NoTable = NoTable
  NotRead = NotRead
  Window = 3
  Period = 2
  MaxAttempt = 1
  ReadyBy = 5
  Flaky = TRUE
CHECK_DEADLOCK FALSE
INVARIANTS TypeOK ServesWhatItChecked OneNameOneThing WaitsTheWindow
PROPERTY ServesInTheEnd
