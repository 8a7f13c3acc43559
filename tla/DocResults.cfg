SPECIFICATION Spec
CONSTANTS
  Items = {a}
  Threshold = 1
  Cooldown = 1
  SafeMode = 1
  MinDelay = 1
  Stale = 0
  WatchdogAfter = 0
  MaxQueue = 1
  Configs <- RollbackConfig
  Snapshots <- AllSnapshots
  Requests = {"check_install", "retry", "backup"}
  Scheduled <- BothSchedules
  a = a
INVARIANT ResultsAreWritten
