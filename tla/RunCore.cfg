SPECIFICATION Spec
CONSTANTS
  Items = {a, b}
  Threshold = 2
  Cooldown = 1
  SafeMode = 2
  MinDelay = 2
  Stale = 1
  WatchdogAfter = 1
  MaxQueue = 1
  Configs <- OneConfig
  Snapshots <- GoodOnly
  Requests = {"install", "retry", "clear", "backup"}
  Scheduled <- NoSchedule
  a = a
  b = b
INVARIANTS LockMatchesRun JobMatchesRun InstallJobEnds
PROPERTIES  InstallsAreSpaced FailedRunKeepsSafeMode ActsAsAccount
