SPECIFICATION FairSpec
CONSTANTS
  Items = {a}
  Threshold = 1
  Cooldown = 2
  SafeMode = 1
  MinDelay = 1
  Stale = 0
  WatchdogAfter = 1
  MaxQueue = 1
  Configs <- VariousConfigs
  Snapshots <- AllSnapshots
  Requests = {"check_install", "retry"}
  Scheduled <- BothSchedules
  a = a
INVARIANTS BackupBeforeRequest
PROPERTIES InstallIsGated ActsAsAccount StuckJobEnds LockIsGrantedAgain QueueIsServed
