SPECIFICATION Spec
CHECK_DEADLOCK FALSE
CONSTANTS
  Threads = {t1, t2, t3}
  t1 = t1
  t2 = t2
  t3 = t3
  Retention = 2
  MaxEvents = 6
  MaxCrashes = 2
INVARIANT HistoryIsComplete
PROPERTY ActsAsLog
