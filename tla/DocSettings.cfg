SPECIFICATION Spec
CONSTANTS
  Ids = {t1}
  CreateIds = {}
  EditIds = {}
  Imports = {s1, s2}
  Web = {w1}
  Main = main
  Settings = {s1, s2}
  Period = 1
  t1 = t1
  w1 = w1
  s1 = s1
  s2 = s2
  main = main
INVARIANT InstallsFollowSettings
