SPECIFICATION Spec
CONSTANTS
  Ids = {t1, t2}
  CreateIds = {}
  EditIds = {t1, t2}
  Web = {w1}
  Main = main
  Settings = {s1}
  Imports = {s1}
  Period = 1
  t1 = t1
  t2 = t2
  w1 = w1
  s1 = s1
  main = main
SYMMETRY Symmetry
INVARIANTS TypeOK AutoUpdateNeedsCheck LegacyInstallIsSet
PROPERTY TasksStay
