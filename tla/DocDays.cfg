SPECIFICATION Spec
CONSTANTS
  DayLength = 2
  MonthStart <- ShortMonths
  Edits <- OneEdit
  Imports <- OneImport
  Web = {w1}
  w1 = w1
  Main = main
  main = main
  Jitter = 0
  Offset = 0
  Horizon = 6
INVARIANT SelectedDaysAreNotRefused
