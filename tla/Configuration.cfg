SPECIFICATION Spec
CONSTANTS
  DayLength = 2
  MonthStart <- ShortMonths
  Edits <- Daily
  Imports <- ManyImports
  Web = {w1}
  w1 = w1
  Main = main
  main = main
  Jitter = 1
  Offset = 1
  Horizon = 3
CONSTRAINT Uninterfered
INVARIANTS NoOccurrenceIsPassedOver StoredOptionsAreValid 
PROPERTY OneAttemptPerOccurrence
