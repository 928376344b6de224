\* Counterexample: changes go to the part selected last, of another tariff
\* than the one in use, whose list is not rebuilt.
SPECIFICATION Spec
CONSTANTS
  Threads = {n1}
  Days <- TwoDays
  DayMinutes = 4
  StartTimes <- SomeStarts
  HourPrices = {5000}
  Fafters = {5}
  Rows <- APrice
  StaleEdits = TRUE
  Races = FALSE
  MaxTarif = 2
  MaxPart = 3
  MaxRow = 1
INVARIANT ListsMatchTables
CHECK_DEADLOCK FALSE
