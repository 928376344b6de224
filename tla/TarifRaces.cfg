\* Counterexample: a price is calculated while the employee puts another tariff
\* in use, and the end of the calculation puts the old one back.
SPECIFICATION Spec
CONSTANTS
  Threads = {n1}
  Days <- TwoDays
  DayMinutes = 4
  StartTimes <- SomeStarts
  HourPrices = {5000}
  Fafters = {5}
  Rows <- APrice
  StaleEdits = FALSE
  Races = TRUE
  MaxTarif = 2
  MaxPart = 3
  MaxRow = 1
INVARIANT TarifRestored
CHECK_DEADLOCK FALSE
