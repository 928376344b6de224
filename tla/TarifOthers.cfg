\* Counterexample: deleting a part of the tariff in use deletes the price with
\* the part's id, which belongs to another tariff.
SPECIFICATION Spec
CONSTANTS
  Threads = {n1}
  Days <- TwoDays
  DayMinutes = 4
  StartTimes <- SomeStarts
  HourPrices = {5000}
  Fafters = {5}
  Rows <- APrice
  StaleEdits = FALSE
  Races = FALSE
  MaxTarif = 2
  MaxPart = 3
  MaxRow = 1
PROPERTY OtherTarifsUntouched
CHECK_DEADLOCK FALSE
