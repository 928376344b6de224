\* One pricing thread, and an employee who only changes parts of the tariff
\* shown and never while a price is calculated.  The minutes after
\* which a price is fractioned are the same for all: no property is about them.
SPECIFICATION Spec
CONSTANTS
  Threads = {n1}
  Days <- TwoDays
  DayMinutes = 4
  StartTimes <- SomeStarts
  HourPrices = {5000}
  Fafters = {10}
  Rows <- APrice
  StaleEdits = FALSE
  Races = FALSE
  MaxTarif = 2
  MaxPart = 3
  MaxRow = 1
INVARIANTS TypeOK ListsMatchTables AssertionHolds ListCoversWeek
CHECK_DEADLOCK FALSE
