\* Sessions that cross the boundaries of parts, days and weeks.
SPECIFICATION SessionSpec
CONSTANTS
  Days <- SomeDays
  DayMinutes = 120
  Tables <- SomeTables
  Starting <- SomeStarts
  Grain = 30
  TickSecs = 600
  RoundTo = 5
  MaxTicks = 10
  MaxIntervals = 3
INVARIANTS PerMinuteAsRates PausesAreFree
PROPERTY OwedNeverFalls
CHECK_DEADLOCK FALSE
