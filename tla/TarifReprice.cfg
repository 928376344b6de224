\* Counterexample: the cashing window prices a session of two intervals anew
\* with the time of the last one.
SPECIFICATION SessionSpec
CONSTANTS
  Days <- SomeDays
  DayMinutes = 120
  Tables <- SomeTables
  Starting <- SomeStarts
  Grain = 30
  TickSecs = 600
  RoundTo = 5
  MaxTicks = 10
  MaxIntervals = 2
INVARIANT RepriceAgrees
CHECK_DEADLOCK FALSE
